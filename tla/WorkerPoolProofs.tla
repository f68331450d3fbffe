-------------------------- MODULE WorkerPoolProofs --------------------------
(***************************************************************************)
(* Proofs about one call of the worker pool, for every n, threshold and    *)
(* GOMAXPROCS: type correctness, that each index is handled exactly once,  *)
(* that nothing is written after the call has returned, that the error     *)
(* returned is the first one recorded, that collected values are in the    *)
(* order of the chunks, and that the pool implements IndexLoop.            *)
(***************************************************************************)
EXTENDS WorkerPool, DataLemmas

Live == {s \in DOMAIN worker : worker[s].pc # "done"}

(* TypeOK without the claim that the wait group never goes negative.       *)
TypeInv ==
  /\ call \in [op : Ops, n : Sizes, threshold : Thresholds, procs : ProcCounts]
  /\ pc \in {"called", "serial", "spawn", "returned"}
  /\ next \in Nat
  /\ idx \in Nat
  /\ DOMAIN worker \subseteq 0..n-1
  /\ worker \in [DOMAIN worker -> [pc : WorkerPcs, at : 0..n, slot : Nat]]
  /\ wg \in Int
  /\ mu \in DOMAIN worker \cup {Free}
  /\ firstErr \in DOMAIN worker \cup {NoErr}
  /\ DOMAIN results \subseteq Nat
  /\ results \in [DOMAIN results -> (0..n) \X (0..n)]
  /\ visits \in [0..n-1 -> Nat]

(* The frames: disjoint ranges that cover everything below the loop        *)
(* variable, each with its position inside its range.                      *)
FrameInv ==
  /\ pc = "called" => DOMAIN worker = {} /\ next = 0
  /\ pc = "serial" => Serial
  /\ pc = "spawn" => n > 0 /\ ~Serial
  /\ Serial => next = 0 /\ DOMAIN worker \subseteq {0} /\ (pc # "called" => 0 \in DOMAIN worker)
  /\ ~Serial => \A s \in DOMAIN worker : s + chunk <= next
  /\ \A s \in DOMAIN worker : s <= worker[s].at /\ worker[s].at <= FrameEnd(s)
  /\ \A s, t \in DOMAIN worker : s < t => FrameEnd(s) <= t
  /\ \A i \in 0..n-1 : i < next => \E s \in DOMAIN worker : s <= i /\ i < FrameEnd(s)

-----------------------------------------------------------------------------
(* A chunk has at least one index, so the spawning loop makes progress.    *)
LEMMA ChunkPositive ==
  ASSUME NEW size \in Int, NEW procs \in Int
  PROVE  ChunkSize(size, procs) \in Nat \ {0}
  BY DEF ChunkSize

(* The arguments of a call are integers and its chunk size is positive.    *)
LEMMA CallTypes ==
  ASSUME TypeInv
  PROVE  n \in Int /\ call.threshold \in Int /\ chunk \in Nat \ {0} /\ Serial \in BOOLEAN
  <1>1. n \in Int /\ call.threshold \in Int /\ call.procs \in Int
    BY PoolAssumption DEF TypeInv, n
  <1>2. QED
    BY <1>1, ChunkPositive DEF chunk, Serial

(* A frame ends after it begins, and never beyond n.                       *)
LEMMA FrameBounds ==
  ASSUME TypeInv, NEW s \in 0..n-1, Serial => s = 0
  PROVE  FrameEnd(s) \in Nat /\ s < FrameEnd(s) /\ FrameEnd(s) <= n
         /\ (~Serial => FrameEnd(s) <= s + chunk)
  BY CallTypes DEF FrameEnd, ChunkEnd

(* A step leaves the arguments, and all that depends on them alone.        *)
LEMMA CallFixed ==
  ASSUME [Next]_vars
  PROVE  call' = call /\ n' = n /\ chunk' = chunk /\ Serial' = Serial
         /\ \A s : FrameEnd(s)' = FrameEnd(s)
  <1>1. call' = call
    BY DEF Next, vars, Caller, Worker, Finished, CallEmpty, CallSerial, CallParallel, Spawn,
           Return, ReturnSerial, Visit, FnReturn, FnFail, Store, LockErr, CheckErr, WriteErr, Done
  <1>2. QED
    BY <1>1 DEF n, chunk, Serial, FrameEnd, ChunkEnd

LEMMA FrameInit == Init => TypeInv /\ FrameInv
  <1> SUFFICES ASSUME Init PROVE TypeInv /\ FrameInv
    OBVIOUS
  <1>1. n \in Int
    BY PoolAssumption DEF Init, n
  <1>2. TypeInv
    BY <1>1 DEF Init, TypeInv, n
  <1>3. FrameInv
    BY <1>1, CallTypes, <1>2 DEF Init, FrameInv
  <1>4. QED
    BY <1>2, <1>3

LEMMA FrameStep == TypeInv /\ FrameInv /\ [Next]_vars => TypeInv' /\ FrameInv'
  <1> SUFFICES ASSUME TypeInv, FrameInv, [Next]_vars
               PROVE  TypeInv' /\ FrameInv'
    OBVIOUS
  <1>0. /\ n \in Int /\ call.threshold \in Int /\ chunk \in Nat \ {0}
        /\ call' = call /\ n' = n /\ chunk' = chunk /\ Serial' = Serial
        /\ \A s : FrameEnd(s)' = FrameEnd(s)
    BY CallTypes, CallFixed
  <1>b. \A s \in 0..n-1 : (Serial => s = 0) =>
          /\ FrameEnd(s) \in Nat /\ s < FrameEnd(s) /\ FrameEnd(s) <= n
          /\ ~Serial => FrameEnd(s) <= s + chunk
    BY FrameBounds
  <1>1. CASE CallEmpty
    BY <1>1, <1>0 DEF CallEmpty, TypeInv, FrameInv, Serial
  <1>2. CASE CallSerial
    BY <1>2, <1>0, <1>b DEF CallSerial, TypeInv, FrameInv, Serial, Frame, WorkerPcs
  <1>3. CASE CallParallel
    BY <1>3, <1>0 DEF CallParallel, TypeInv, FrameInv, Serial, Unset, NumChunks
  <1>4. CASE Spawn
    <2>1. /\ pc = "spawn" /\ ~Serial /\ next \in 0..n-1 /\ next \notin DOMAIN worker
          /\ next' = next + chunk /\ idx' = idx + 1 /\ wg' = wg + 1
          /\ UNCHANGED <<call, pc, mu, firstErr, results, visits>>
      <3>1. /\ pc = "spawn" /\ next < n /\ next' = next + chunk /\ idx' = idx + 1 /\ wg' = wg + 1
            /\ UNCHANGED <<call, pc, mu, firstErr, results, visits>>
        BY <1>4 DEF Spawn
      <3>2. ~Serial /\ \A s \in DOMAIN worker : s + chunk <= next
        BY <3>1 DEF FrameInv
      <3>3. next \in 0..n-1 /\ DOMAIN worker \subseteq 0..n-1
        BY <1>0, <3>1 DEF TypeInv
      <3>4. next \notin DOMAIN worker
        BY <1>0, <3>2, <3>3
      <3>5. QED
        BY <3>1, <3>2, <3>3, <3>4
    <2>2. /\ DOMAIN worker' = DOMAIN worker \cup {next}
          /\ worker'[next] = [pc |-> "run", at |-> next, slot |-> idx]
          /\ \A s \in DOMAIN worker : worker'[s] = worker[s]
          /\ worker' \in [DOMAIN worker' -> [pc : WorkerPcs, at : 0..n, slot : Nat]]
      <3>1. worker' = [s \in DOMAIN worker \cup {next} |->
                         IF s = next THEN Frame(idx, next) ELSE worker[s]]
        BY <1>4 DEF Spawn
      <3>2. Frame(idx, next) = [pc |-> "run", at |-> next, slot |-> idx]
        BY DEF Frame
      <3>3. /\ DOMAIN worker' = DOMAIN worker \cup {next}
            /\ worker'[next] = [pc |-> "run", at |-> next, slot |-> idx]
            /\ \A s \in DOMAIN worker : worker'[s] = worker[s]
        BY <2>1, <3>1, <3>2
      <3>4. Frame(idx, next) \in [pc : WorkerPcs, at : 0..n, slot : Nat]
        BY <1>0, <2>1, <3>2 DEF WorkerPcs, TypeInv
      <3>5. \A s \in DOMAIN worker : worker[s] \in [pc : WorkerPcs, at : 0..n, slot : Nat]
        BY DEF TypeInv
      <3>6. worker' \in [DOMAIN worker' -> [pc : WorkerPcs, at : 0..n, slot : Nat]]
        BY <3>1, <3>3, <3>4, <3>5
      <3>7. QED
        BY <3>3, <3>6
    <2>3. TypeInv'
      <3>1. /\ next' \in Nat /\ idx' \in Nat /\ wg' \in Int /\ DOMAIN worker' \subseteq 0..n-1
            /\ mu \in DOMAIN worker' \cup {Free} /\ firstErr \in DOMAIN worker' \cup {NoErr}
        BY <1>0, <2>1, <2>2 DEF TypeInv
      <3>2. QED
        BY <1>0, <2>1, <2>2, <3>1 DEF TypeInv
    <2>4. FrameInv'
      <3>1. /\ DOMAIN worker \subseteq 0..n-1 /\ next \in 0..n-1
            /\ FrameEnd(next) \in Nat /\ next < FrameEnd(next) /\ FrameEnd(next) <= next + chunk
        BY <2>1, <1>b DEF TypeInv
      <3>2. \A s \in DOMAIN worker : FrameEnd(s) \in Nat /\ FrameEnd(s) <= next
        BY <2>1, <3>1, <1>0, <1>b DEF FrameInv
      <3>3. \A s, t \in DOMAIN worker' : s < t => FrameEnd(s) <= t
        BY <2>2, <3>1, <3>2 DEF FrameInv
      <3>4. \A s \in DOMAIN worker' : s <= worker'[s].at /\ worker'[s].at <= FrameEnd(s)
        BY <2>2, <3>1, <3>2 DEF FrameInv
      <3>5. \A i \in 0..n-1 : i < next + chunk => \E s \in DOMAIN worker' : s <= i /\ i < FrameEnd(s)
        <4> SUFFICES ASSUME NEW i \in 0..n-1, i < next + chunk
                     PROVE  \E s \in DOMAIN worker' : s <= i /\ i < FrameEnd(s)
          OBVIOUS
        <4>1. CASE i < next
          BY <4>1, <2>2 DEF FrameInv
        <4>2. CASE next <= i
          BY <4>2, <2>1, <2>2, <1>0 DEF FrameEnd, ChunkEnd
        <4>3. QED
          BY <4>1, <4>2, <3>1
      <3>6. \A s \in DOMAIN worker' : s + chunk <= next + chunk
        BY <2>1, <2>2, <3>1, <1>0 DEF FrameInv
      <3>7. QED
        BY <2>1, <3>3, <3>4, <3>5, <3>6, <1>0 DEF FrameInv
    <2>5. QED
      BY <2>3, <2>4
  <1>5. CASE Return
    BY <1>5, <1>0 DEF Return, TypeInv, FrameInv
  <1>6. CASE ReturnSerial
    <2>1. 0 \in DOMAIN worker
      BY <1>6 DEF ReturnSerial, FrameInv
    <2>2. worker' = [worker EXCEPT ![0] = [worker[0] EXCEPT !.pc = "done"]]
      BY <1>6 DEF ReturnSerial
    <2>3. /\ worker' \in [DOMAIN worker -> [pc : WorkerPcs, at : 0..n, slot : Nat]]
          /\ DOMAIN worker' = DOMAIN worker
          /\ \A t \in DOMAIN worker : worker'[t].at = worker[t].at
      BY <2>1, <2>2 DEF TypeInv, WorkerPcs
    <2>4. TypeInv'
      BY <1>6, <2>1, <2>3, <1>0, <1>b DEF ReturnSerial, TypeInv, ValueOf, FrameInv
    <2>5. FrameInv'
      BY <1>6, <2>3, <1>0 DEF ReturnSerial, FrameInv
    <2>6. QED
      BY <2>4, <2>5
  <1>7. ASSUME NEW s \in Indices, Visit(s) PROVE TypeInv' /\ FrameInv'
    <2>0. /\ s \in DOMAIN worker /\ worker[s].at < FrameEnd(s)
          /\ visits' = [visits EXCEPT ![worker[s].at] = visits[worker[s].at] + 1]
          /\ UNCHANGED <<call, pc, next, idx, wg, mu, firstErr, results>>
      BY <1>7 DEF Visit, At
    <2>1. s \in 0..n-1 /\ (Serial => s = 0)
      BY <2>0 DEF TypeInv, FrameInv
    <2>2. worker' = [worker EXCEPT ![s] = [worker[s] EXCEPT !.at = worker[s].at + 1]]
      BY <1>7 DEF Visit
    <2>3. worker[s] \in [pc : WorkerPcs, at : 0..n, slot : Nat] /\ worker[s].at + 1 \in 0..n
      <3>1. worker[s] \in [pc : WorkerPcs, at : 0..n, slot : Nat]
        BY <2>0, <1>0 DEF TypeInv
      <3>2. worker[s].at \in 0..n
        BY <3>1
      <3>3. FrameEnd(s) \in 0..n
        BY <2>0, <2>1, <1>b
      <3>4. worker[s].at < FrameEnd(s) /\ n \in Int
        BY <2>0, <1>0
      <3>5. worker[s].at + 1 \in 0..n
        BY <3>2, <3>3, <3>4
      <3>6. QED
        BY <3>1, <3>5
    <2>4. /\ worker' \in [DOMAIN worker -> [pc : WorkerPcs, at : 0..n, slot : Nat]]
          /\ DOMAIN worker' = DOMAIN worker
          /\ \A t \in DOMAIN worker : worker'[t].at = IF t = s THEN worker[t].at + 1 ELSE worker[t].at
      BY <2>0, <2>2, <2>3 DEF TypeInv
    <2>5. TypeInv'
      <3>0. worker[s].at \in 0..n-1
        BY <2>3, <1>0
      <3>1. visits' \in [0..n-1 -> Nat]
        BY <2>0, <3>0 DEF TypeInv
      <3>2. QED
        BY <2>0, <2>1, <2>4, <3>1, <1>0 DEF TypeInv
    <2>6. FrameInv'
      <3>1. \A t \in DOMAIN worker : t <= worker'[t].at /\ worker'[t].at <= FrameEnd(t)
        <4> SUFFICES ASSUME NEW t \in DOMAIN worker
                     PROVE  t <= worker'[t].at /\ worker'[t].at <= FrameEnd(t)
          OBVIOUS
        <4>1. /\ t \in 0..n-1 /\ worker[t].at \in 0..n /\ FrameEnd(t) \in Nat
              /\ t <= worker[t].at /\ worker[t].at <= FrameEnd(t)
          BY <1>b DEF FrameInv, TypeInv
        <4>2. QED
          BY <4>1, <2>0, <2>4, <1>0
      <3>2. QED
        BY <2>0, <2>4, <3>1, <1>0 DEF FrameInv
    <2>7. QED
      BY <2>5, <2>6
  <1>8. ASSUME NEW s \in Indices, NEW where \in WorkerPcs, s \in DOMAIN worker,
               Goto(s, where), UNCHANGED <<call, pc, next, idx, visits>>
        PROVE  FrameInv' /\ DOMAIN worker' = DOMAIN worker
               /\ worker' \in [DOMAIN worker -> [pc : WorkerPcs, at : 0..n, slot : Nat]]
    <2>1. worker' = [worker EXCEPT ![s] = [worker[s] EXCEPT !.pc = where]]
      BY <1>8 DEF Goto
    <2>2. /\ worker' \in [DOMAIN worker -> [pc : WorkerPcs, at : 0..n, slot : Nat]]
          /\ DOMAIN worker' = DOMAIN worker
          /\ \A t \in DOMAIN worker : worker'[t].at = worker[t].at
      BY <1>8, <2>1 DEF TypeInv
    <2>3. QED
      BY <1>8, <2>2, <1>0 DEF FrameInv
  <1>9. ASSUME NEW s \in Indices,
               FnReturn(s) \/ FnFail(s) \/ LockErr(s) \/ CheckErr(s) \/ WriteErr(s) \/ Done(s)
        PROVE  TypeInv' /\ FrameInv'
    <2>1. /\ s \in DOMAIN worker
          /\ \E where \in WorkerPcs : Goto(s, where)
          /\ UNCHANGED <<call, pc, next, idx, results, visits>>
      BY <1>9 DEF FnReturn, FnFail, LockErr, CheckErr, WriteErr, Done, At, WorkerPcs
    <2>2. FrameInv' /\ DOMAIN worker' = DOMAIN worker
          /\ worker' \in [DOMAIN worker -> [pc : WorkerPcs, at : 0..n, slot : Nat]]
      BY <2>1, <1>8
    <2>3. TypeInv'
      <3>1. mu' \in {mu, s, Free} /\ firstErr' \in {firstErr, s} /\ wg' \in {wg, wg - 1}
        BY <1>9 DEF FnReturn, FnFail, LockErr, CheckErr, WriteErr, Done
      <3>2. /\ mu' \in DOMAIN worker' \cup {Free} /\ firstErr' \in DOMAIN worker' \cup {NoErr}
            /\ wg' \in Int
        BY <2>1, <2>2, <3>1 DEF TypeInv
      <3>3. QED
        BY <1>0, <2>1, <2>2, <3>2 DEF TypeInv
    <2>4. QED
      BY <2>2, <2>3
  <1>9a. ASSUME NEW s \in Indices, Store(s) PROVE TypeInv' /\ FrameInv'
    <2>1. s \in DOMAIN worker /\ s \in 0..n-1 /\ (Serial => s = 0) /\ Goto(s, "exit")
          /\ UNCHANGED <<call, pc, next, idx, visits>>
      BY <1>9a DEF Store, At, TypeInv, FrameInv
    <2>2. FrameInv' /\ DOMAIN worker' = DOMAIN worker
          /\ worker' \in [DOMAIN worker -> [pc : WorkerPcs, at : 0..n, slot : Nat]]
      BY <2>1, <1>8 DEF WorkerPcs
    <2>3. ValueOf(s) \in (0..n) \X (0..n)
      BY <2>1, <1>0, <1>b DEF ValueOf
    <2>4. DOMAIN results' = DOMAIN results /\ results' \in [DOMAIN results -> (0..n) \X (0..n)]
      BY <1>9a, <2>3 DEF Store, TypeInv
    <2>5. TypeInv'
      BY <1>9a, <2>1, <2>2, <2>4, <1>0 DEF Store, TypeInv
    <2>6. QED
      BY <2>2, <2>5
  <1>10. CASE UNCHANGED vars
    BY <1>10, <1>0 DEF vars, TypeInv, FrameInv
  <1>11. QED
    BY <1>1, <1>2, <1>3, <1>4, <1>5, <1>6, <1>7, <1>9, <1>9a, <1>10
    DEF Next, Caller, Worker, Finished

THEOREM TypeAndFrames == Spec => [](TypeInv /\ FrameInv)
  BY FrameInit, FrameStep, PTL DEF Spec

-----------------------------------------------------------------------------
(* The wait group counts the goroutines that are not done, so a call that  *)
(* has returned has none left.                                             *)
WaitInv ==
  /\ Serial => wg = 0
  /\ pc = "serial" => \A s \in DOMAIN worker : worker[s].pc \in {"run", "ok", "err"}
  /\ ~Serial => IsFiniteSet(Live) /\ wg = Cardinality(Live)
  /\ pc = "returned" => Live = {}

LEMMA WaitInit == Init => WaitInv
  <1> SUFFICES ASSUME Init PROVE WaitInv
    OBVIOUS
  <1>1. Live = {}
    BY DEF Init, Live
  <1>2. QED
    BY <1>1, FS_EmptySet DEF Init, WaitInv

LEMMA WaitStep ==
  TypeInv /\ FrameInv /\ WaitInv /\ [Next]_vars => WaitInv'
  <1> SUFFICES ASSUME TypeInv, FrameInv, WaitInv, [Next]_vars
               PROVE  WaitInv'
    OBVIOUS
  <1>0. Serial' = Serial /\ Serial \in BOOLEAN /\ wg \in Int /\ chunk \in Nat \ {0}
    BY CallFixed, CallTypes DEF TypeInv
  <1>1. CASE CallEmpty
    <2>1. Live = {} /\ Live' = Live /\ ~Serial
      BY <1>1, CallTypes DEF CallEmpty, Live, FrameInv, Serial
    <2>2. QED
      BY <1>1, <2>1, <1>0 DEF CallEmpty, WaitInv
  <1>2. CASE CallSerial
    BY <1>2, <1>0 DEF CallSerial, WaitInv, Frame
  <1>3. CASE CallParallel
    <2>1. Live' = Live
      BY <1>3 DEF CallParallel, Live
    <2>2. QED
      BY <1>3, <2>1, <1>0 DEF CallParallel, WaitInv
  <1>4. CASE Spawn
    <2>1. ~Serial /\ next \notin DOMAIN worker /\ wg' = wg + 1 /\ pc' = pc /\ pc = "spawn"
      BY <1>4, <1>0 DEF Spawn, TypeInv, FrameInv
    <2>2. Live' = Live \cup {next} /\ next \notin Live
      BY <1>4, <2>1 DEF Spawn, Live, Frame
    <2>3. IsFiniteSet(Live') /\ Cardinality(Live') = Cardinality(Live) + 1
      BY <2>1, <2>2, FS_AddElement DEF WaitInv
    <2>4. QED
      BY <2>1, <2>3, <1>0 DEF WaitInv
  <1>5. CASE Return
    <2>1. Live' = Live /\ ~Serial /\ Serial' = Serial /\ wg' = wg /\ wg = 0 /\ pc' = "returned"
      BY <1>5, <1>0 DEF Return, Live, FrameInv
    <2>2. Live = {}
      BY <2>1, FS_EmptySet DEF WaitInv
    <2>3. QED
      BY <2>1, <2>2, <1>0 DEF WaitInv
  <1>6. CASE ReturnSerial
    <2>1. DOMAIN worker = {0} /\ Serial /\ wg' = wg /\ pc' = "returned"
          /\ worker' = [worker EXCEPT ![0] = [worker[0] EXCEPT !.pc = "done"]]
      BY <1>6 DEF ReturnSerial, FrameInv
    <2>2. DOMAIN worker' = {0} /\ worker'[0].pc = "done"
      BY <2>1 DEF TypeInv
    <2>3. QED
      BY <2>1, <2>2, <1>0 DEF WaitInv, Live
  <1>7. ASSUME NEW s \in Indices, Visit(s) PROVE WaitInv'
    <2>1. s \in DOMAIN worker /\ UNCHANGED <<wg, pc>>
          /\ worker' = [worker EXCEPT ![s] = [worker[s] EXCEPT !.at = worker[s].at + 1]]
      BY <1>7 DEF Visit, At
    <2>2. /\ DOMAIN worker' = DOMAIN worker
          /\ \A t \in DOMAIN worker : worker'[t].pc = worker[t].pc
      BY <2>1 DEF TypeInv
    <2>3. Live' = Live
      BY <2>2 DEF Live
    <2>4. QED
      BY <2>1, <2>2, <2>3, <1>0 DEF WaitInv
  <1>8. ASSUME NEW s \in DOMAIN worker, NEW where \in WorkerPcs, Goto(s, where)
        PROVE  /\ DOMAIN worker' = DOMAIN worker
               /\ \A t \in DOMAIN worker : worker'[t].pc = IF t = s THEN where ELSE worker[t].pc
    <2>1. worker' = [worker EXCEPT ![s] = [worker[s] EXCEPT !.pc = where]]
      BY <1>8 DEF Goto
    <2>2. QED
      BY <2>1 DEF TypeInv
  <1>9. ASSUME NEW s \in Indices,
               FnReturn(s) \/ FnFail(s) \/ LockErr(s) \/ CheckErr(s) \/ WriteErr(s) \/ Store(s)
        PROVE  WaitInv'
    <2>1. /\ s \in DOMAIN worker /\ worker[s].pc # "done"
          /\ \E where \in WorkerPcs \ {"done"} :
               Goto(s, where) /\ (pc = "serial" => where \in {"run", "ok", "err"})
          /\ UNCHANGED <<pc, wg>>
      BY <1>9 DEF FnReturn, FnFail, LockErr, CheckErr, WriteErr, Store, At, WorkerPcs, WaitInv
    <2>2. PICK where \in WorkerPcs \ {"done"} :
            Goto(s, where) /\ (pc = "serial" => where \in {"run", "ok", "err"})
      BY <2>1
    <2>3. /\ DOMAIN worker' = DOMAIN worker
          /\ \A t \in DOMAIN worker : worker'[t].pc = IF t = s THEN where ELSE worker[t].pc
      BY <2>1, <2>2, <1>8
    <2>4. Live' = Live
      BY <2>1, <2>3 DEF Live
    <2>5. QED
      BY <2>1, <2>2, <2>3, <2>4, <1>0 DEF WaitInv
  <1>10. ASSUME NEW s \in Indices, Done(s) PROVE WaitInv'
    <2>1. s \in DOMAIN worker /\ worker[s].pc = "exit" /\ Goto(s, "done")
          /\ wg' = wg - 1 /\ pc' = pc
      BY <1>10 DEF Done, At
    <2>2. /\ DOMAIN worker' = DOMAIN worker
          /\ \A t \in DOMAIN worker : worker'[t].pc = IF t = s THEN "done" ELSE worker[t].pc
      BY <2>1, <1>8 DEF WorkerPcs
    <2>3. Live' = Live \ {s} /\ s \in Live
      BY <2>1, <2>2 DEF Live
    <2>4. pc # "serial" /\ pc # "returned"
      BY <2>1, <2>3 DEF WaitInv
    <2>5. ~Serial
      BY <2>1, <2>4 DEF FrameInv, TypeInv
    <2>6. IsFiniteSet(Live') /\ Cardinality(Live') = Cardinality(Live) - 1
      BY <2>3, <2>5, FS_RemoveElement DEF WaitInv
    <2>7. QED
      BY <2>1, <2>4, <2>5, <2>6, <1>0 DEF WaitInv
  <1>11. CASE UNCHANGED vars
    <2>1. Live' = Live
      BY <1>11 DEF vars, Live
    <2>2. QED
      BY <1>11, <2>1, <1>0 DEF vars, WaitInv
  <1>12. QED
    BY <1>1, <1>2, <1>3, <1>4, <1>5, <1>6, <1>7, <1>9, <1>10, <1>11
    DEF Next, Caller, Worker, Finished

THEOREM WaitGroup == Spec => []WaitInv
  BY TypeAndFrames, WaitInit, WaitStep, PTL DEF Spec

(* Every variable keeps its type; the wait group never goes negative.      *)
THEOREM TypeCorrect == Spec => []TypeOK
  <1>1. TypeInv /\ FrameInv /\ WaitInv => TypeOK
    <2> SUFFICES ASSUME TypeInv, FrameInv, WaitInv PROVE TypeOK
      OBVIOUS
    <2>1. wg \in Nat
      BY FS_CardinalityType, CallTypes DEF WaitInv
    <2>2. QED
      BY <2>1 DEF TypeInv, TypeOK
  <1>2. QED
    BY <1>1, TypeAndFrames, WaitGroup, PTL

(* Nothing is written once the call has returned.                          *)
THEOREM QuietAfterReturn == Spec => NothingAfterReturn
  <1>1. TypeInv /\ WaitInv /\ [Next]_vars
          => [pc = "returned" => UNCHANGED <<visits, results, firstErr>>]_vars
    <2> SUFFICES ASSUME TypeInv, WaitInv, Next, pc = "returned"
                 PROVE  UNCHANGED <<visits, results, firstErr>>
      BY DEF vars
    <2>1. \A s \in DOMAIN worker : worker[s].pc = "done"
      BY DEF WaitInv, Live
    <2>2. ASSUME NEW s \in Indices, Worker(s) PROVE FALSE
      BY <2>1, <2>2 DEF Worker, Visit, FnReturn, FnFail, Store, LockErr, CheckErr, WriteErr, Done, At
    <2>3. QED
      BY <2>2 DEF Next, Caller, Finished, vars, CallEmpty, CallSerial, CallParallel, Spawn,
                  Return, ReturnSerial
  <1>2. QED
    BY <1>1, TypeAndFrames, WaitGroup, PTL DEF Spec, NothingAfterReturn

-----------------------------------------------------------------------------
(* What the frames have done: an index counts as handled exactly when the  *)
(* frame it belongs to has passed it.                                      *)
Passed(i) == \E s \in DOMAIN worker : s <= i /\ i < worker[s].at

VisitInv == \A i \in 0..n-1 : visits[i] = IF Passed(i) THEN 1 ELSE 0

(* How the frames end: only a frame that failed stops short of its end,    *)
(* and the mutex protects the first error from the check to the write.     *)
OutcomeInv ==
  /\ \A s \in DOMAIN worker :
       /\ worker[s].pc = "ok" => worker[s].at = FrameEnd(s)
       /\ worker[s].pc \in {"err", "held", "write"} =>
            worker[s].at < FrameEnd(s) /\ call.op = "doErr"
       /\ worker[s].pc \in {"exit", "done"} =>
            worker[s].at = FrameEnd(s) \/ firstErr # NoErr
       /\ worker[s].pc \in {"held", "write"} => mu = s
       /\ worker[s].pc = "write" => firstErr = NoErr
  /\ firstErr # NoErr =>
       /\ call.op = "doErr"
       /\ worker[firstErr].pc \in {"exit", "done"}
       /\ worker[firstErr].at < FrameEnd(firstErr)
  /\ pc = "returned" => n <= 0 \/ Serial \/ next >= n

(* What a step that moves one frame changes.                               *)
LEMMA GotoEffect ==
  ASSUME TypeInv, NEW s \in DOMAIN worker, NEW where, Goto(s, where)
  PROVE  /\ DOMAIN worker' = DOMAIN worker
         /\ \A t \in DOMAIN worker : worker'[t].pc = IF t = s THEN where ELSE worker[t].pc
         /\ \A t \in DOMAIN worker : worker'[t].at = worker[t].at
  <1>1. worker' = [worker EXCEPT ![s] = [worker[s] EXCEPT !.pc = where]]
    BY DEF Goto
  <1>2. QED
    BY <1>1 DEF TypeInv

LEMMA VisitEffect ==
  ASSUME TypeInv, NEW s, Visit(s)
  PROVE  /\ s \in DOMAIN worker /\ worker[s].pc = "run" /\ worker[s].at < FrameEnd(s)
         /\ DOMAIN worker' = DOMAIN worker
         /\ visits' = [visits EXCEPT ![worker[s].at] = visits[worker[s].at] + 1]
         /\ \A t \in DOMAIN worker : worker'[t].pc = worker[t].pc
         /\ \A t \in DOMAIN worker :
              worker'[t].at = IF t = s THEN worker[t].at + 1 ELSE worker[t].at
         /\ UNCHANGED <<call, pc, next, idx, wg, mu, firstErr, results>>
  <1>1. /\ s \in DOMAIN worker /\ worker[s].pc = "run" /\ worker[s].at < FrameEnd(s)
        /\ visits' = [visits EXCEPT ![worker[s].at] = visits[worker[s].at] + 1]
        /\ UNCHANGED <<call, pc, next, idx, wg, mu, firstErr, results>>
        /\ worker' = [worker EXCEPT ![s] = [worker[s] EXCEPT !.at = worker[s].at + 1]]
    BY DEF Visit, At
  <1>2. QED
    BY <1>1 DEF TypeInv

(* The index a frame has stopped at belongs to no other frame and has not  *)
(* been handled.                                                           *)
LEMMA Unhandled ==
  ASSUME TypeInv, FrameInv, VisitInv, NEW s \in DOMAIN worker, worker[s].at < FrameEnd(s)
  PROVE  worker[s].at \in 0..n-1 /\ visits[worker[s].at] = 0
  <1>1. s \in DOMAIN worker /\ worker[s].at < FrameEnd(s)
    OBVIOUS
  <1>2. /\ n \in Int /\ s \in 0..n-1 /\ worker[s].at \in 0..n /\ FrameEnd(s) <= n /\ FrameEnd(s) \in Nat
        /\ s <= worker[s].at
    BY <1>1, CallTypes, FrameBounds DEF TypeInv, FrameInv
  <1>3. ~Passed(worker[s].at)
    <2> SUFFICES ASSUME NEW t \in DOMAIN worker, t <= worker[s].at, worker[s].at < worker[t].at
                 PROVE  FALSE
      BY DEF Passed
    <2>1. t \in 0..n-1 /\ worker[t].at \in 0..n /\ worker[t].at <= FrameEnd(t) /\ FrameEnd(t) \in Nat
      BY FrameBounds DEF TypeInv, FrameInv
    <2>2. CASE t = s
      BY <2>2, <2>1
    <2>3. CASE t < s
      BY <2>3, <2>1, <1>1, <1>2 DEF FrameInv
    <2>4. CASE s < t
      BY <2>4, <2>1, <1>1, <1>2 DEF FrameInv
    <2>5. QED
      BY <2>1, <2>2, <2>3, <2>4, <1>2
  <1>4. QED
    BY <1>1, <1>2, <1>3 DEF VisitInv

LEMMA VisitStep == TypeInv /\ FrameInv /\ VisitInv /\ [Next]_vars => VisitInv'
  <1> SUFFICES ASSUME TypeInv, FrameInv, VisitInv, [Next]_vars PROVE VisitInv'
    OBVIOUS
  <1>0. n \in Int /\ n' = n /\ chunk \in Nat \ {0}
    BY CallTypes, CallFixed
  <1>1. CASE visits' = visits /\ DOMAIN worker' = DOMAIN worker
             /\ \A t \in DOMAIN worker : worker'[t].at = worker[t].at
    BY <1>1, <1>0 DEF VisitInv, Passed
  <1>2. CASE CallEmpty \/ CallParallel \/ Return \/ UNCHANGED vars
    BY <1>2, <1>1 DEF CallEmpty, CallParallel, Return, vars
  <1>3. CASE CallSerial
    <2>1. DOMAIN worker = {} /\ DOMAIN worker' = {0} /\ worker'[0].at = 0 /\ visits' = visits
      BY <1>3 DEF CallSerial, FrameInv, Frame
    <2>2. \A i \in 0..n-1 : Passed(i)' <=> Passed(i)
      BY <2>1, <1>0 DEF Passed
    <2>3. QED
      BY <2>1, <2>2, <1>0 DEF VisitInv
  <1>4. CASE Spawn
    <2>1. DOMAIN worker' = DOMAIN worker \cup {next} /\ worker'[next].at = next /\ visits' = visits
          /\ next \in Int /\ next \notin DOMAIN worker
          /\ \A t \in DOMAIN worker : worker'[t] = worker[t]
      BY <1>4, <1>0 DEF Spawn, Frame, TypeInv, FrameInv
    <2>2. \A i \in 0..n-1 : Passed(i)' <=> Passed(i)
      BY <2>1, <1>0 DEF Passed
    <2>3. QED
      BY <2>1, <2>2, <1>0 DEF VisitInv
  <1>5. CASE ReturnSerial
    <2>1. 0 \in DOMAIN worker /\ Goto(0, "done") /\ visits' = visits
      BY <1>5 DEF ReturnSerial, FrameInv, Goto
    <2>2. QED
      BY <2>1, GotoEffect, <1>1
  <1>6. ASSUME NEW s \in Indices, Visit(s) PROVE VisitInv'
    <2>1. worker[s].at \in 0..n-1 /\ visits[worker[s].at] = 0
      BY <1>6, VisitEffect, Unhandled
    <2>a. /\ s \in DOMAIN worker
          /\ DOMAIN worker' = DOMAIN worker
          /\ visits' = [visits EXCEPT ![worker[s].at] = visits[worker[s].at] + 1]
          /\ \A t \in DOMAIN worker :
               worker'[t].at = IF t = s THEN worker[t].at + 1 ELSE worker[t].at
      BY <1>6, VisitEffect
    <2>2. s <= worker[s].at /\ s \in Int
      BY <2>a, <1>0 DEF FrameInv, TypeInv
    <2>3. ASSUME NEW i \in 0..n-1 PROVE visits'[i] = IF Passed(i)' THEN 1 ELSE 0
      <3>1. CASE i = worker[s].at
        BY <3>1, <2>1, <2>2, <2>a, <1>0 DEF Passed, TypeInv
      <3>2. CASE i # worker[s].at
        <4>1. Passed(i)' <=> Passed(i)
          BY <3>2, <2>1, <2>2, <2>a, <1>0 DEF Passed
        <4>2. QED
          BY <4>1, <3>2, <2>a DEF VisitInv, TypeInv
      <3>3. QED
        BY <3>1, <3>2
    <2>4. QED
      BY <2>3, <1>0 DEF VisitInv
  <1>7. ASSUME NEW s \in Indices,
               FnReturn(s) \/ FnFail(s) \/ LockErr(s) \/ CheckErr(s) \/ WriteErr(s) \/ Store(s) \/ Done(s)
        PROVE  VisitInv'
    <2>1. s \in DOMAIN worker /\ (\E where \in WorkerPcs : Goto(s, where)) /\ visits' = visits
      BY <1>7 DEF FnReturn, FnFail, LockErr, CheckErr, WriteErr, Store, Done, At, WorkerPcs
    <2>2. QED
      BY <2>1, GotoEffect, <1>1
  <1>8. QED
    BY <1>2, <1>3, <1>4, <1>5, <1>6, <1>7 DEF Next, Caller, Worker, Finished

LEMMA OutcomeStep ==
  TypeInv /\ FrameInv /\ WaitInv /\ OutcomeInv /\ [Next]_vars => OutcomeInv'
  <1> SUFFICES ASSUME TypeInv, FrameInv, WaitInv, OutcomeInv, [Next]_vars PROVE OutcomeInv'
    OBVIOUS
  <1>0. /\ n \in Int /\ n' = n /\ call' = call /\ Serial' = Serial
        /\ \A s : FrameEnd(s)' = FrameEnd(s)
    BY CallTypes, CallFixed
  <1>b. \A s \in DOMAIN worker :
          s \in 0..n-1 /\ worker[s].at \in 0..n /\ FrameEnd(s) \in Nat /\ s < FrameEnd(s)
    BY FrameBounds DEF TypeInv, FrameInv
  <1>1. CASE CallEmpty \/ CallParallel \/ Return \/ UNCHANGED vars
    <2>1. UNCHANGED <<call, worker, mu, firstErr, next>>
          /\ (pc' = "returned" => pc = "returned" \/ n <= 0 \/ next >= n)
      BY <1>1 DEF CallEmpty, CallParallel, Return, vars
    <2>2. QED
      BY <2>1, <1>0 DEF OutcomeInv
  <1>2. CASE CallSerial
    BY <1>2, <1>0 DEF CallSerial, FrameInv, TypeInv, OutcomeInv, Frame, NoErr
  <1>3. CASE Spawn
    <2>1. /\ DOMAIN worker' = DOMAIN worker \cup {next} /\ worker'[next].pc = "run"
          /\ next \notin DOMAIN worker
          /\ \A t \in DOMAIN worker : worker'[t] = worker[t]
          /\ UNCHANGED <<call, mu, firstErr, pc>> /\ pc = "spawn"
      BY <1>3, <1>0, CallTypes DEF Spawn, Frame, TypeInv, FrameInv
    <2>2. QED
      BY <2>1, <1>0 DEF OutcomeInv, TypeInv
  <1>4. CASE ReturnSerial
    <2>1. /\ DOMAIN worker = {0} /\ Goto(0, "done") /\ Serial /\ worker[0].pc \in {"ok", "err"}
          /\ mu' = mu /\ firstErr' = IF worker[0].pc = "err" THEN 0 ELSE firstErr
      BY <1>4 DEF ReturnSerial, FrameInv, Goto
    <2>2. /\ DOMAIN worker' = DOMAIN worker /\ worker'[0].pc = "done" /\ worker'[0].at = worker[0].at
      BY <2>1, GotoEffect
    <2>3. firstErr = NoErr
      BY <2>1 DEF OutcomeInv, TypeInv
    <2>4. QED
      BY <2>1, <2>2, <2>3, <1>0 DEF OutcomeInv, NoErr
  <1>5. ASSUME NEW s \in Indices, Visit(s) PROVE OutcomeInv'
    <2>1. /\ s \in DOMAIN worker /\ worker[s].pc = "run"
          /\ DOMAIN worker' = DOMAIN worker
          /\ \A t \in DOMAIN worker : worker'[t].pc = worker[t].pc
          /\ \A t \in DOMAIN worker :
               worker'[t].at = IF t = s THEN worker[t].at + 1 ELSE worker[t].at
          /\ UNCHANGED <<call, pc, next, idx, wg, mu, firstErr, results>>
      BY <1>5, VisitEffect
    <2>2. QED
      BY <2>1, <1>0 DEF OutcomeInv, TypeInv
  <1>6. ASSUME NEW s \in DOMAIN worker, NEW where \in WorkerPcs, Goto(s, where),
               UNCHANGED <<pc, next>>, pc # "returned"
        PROVE  /\ DOMAIN worker' = DOMAIN worker
               /\ \A t \in DOMAIN worker : worker'[t].pc = IF t = s THEN where ELSE worker[t].pc
               /\ \A t \in DOMAIN worker : worker'[t].at = worker[t].at
    BY <1>6, GotoEffect
  <1>r. \A s \in DOMAIN worker : worker[s].pc # "done" => pc # "returned"
    BY DEF WaitInv, Live
  <1>7. ASSUME NEW s \in Indices, FnReturn(s) \/ FnFail(s) \/ Store(s) \/ Done(s) PROVE OutcomeInv'
    <2>1. /\ s \in DOMAIN worker /\ UNCHANGED <<call, pc, next, mu, firstErr>>
          /\ \/ /\ worker[s].pc = "run" /\ worker[s].at = FrameEnd(s) /\ Goto(s, "ok")
             \/ /\ worker[s].pc = "run" /\ worker[s].at < FrameEnd(s) /\ call.op = "doErr" /\ Goto(s, "err")
             \/ /\ worker[s].pc = "ok" /\ Goto(s, "exit")
             \/ /\ worker[s].pc = "exit" /\ Goto(s, "done")
      BY <1>7 DEF FnReturn, FnFail, Store, Done, At
    <2>2. PICK where \in {"ok", "err", "exit", "done"} : Goto(s, where)
          /\ (where = "ok" => worker[s].pc = "run" /\ worker[s].at = FrameEnd(s))
          /\ (where = "err" => worker[s].pc = "run" /\ worker[s].at < FrameEnd(s) /\ call.op = "doErr")
          /\ (where = "exit" => worker[s].pc = "ok")
          /\ (where = "done" => worker[s].pc = "exit")
      BY <2>1
    <2>3. /\ DOMAIN worker' = DOMAIN worker
          /\ \A t \in DOMAIN worker : worker'[t].pc = IF t = s THEN where ELSE worker[t].pc
          /\ \A t \in DOMAIN worker : worker'[t].at = worker[t].at
      BY <2>1, <2>2, GotoEffect
    <2>4. \A t \in DOMAIN worker :
            /\ worker'[t].pc = "ok" => worker'[t].at = FrameEnd(t)
            /\ worker'[t].pc \in {"err", "held", "write"} =>
                 worker'[t].at < FrameEnd(t) /\ call.op = "doErr"
            /\ worker'[t].pc \in {"exit", "done"} =>
                 worker'[t].at = FrameEnd(t) \/ firstErr # NoErr
            /\ worker'[t].pc \in {"held", "write"} => mu = t
            /\ worker'[t].pc = "write" => firstErr = NoErr
      BY <2>2, <2>3 DEF OutcomeInv
    <2>5. QED
      BY <2>1, <2>2, <2>3, <2>4, <1>0 DEF OutcomeInv, TypeInv
  <1>8. ASSUME NEW s \in Indices, LockErr(s) PROVE OutcomeInv'
    <2>1. /\ s \in DOMAIN worker /\ worker[s].pc = "err" /\ mu = Free /\ mu' = s /\ Goto(s, "held")
          /\ UNCHANGED <<call, pc, next, firstErr>>
      BY <1>8 DEF LockErr, At
    <2>2. /\ DOMAIN worker' = DOMAIN worker
          /\ \A t \in DOMAIN worker : worker'[t].pc = IF t = s THEN "held" ELSE worker[t].pc
          /\ \A t \in DOMAIN worker : worker'[t].at = worker[t].at
      BY <2>1, GotoEffect
    <2>3. \A t \in DOMAIN worker : worker[t].pc \notin {"held", "write"}
      BY <2>1, <1>b DEF OutcomeInv, Free
    <2>4. \A t \in DOMAIN worker :
            /\ worker'[t].pc = "ok" => worker'[t].at = FrameEnd(t)
            /\ worker'[t].pc \in {"err", "held", "write"} =>
                 worker'[t].at < FrameEnd(t) /\ call.op = "doErr"
            /\ worker'[t].pc \in {"exit", "done"} =>
                 worker'[t].at = FrameEnd(t) \/ firstErr # NoErr
            /\ worker'[t].pc \in {"held", "write"} => mu' = t
            /\ worker'[t].pc = "write" => firstErr = NoErr
      BY <2>1, <2>2, <2>3 DEF OutcomeInv
    <2>5. firstErr # NoErr =>
            /\ call.op = "doErr"
            /\ worker'[firstErr].pc \in {"exit", "done"}
            /\ worker'[firstErr].at < FrameEnd(firstErr)
      BY <2>1, <2>2 DEF OutcomeInv, TypeInv
    <2>6. pc = "returned" => n <= 0 \/ Serial \/ next >= n
      BY DEF OutcomeInv
    <2>7. QED
      BY <2>1, <2>2, <2>4, <2>5, <2>6, <1>0 DEF OutcomeInv
  <1>9. ASSUME NEW s \in Indices, CheckErr(s) \/ WriteErr(s) PROVE OutcomeInv'
    <2>1. /\ s \in DOMAIN worker /\ UNCHANGED <<call, pc, next>> /\ mu = s
          /\ worker[s].at < FrameEnd(s) /\ call.op = "doErr"
          /\ \/ /\ worker[s].pc = "held" /\ firstErr = NoErr /\ Goto(s, "write")
                /\ mu' = s /\ firstErr' = NoErr
             \/ /\ worker[s].pc = "held" /\ firstErr # NoErr /\ Goto(s, "exit")
                /\ firstErr' = firstErr
             \/ /\ worker[s].pc = "write" /\ firstErr = NoErr /\ Goto(s, "exit")
                /\ firstErr' = s
      BY <1>9 DEF CheckErr, WriteErr, At, OutcomeInv
    <2>2. \A t \in DOMAIN worker : t # s => worker[t].pc \notin {"held", "write"}
      BY <2>1 DEF OutcomeInv
    <2>3. PICK where \in {"write", "exit"} : Goto(s, where)
            /\ (where = "write" => firstErr = NoErr /\ firstErr' = NoErr /\ mu' = s)
            /\ (where = "exit" => firstErr' # NoErr /\ firstErr' = IF firstErr = NoErr THEN s ELSE firstErr)
      BY <2>1, <1>b DEF NoErr
    <2>4. /\ DOMAIN worker' = DOMAIN worker
          /\ \A t \in DOMAIN worker : worker'[t].pc = IF t = s THEN where ELSE worker[t].pc
          /\ \A t \in DOMAIN worker : worker'[t].at = worker[t].at
      BY <2>1, <2>3, GotoEffect
    <2>5. \A t \in DOMAIN worker :
            /\ worker'[t].pc = "ok" => worker'[t].at = FrameEnd(t)
            /\ worker'[t].pc \in {"err", "held", "write"} =>
                 worker'[t].at < FrameEnd(t) /\ call.op = "doErr"
            /\ worker'[t].pc \in {"exit", "done"} =>
                 worker'[t].at = FrameEnd(t) \/ firstErr' # NoErr
            /\ worker'[t].pc \in {"held", "write"} => mu' = t
            /\ worker'[t].pc = "write" => firstErr' = NoErr
      BY <2>1, <2>2, <2>3, <2>4 DEF OutcomeInv
    <2>6. firstErr' # NoErr =>
            worker'[firstErr'].pc \in {"exit", "done"} /\ worker'[firstErr'].at < FrameEnd(firstErr')
      BY <2>1, <2>3, <2>4 DEF OutcomeInv, TypeInv
    <2>7. QED
      BY <2>1, <2>4, <2>5, <2>6, <1>0 DEF OutcomeInv
  <1>10. QED
    BY <1>1, <1>2, <1>3, <1>4, <1>5, <1>7, <1>8, <1>9 DEF Next, Caller, Worker, Finished

THEOREM VisitsAndOutcomes == Spec => [](VisitInv /\ OutcomeInv)
  <1>1. Init => VisitInv /\ OutcomeInv
    BY DEF Init, VisitInv, OutcomeInv, Passed, n, NoErr
  <1>2. QED
    BY <1>1, TypeAndFrames, WaitGroup, VisitStep, OutcomeStep, PTL DEF Spec

-----------------------------------------------------------------------------
(* Once every chunk is spawned and every frame is at its end, no index is   *)
(* left out.                                                               *)
LEMMA AllPassed ==
  ASSUME TypeInv, FrameInv, pc # "called",
         n <= 0 \/ Serial \/ next >= n,
         \A s \in DOMAIN worker : worker[s].at = FrameEnd(s),
         NEW i \in 0..n-1
  PROVE  Passed(i)
  <1>1. n \in Int /\ i < n /\ n > 0
    BY CallTypes
  <1>3. CASE Serial
    <2>1. 0 \in DOMAIN worker /\ worker[0].at = n
      BY <1>3 DEF FrameInv, FrameEnd
    <2>2. QED
      BY <2>1, <1>1 DEF Passed
  <1>4. CASE ~Serial
    <2>1. next >= n /\ next \in Nat
      BY <1>1, <1>4 DEF TypeInv
    <2>2. PICK s \in DOMAIN worker : s <= i /\ i < FrameEnd(s)
      BY <1>1, <2>1 DEF FrameInv
    <2>3. QED
      BY <2>2 DEF Passed
  <1>5. QED
    BY <1>3, <1>4

(* No index is handled twice, and a call without an error handles all.     *)
THEOREM HandlesEachIndexOnce == Spec => []EachIndexOnce
  <1>1. TypeInv /\ FrameInv /\ WaitInv /\ VisitInv /\ OutcomeInv => EachIndexOnce
    <2> SUFFICES ASSUME TypeInv, FrameInv, WaitInv, VisitInv, OutcomeInv PROVE EachIndexOnce
      OBVIOUS
    <2>1. pc = "returned" /\ firstErr = NoErr =>
            /\ n <= 0 \/ Serial \/ next >= n
            /\ \A s \in DOMAIN worker : worker[s].at = FrameEnd(s)
      BY DEF WaitInv, Live, OutcomeInv
    <2>2. QED
      BY <2>1, AllPassed DEF EachIndexOnce, VisitInv
  <1>2. QED
    BY <1>1, TypeAndFrames, WaitGroup, VisitsAndOutcomes, PTL

(* ParallelDoWithError returns nil only if no chunk failed, and otherwise  *)
(* the error of a chunk that did.                                          *)
THEOREM ReportsAnError == Spec => []ErrorReported
  <1>1. TypeInv /\ FrameInv /\ WaitInv /\ OutcomeInv => ErrorReported
    <2> SUFFICES ASSUME TypeInv, FrameInv, WaitInv, OutcomeInv, pc = "returned"
                 PROVE  /\ (firstErr = NoErr) <=> (\A s \in DOMAIN worker : ~Failed(s))
                        /\ firstErr # NoErr => Failed(firstErr)
      BY DEF ErrorReported
    <2>1. \A s \in DOMAIN worker : worker[s].pc = "done" /\ worker[s].at \in 0..n
      BY DEF WaitInv, Live, TypeInv
    <2>2. firstErr # NoErr => firstErr \in DOMAIN worker /\ Failed(firstErr)
      BY <2>1 DEF OutcomeInv, TypeInv, Failed
    <2>3. firstErr = NoErr => \A s \in DOMAIN worker : ~Failed(s)
      BY <2>1, CallTypes DEF OutcomeInv, Failed
    <2>4. QED
      BY <2>2, <2>3
  <1>2. QED
    BY <1>1, TypeAndFrames, WaitGroup, VisitsAndOutcomes, PTL

(* The first error recorded is never replaced.                             *)
THEOREM KeepsFirstError == Spec => FirstErrorKept
  <1>1. TypeInv /\ FrameInv /\ WaitInv /\ OutcomeInv /\ [Next]_vars
          => [firstErr # NoErr => firstErr' = firstErr]_vars
    <2> SUFFICES ASSUME TypeInv, FrameInv, WaitInv, OutcomeInv, Next, firstErr # NoErr
                 PROVE  firstErr' = firstErr
      BY DEF vars
    <2>1. CASE ReturnSerial
      <3>1. DOMAIN worker = {0} /\ worker[0].pc \in {"ok", "err"}
        BY <2>1 DEF ReturnSerial, FrameInv
      <3>2. QED
        BY <3>1 DEF OutcomeInv, TypeInv
    <2>2. ASSUME NEW s \in Indices, WriteErr(s) PROVE firstErr' = firstErr
      BY <2>2 DEF WriteErr, At, OutcomeInv
    <2>3. QED
      BY <2>1, <2>2 DEF Next, Caller, Worker, Finished, vars, CallEmpty, CallSerial, CallParallel,
         Spawn, Return, Visit, FnReturn, FnFail, Store, LockErr, CheckErr, Done
  <1>2. QED
    BY <1>1, TypeAndFrames, WaitGroup, VisitsAndOutcomes, PTL DEF Spec, FirstErrorKept

-----------------------------------------------------------------------------
(* ParallelCollect: the slot of a chunk and where the chunk begins.        *)
SlotInv ==
  /\ pc = "called" => idx = 0
  /\ ~Serial =>
       /\ next = idx * chunk
       /\ \A s \in DOMAIN worker : worker[s].slot < idx /\ s = worker[s].slot * chunk
       /\ \A j \in 0..idx-1 : \E s \in DOMAIN worker : worker[s].slot = j

(* What is in the slots of the chunks that are finished.                   *)
ResultInv ==
  call.op = "collect" /\ pc # "called" /\ n > 0 =>
    /\ ~Serial => /\ DOMAIN results = 0..NumChunks-1
                  /\ \A s \in DOMAIN worker :
                       worker[s].pc \in {"exit", "done"} => results[worker[s].slot] = ValueOf(s)
    /\ Serial /\ pc = "returned" => results = [i \in {0} |-> ValueOf(0)]

(* The number of slots is that of the chunks that begin below n.           *)
LEMMA SlotsRoundUp ==
  ASSUME TypeInv, n > 0
  PROVE  /\ NumChunks \in Nat \ {0}
         /\ \A j \in Nat : j < NumChunks <=> j * chunk < n
  <1>1. PICK m, c : m = n /\ c = chunk
    OBVIOUS
  <1>2. m \in Nat \ {0} /\ c \in Nat \ {0}
    BY <1>1, CallTypes
  <1>3. PICK x : x = m + c - 1
    OBVIOUS
  <1>4. x \in Nat
    BY <1>2, <1>3
  <1>5. PICK k \in Nat, r \in 0..c-1 : x = c * k + r /\ x \div c = k
    BY <1>2, <1>4, DivMod
  <1>6. NumChunks = k
    BY <1>1, <1>3, <1>5 DEF NumChunks
  <1>7. PICK y \in Nat : y = k * c /\ m + c - 1 = y + r
    BY <1>2, <1>3, <1>5
  <1>8. ASSUME NEW j \in Nat PROVE j < k <=> j * c < m
    <2>1. j * c \in Nat /\ (j < k => j * c + c <= y) /\ (k <= j => y <= j * c)
      BY <1>2, <1>7, ProductGrows
    <2>2. QED
      BY <1>2, <1>7, <2>1
  <1>9. k # 0
    <2>1. 0 * c < m
      BY <1>2
    <2>2. QED
      BY <1>8, <2>1
  <1>10. QED
    BY <1>1, <1>6, <1>8, <1>9

LEMMA SlotStep == TypeInv /\ FrameInv /\ SlotInv /\ [Next]_vars => SlotInv'
  <1> SUFFICES ASSUME TypeInv, FrameInv, SlotInv, [Next]_vars PROVE SlotInv'
    OBVIOUS
  <1>0. /\ Serial' = Serial /\ chunk' = chunk /\ Serial \in BOOLEAN
        /\ chunk \in Nat \ {0} /\ idx \in Nat
    BY CallFixed, CallTypes DEF TypeInv
  <1>1. CASE UNCHANGED <<next, idx, worker>> /\ (pc' = "called" => pc = "called")
    BY <1>0, <1>1 DEF SlotInv
  <1>2. CASE CallSerial
    BY <1>0, <1>2 DEF CallSerial, SlotInv
  <1>3. CASE Spawn
    <2>1. /\ pc = "spawn" /\ ~Serial /\ next \notin DOMAIN worker
          /\ next' = next + chunk /\ idx' = idx + 1 /\ pc' = pc
      BY <1>0, <1>3 DEF Spawn, TypeInv, FrameInv
    <2>2. /\ DOMAIN worker' = DOMAIN worker \cup {next}
          /\ worker'[next].slot = idx
          /\ \A s \in DOMAIN worker : worker'[s] = worker[s] /\ worker[s].slot \in Nat
      BY <1>3, <2>1 DEF Spawn, Frame, TypeInv
    <2>3. next = idx * chunk /\ next' = (idx + 1) * chunk
      BY <1>0, <2>1, ProductGrows DEF SlotInv
    <2>4. \A s \in DOMAIN worker' : worker'[s].slot < idx + 1 /\ s = worker'[s].slot * chunk
      BY <1>0, <2>1, <2>2, <2>3 DEF SlotInv
    <2>5. \A j \in 0..idx : \E s \in DOMAIN worker' : worker'[s].slot = j
      <3> SUFFICES ASSUME NEW j \in 0..idx PROVE \E s \in DOMAIN worker' : worker'[s].slot = j
        OBVIOUS
      <3>1. CASE j = idx
        BY <2>2, <3>1
      <3>2. CASE j # idx
        <4>1. j \in 0..idx-1
          BY <1>0, <3>2
        <4>2. QED
          BY <2>1, <2>2, <4>1 DEF SlotInv
      <3>3. QED
        BY <3>1, <3>2
    <2>6. QED
      <3>1. PICK i : i = idx + 1
        OBVIOUS
      <3>2. 0..i-1 = 0..idx
        BY <1>0, <3>1
      <3>3. /\ next' = i * chunk
            /\ \A s \in DOMAIN worker' : worker'[s].slot < i /\ s = worker'[s].slot * chunk
            /\ \A j \in 0..i-1 : \E s \in DOMAIN worker' : worker'[s].slot = j
        BY <2>3, <2>4, <2>5, <3>1, <3>2
      <3>4. QED
        BY <1>0, <2>1, <3>1, <3>3 DEF SlotInv
  <1>4. ASSUME DOMAIN worker' = DOMAIN worker, \A s \in DOMAIN worker : worker'[s].slot = worker[s].slot,
               UNCHANGED <<next, idx>>, pc' = "called" => pc = "called"
        PROVE  SlotInv'
    BY <1>0, <1>4 DEF SlotInv
  <1>5. CASE ReturnSerial
    <2>1. Serial
      BY <1>5 DEF ReturnSerial, FrameInv
    <2>2. QED
      BY <1>0, <1>5, <2>1 DEF ReturnSerial, SlotInv
  <1>6. ASSUME NEW s \in Indices, Worker(s) PROVE SlotInv'
    <2>1. s \in DOMAIN worker /\ UNCHANGED <<next, idx, pc>>
      BY <1>6 DEF Worker, Visit, FnReturn, FnFail, Store, LockErr, CheckErr, WriteErr, Done, At
    <2>2. \/ worker' = [worker EXCEPT ![s] = [worker[s] EXCEPT !.at = worker[s].at + 1]]
          \/ \E where : worker' = [worker EXCEPT ![s] = [worker[s] EXCEPT !.pc = where]]
      BY <1>6 DEF Worker, Visit, FnReturn, FnFail, Store, LockErr, CheckErr, WriteErr, Done, Goto
    <2>3. DOMAIN worker' = DOMAIN worker /\ \A t \in DOMAIN worker : worker'[t].slot = worker[t].slot
      <3>1. CASE worker' = [worker EXCEPT ![s] = [worker[s] EXCEPT !.at = worker[s].at + 1]]
        BY <2>1, <3>1 DEF TypeInv
      <3>2. CASE \E where : worker' = [worker EXCEPT ![s] = [worker[s] EXCEPT !.pc = where]]
        <4>1. PICK where : worker' = [worker EXCEPT ![s] = [worker[s] EXCEPT !.pc = where]]
          BY <3>2
        <4>2. QED
          BY <2>1, <4>1 DEF TypeInv
      <3>3. QED
        BY <2>2, <3>1, <3>2
    <2>4. QED
      BY <1>4, <2>1, <2>3
  <1>7. QED
    BY <1>1, <1>2, <1>3, <1>5, <1>6
    DEF Next, Caller, Finished, vars, CallEmpty, CallParallel, Return

LEMMA ResultStep ==
  TypeInv /\ FrameInv /\ WaitInv /\ OutcomeInv /\ SlotInv /\ ResultInv /\ [Next]_vars => ResultInv'
  <1> SUFFICES ASSUME TypeInv, FrameInv, WaitInv, OutcomeInv, SlotInv, ResultInv, [Next]_vars,
                      call.op = "collect", n > 0
               PROVE  ResultInv'
    BY CallFixed DEF ResultInv
  <1>0. /\ call' = call /\ n' = n /\ Serial' = Serial /\ Serial \in BOOLEAN /\ NumChunks' = NumChunks
        /\ \A s : ValueOf(s)' = ValueOf(s)
    BY CallFixed, CallTypes DEF NumChunks, ValueOf
  <1>a. /\ \A s \in DOMAIN worker : worker[s].pc \notin {"err", "held", "write"}
    BY DEF OutcomeInv
  <1>1. CASE CallEmpty
    BY <1>1, CallTypes DEF CallEmpty
  <1>2. CASE CallSerial
    BY <1>0, <1>2 DEF CallSerial, ResultInv
  <1>3. CASE CallParallel
    <2>1. ~Serial /\ DOMAIN worker = {} /\ worker' = worker /\ results' = [i \in 0..NumChunks-1 |-> Unset]
      BY <1>3 DEF CallParallel, FrameInv
    <2>2. QED
      BY <1>0, <2>1 DEF ResultInv
  <1>4. CASE Spawn
    <2>1. /\ pc = "spawn" /\ ~Serial /\ next \notin DOMAIN worker /\ pc' = pc /\ results' = results
          /\ DOMAIN worker' = DOMAIN worker \cup {next}
          /\ worker'[next].pc = "run"
          /\ \A s \in DOMAIN worker : worker'[s] = worker[s]
      BY <1>4, CallTypes DEF Spawn, Frame, TypeInv, FrameInv
    <2>2. QED
      BY <1>0, <2>1 DEF ResultInv
  <1>5. CASE Return
    BY <1>0, <1>5 DEF Return, ResultInv, FrameInv
  <1>6. CASE ReturnSerial
    <2>1. Serial /\ results' = [i \in {0} |-> ValueOf(0)]
      BY <1>6 DEF ReturnSerial, FrameInv
    <2>2. QED
      BY <1>0, <2>1 DEF ResultInv
  <1>7. ASSUME NEW s \in Indices, Visit(s) PROVE ResultInv'
    <2>1. /\ s \in DOMAIN worker /\ UNCHANGED <<pc, results>>
          /\ worker' = [worker EXCEPT ![s] = [worker[s] EXCEPT !.at = worker[s].at + 1]]
      BY <1>7 DEF Visit, At
    <2>2. /\ DOMAIN worker' = DOMAIN worker
          /\ \A t \in DOMAIN worker : worker'[t].pc = worker[t].pc /\ worker'[t].slot = worker[t].slot
      BY <2>1 DEF TypeInv
    <2>3. QED
      BY <1>0, <2>1, <2>2 DEF ResultInv
  <1>8. ASSUME NEW s \in Indices, FnReturn(s) \/ FnFail(s) \/ LockErr(s) \/ CheckErr(s) \/ WriteErr(s) \/ Done(s)
        PROVE  ResultInv'
    <2>1. /\ s \in DOMAIN worker /\ UNCHANGED <<pc, results>>
          /\ \E where \in WorkerPcs :
               /\ worker' = [worker EXCEPT ![s] = [worker[s] EXCEPT !.pc = where]]
               /\ where \in {"exit", "done"} => worker[s].pc = "exit"
      BY <1>8, <1>a DEF FnReturn, FnFail, LockErr, CheckErr, WriteErr, Done, At, Goto, WorkerPcs
    <2>2. /\ DOMAIN worker' = DOMAIN worker
          /\ \A t \in DOMAIN worker :
               /\ worker'[t].slot = worker[t].slot
               /\ worker'[t].pc \in {"exit", "done"} => worker[t].pc \in {"exit", "done"}
      BY <2>1 DEF TypeInv
    <2>3. QED
      BY <1>0, <2>1, <2>2 DEF ResultInv
  <1>9. ASSUME NEW s \in Indices, Store(s) PROVE ResultInv'
    <2>1. /\ s \in DOMAIN worker /\ pc # "serial" /\ pc # "returned" /\ pc' = pc
          /\ results' = [results EXCEPT ![worker[s].slot] = ValueOf(s)]
          /\ worker' = [worker EXCEPT ![s] = [worker[s] EXCEPT !.pc = "exit"]]
      BY <1>9 DEF Store, At, Goto, WaitInv, Live
    <2>2. ~Serial
      BY <2>1 DEF FrameInv, TypeInv
    <2>3. pc # "called"
      BY <2>1 DEF FrameInv
    <2>4. /\ DOMAIN worker' = DOMAIN worker
          /\ \A t \in DOMAIN worker :
               /\ worker'[t].slot = worker[t].slot
               /\ t # s => worker'[t].pc = worker[t].pc
      BY <2>1 DEF TypeInv
    <2>5. \A t \in DOMAIN worker : t # s => worker[t].slot # worker[s].slot
      BY <2>1, <2>2 DEF SlotInv
    <2>6. worker[s].slot \in 0..NumChunks-1
      <3>1. worker[s].slot \in Nat /\ worker[s].slot * chunk < n
        BY <2>1, <2>2, CallTypes DEF SlotInv, TypeInv
      <3>2. worker[s].slot < NumChunks /\ NumChunks \in Nat
        BY <3>1, SlotsRoundUp
      <3>3. QED
        BY <3>1, <3>2
    <2>7. DOMAIN results = 0..NumChunks-1
      BY <2>2, <2>3 DEF ResultInv
    <2>8. DOMAIN results' = 0..NumChunks-1 /\ results'[worker[s].slot] = ValueOf(s)
          /\ \A t \in DOMAIN worker : t # s => results'[worker[t].slot] = results[worker[t].slot]
      BY <2>1, <2>5, <2>6, <2>7
    <2>9. QED
      BY <1>0, <2>1, <2>2, <2>3, <2>4, <2>8 DEF ResultInv
  <1>10. CASE UNCHANGED vars
    BY <1>0, <1>10 DEF vars, ResultInv
  <1>11. QED
    BY <1>1, <1>2, <1>3, <1>4, <1>5, <1>6, <1>7, <1>8, <1>9, <1>10 DEF Next, Caller, Worker, Finished

(* A collected slice holds the ranges of the chunks, one after the other   *)
(* from 0 to n, with no slot at its zero value.                            *)
THEOREM CollectsInOrder == Spec => []CollectInChunkOrder
  <1>1. Init => SlotInv /\ ResultInv
    <2> SUFFICES ASSUME Init PROVE SlotInv /\ ResultInv
      OBVIOUS
    <2>1. chunk \in Nat
      BY FrameInit, CallTypes
    <2>2. QED
      BY <2>1 DEF Init, SlotInv, ResultInv
  <1>2. TypeInv /\ FrameInv /\ WaitInv /\ OutcomeInv /\ SlotInv /\ ResultInv => CollectInChunkOrder
    <2> SUFFICES ASSUME TypeInv, FrameInv, WaitInv, OutcomeInv, SlotInv, ResultInv,
                        pc = "returned", call.op = "collect", n > 0
                 PROVE  LET last == Cardinality(DOMAIN results) - 1
                        IN  /\ DOMAIN results = 0..last
                            /\ results[0][1] = 0
                            /\ results[last][2] = n
                            /\ \A i \in 0..last-1 : results[i][2] = results[i+1][1]
                            /\ \A i \in 0..last : results[i][1] < results[i][2]
      BY DEF CollectInChunkOrder
    <2>1. CASE Serial
      <3>1. results = [i \in {0} |-> <<0, n>>] /\ n \in Int
        BY <2>1, CallTypes DEF ResultInv, ValueOf, FrameEnd
      <3>2. Cardinality(DOMAIN results) = 1
        <4>1. DOMAIN results = {0}
          BY <3>1
        <4>2. QED
          BY <4>1, FS_Singleton
      <3>3. DOMAIN results = 0..0 /\ results[0] = <<0, n>>
        BY <3>1
      <3>4. QED
        BY <3>1, <3>2, <3>3
    <2>2. CASE ~Serial
      <3>1. PICK c, k, m : c = chunk /\ k = NumChunks /\ m = n
        OBVIOUS
      <3>2. /\ c \in Nat \ {0} /\ m \in Nat \ {0} /\ k \in Nat \ {0}
            /\ \A j \in Nat : j < k <=> j * c < m
        BY <3>1, CallTypes, SlotsRoundUp
      <3>3. idx \in Nat /\ ~(idx < k)
        <4>1. idx \in Nat /\ next = idx * c /\ next \in Nat /\ next >= m
          BY <2>2, <3>1, <3>2 DEF OutcomeInv, SlotInv, TypeInv
        <4>2. ~(idx * c < m)
          BY <3>2, <4>1
        <4>3. QED
          BY <3>2, <4>1, <4>2
      <3>4. ASSUME NEW j \in 0..k-1
            PROVE  results[j] = <<j * c, IF j * c + c > m THEN m ELSE j * c + c>>
        <4>1. j \in 0..idx-1
          BY <3>2, <3>3
        <4>2. PICK s \in DOMAIN worker : worker[s].slot = j
          BY <2>2, <4>1 DEF SlotInv
        <4>3. s = j * c
          BY <2>2, <3>1, <4>2 DEF SlotInv
        <4>4. worker[s].pc = "done"
          BY <4>2 DEF WaitInv, Live
        <4>5. results[j] = ValueOf(s)
          BY <2>2, <4>2, <4>4 DEF ResultInv
        <4>6. QED
          BY <2>2, <3>1, <4>3, <4>5 DEF ValueOf, FrameEnd, ChunkEnd
      <3>5. DOMAIN results = 0..k-1 /\ Cardinality(0..k-1) = k
        <4>1. DOMAIN results = 0..k-1
          BY <2>2, <3>1 DEF ResultInv
        <4>2. \A a, b \in Int : Cardinality(a..b) = IF a > b THEN 0 ELSE b - a + 1
          BY FS_Interval
        <4>3. QED
          BY <3>2, <4>1, <4>2
      <3>6. results[0][1] = 0
        BY <3>2, <3>4
      <3>7. results[k-1][2] = m
        <4>1. PICK l \in Nat : l = k-1 /\ l \in 0..k-1 /\ l + 1 = k
          BY <3>2
        <4>2. l * c + c = k * c /\ l * c \in Nat /\ ~(k * c < m)
          BY <3>2, <4>1, ProductGrows
        <4>3. PICK x \in Nat : x = l * c
          BY <4>2
        <4>4. results[l] = <<x, IF x + c > m THEN m ELSE x + c>>
          BY <3>4, <4>1, <4>3
        <4>5. ~(x + c < m)
          BY <4>2, <4>3
        <4>6. QED
          BY <3>2, <4>1, <4>4, <4>5
      <3>8. ASSUME NEW i \in 0..k-2 PROVE results[i][2] = results[i+1][1]
        <4>1. i \in Nat /\ i \in 0..k-1 /\ i+1 \in 0..k-1
          BY <3>2
        <4>2. (i+1) * c = i * c + c /\ i * c \in Nat /\ (i+1) * c < m
          BY <3>2, <4>1, ProductGrows
        <4>3. results[i+1][1] = (i+1) * c
          BY <3>4, <4>1
        <4>4. PICK x \in Nat : x = i * c /\ x + c < m
          BY <4>2
        <4>5. results[i] = <<x, IF x + c > m THEN m ELSE x + c>>
          BY <3>4, <4>1, <4>4
        <4>6. results[i][2] = x + c
          BY <3>2, <4>4, <4>5
        <4>7. QED
          BY <4>2, <4>3, <4>4, <4>6
      <3>9. ASSUME NEW i \in 0..k-1 PROVE results[i][1] < results[i][2]
        <4>1. PICK x \in Nat : x = i * c /\ x < m
          BY <3>2, ProductGrows
        <4>2. results[i] = <<x, IF x + c > m THEN m ELSE x + c>>
          BY <3>4, <4>1
        <4>3. QED
          BY <3>2, <4>1, <4>2
      <3>10. QED
        <4>1. PICK last : last = k-1 /\ last-1 = k-2 /\ Cardinality(DOMAIN results) - 1 = last
          BY <3>2, <3>5
        <4>2. QED
          BY <3>1, <3>5, <3>6, <3>7, <3>8, <3>9, <4>1
    <2>3. QED
      BY <2>1, <2>2
  <1>3. QED
    BY <1>1, <1>2, SlotStep, ResultStep, TypeAndFrames, WaitGroup, VisitsAndOutcomes, PTL DEF Spec

-----------------------------------------------------------------------------
(* The refinement: a step of the pool is a step of the plain loop or leaves *)
(* it alone.                                                               *)
(* The pool implements the loop over [0, n) its callers rely on.           *)
THEOREM PoolImplementsLoop == Spec => ImplementsLoop
  <1>1. Init => Loop!LoopInit
    BY DEF Init, Loop!LoopInit, n
  <1>2. TypeInv /\ FrameInv /\ WaitInv /\ VisitInv /\ OutcomeInv /\ [Next]_vars
          => [Loop!LoopNext]_(Loop!loopVars)
    <2> SUFFICES ASSUME TypeInv, FrameInv, WaitInv, VisitInv, OutcomeInv, [Next]_vars
                 PROVE  [Loop!LoopNext]_(Loop!loopVars)
      OBVIOUS
    <2>0. n' = n /\ call' = call /\ n \in Int
      BY CallFixed, CallTypes
    <2>1. CASE visits' = visits /\ pc' = pc /\ (pc = "returned" => firstErr' = firstErr)
      BY <2>0, <2>1 DEF Loop!loopVars
    <2>2. ASSUME NEW s \in Indices, Visit(s) PROVE Loop!LoopNext
      <3>1. worker[s].at \in 0..n-1 /\ visits[worker[s].at] = 0
        BY <2>2, VisitEffect, Unhandled
      <3>2. /\ s \in DOMAIN worker /\ worker[s].pc = "run"
            /\ visits' = [visits EXCEPT ![worker[s].at] = 1]
            /\ UNCHANGED <<call, pc, firstErr>>
        BY <2>2, <3>1, VisitEffect
      <3>3. pc # "returned"
        BY <3>2 DEF WaitInv, Live
      <3>4. Loop!Handle(worker[s].at)
        BY <3>1, <3>2, <3>3, <2>0 DEF Loop!Handle
      <3>5. QED
        BY <3>1, <3>4 DEF Loop!LoopNext
    <2>3. ASSUME CallEmpty \/ Return \/ ReturnSerial PROVE Loop!LoopNext
      <3>1. pc # "returned" /\ pc' = "returned" /\ visits' = visits
        BY <2>3 DEF CallEmpty, Return, ReturnSerial
      <3>2. CASE CallEmpty
        BY <3>1, <3>2, <2>0 DEF CallEmpty, OutcomeInv, TypeInv, FrameInv, Loop!LoopNext, Loop!ReturnOk
      <3>3. CASE Return \/ ReturnSerial
        <4>1. /\ pc # "called" /\ (n <= 0 \/ Serial \/ next >= n)
              /\ \/ /\ firstErr' = NoErr
                    /\ \A s \in DOMAIN worker : worker[s].at = FrameEnd(s)
                 \/ /\ firstErr' # NoErr /\ firstErr' \in DOMAIN worker /\ call.op = "doErr"
                    /\ worker[firstErr'].at < FrameEnd(firstErr')
          <5>1. CASE Return
            <6>1. Live = {} /\ next >= n /\ firstErr' = firstErr /\ pc = "spawn"
              BY <5>1, FS_EmptySet DEF Return, WaitInv, FrameInv
            <6>2. QED
              BY <6>1 DEF Live, OutcomeInv, TypeInv
          <5>2. CASE ReturnSerial
            <6>1. /\ Serial /\ DOMAIN worker = {0} /\ pc = "serial" /\ firstErr = NoErr
                  /\ worker[0].pc \in {"ok", "err"}
                  /\ firstErr' = IF worker[0].pc = "err" THEN 0 ELSE firstErr
              BY <5>2 DEF ReturnSerial, FrameInv, OutcomeInv, TypeInv
            <6>2. QED
              BY <6>1 DEF OutcomeInv, NoErr
          <5>3. QED
            BY <3>3, <5>1, <5>2
        <4>2. CASE firstErr' = NoErr
          <5>1. \A i \in 0..n-1 : visits[i] = 1
            BY <4>1, <4>2, AllPassed DEF VisitInv
          <5>2. QED
            BY <5>1, <4>2, <3>1, <2>0 DEF Loop!LoopNext, Loop!ReturnOk
        <4>3. CASE firstErr' # NoErr
          <5>1. worker[firstErr'].at \in 0..n-1 /\ visits[worker[firstErr'].at] = 0
            BY <4>1, <4>3, Unhandled
          <5>2. QED
            BY <5>1, <4>1, <4>3, <3>1, <2>0 DEF Loop!LoopNext, Loop!ReturnFailed
        <4>4. QED
          BY <4>2, <4>3
      <3>4. QED
        BY <2>3, <3>2, <3>3
    <2>4. ASSUME NEW s \in Indices,
                 FnReturn(s) \/ FnFail(s) \/ LockErr(s) \/ CheckErr(s) \/ WriteErr(s) \/ Store(s) \/ Done(s)
          PROVE  visits' = visits /\ pc' = pc /\ (pc = "returned" => firstErr' = firstErr)
      BY <2>4 DEF FnReturn, FnFail, LockErr, CheckErr, WriteErr, Store, Done, At, WaitInv, Live
    <2>5. CASE CallSerial \/ CallParallel \/ Spawn \/ UNCHANGED vars
      <3>1. visits' = visits /\ firstErr' = firstErr
            /\ (pc' = "returned" <=> pc = "returned")
        BY <2>5 DEF CallSerial, CallParallel, Spawn, vars
      <3>2. QED
        BY <3>1, <2>0 DEF Loop!loopVars
    <2>6. QED
      BY <2>1, <2>2, <2>3, <2>4, <2>5 DEF Next, Caller, Worker, Finished
  <1>3. QED
    BY <1>1, <1>2, TypeAndFrames, WaitGroup, VisitsAndOutcomes, PTL DEF Spec, ImplementsLoop, Loop!LoopSpec
=============================================================================
