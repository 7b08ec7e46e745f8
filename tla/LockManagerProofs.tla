-------------------------- MODULE LockManagerProofs --------------------------
(***************************************************************************)
(* Mutual exclusion of RoleLockManager when its calls do not overlap, for  *)
(* any number of role runs and any TTL.  The run lock_race shows that the  *)
(* assumption is needed.                                                   *)
(***************************************************************************)
EXTENDS LockManager, TLAPS

(* At most one call is in progress.                                        *)
OneCall == \A r \in Runs, q \in Runs : pc[r] \in Working /\ pc[q] \in Working => r = q

(* A holder within its TTL is the owner in the file, with its own age.     *)
HolderOnFile == \A r \in Runs : Fresh(r) => lock.run = r /\ lock.age = made[r]

(* What the call in progress has read is still there, and what it decided  *)
(* still stands.                                                           *)
ReadHolds ==
  \A r \in Runs :
    /\ pc[r] \in {"decide", "compare"} => seen[r] = lock
    /\ pc[r] = "write" => lock = NoLock \/ _is_stale(lock)
    /\ pc[r] = "unlink" => lock.run = r

IInv == TypeOK /\ OneCall /\ HolderOnFile /\ ReadHolds

-------------------------------------------------------------------------------
(* No holder is within its TTL once the file is missing or stale.          *)
LEMMA FreeMeansNoneFresh ==
  ASSUME TypeOK, HolderOnFile, lock = NoLock \/ _is_stale(lock)
  PROVE  \A q \in Runs : ~Fresh(q)
<1> SUFFICES ASSUME NEW q \in Runs, Fresh(q) PROVE FALSE
  OBVIOUS
<1>1. lock.run = q /\ lock.age = made[q]
  BY DEF HolderOnFile
<1>2. lock # NoLock
  BY <1>1, LockAssumption DEF NoLock
<1>3. made[q] \in Nat
  BY LockAssumption DEF TypeOK, Ages
<1>4. QED
  BY <1>1, <1>2, <1>3, LockAssumption DEF Fresh, _is_stale

(* Ages grow together: an age that is still within the TTL was so before.  *)
LEMMA OlderAge ==
  ASSUME NEW a \in Ages
  PROVE  /\ Older(a) \in Ages
         /\ Older(a) <= TTL => a <= TTL
         /\ a > TTL => Older(a) > TTL
  BY LockAssumption DEF Older, Ages

LEMMA AgedLock ==
  ASSUME NEW l \in Locks \cup {NoLock}
  PROVE  /\ Aged(l) \in Locks \cup {NoLock}
         /\ Aged(l).run = l.run
         /\ l # NoLock => Aged(l).age = Older(l.age)
         /\ l = NoLock => Aged(l) = NoLock
         /\ _is_stale(l) => _is_stale(Aged(l))
<1>1. CASE l = NoLock
  BY <1>1, LockAssumption DEF Aged, NoLock, _is_stale
<1>2. CASE l # NoLock
  <2>1. l \in Locks /\ l.age \in Ages
    BY <1>2 DEF Locks
  <2>2. Aged(l) = [l EXCEPT !.age = Older(l.age)]
    BY <1>2 DEF Aged
  <2>3. QED
    BY <1>2, <2>1, <2>2, OlderAge DEF Locks, _is_stale
<1>3. QED
  BY <1>1, <1>2

-------------------------------------------------------------------------------
LEMMA InitIInv == Init => IInv
  BY LockAssumption
  DEF Init, IInv, TypeOK, OneCall, HolderOnFile, ReadHolds, Fresh, Working, Ages, Locks

LEMMA TickIInv == IInv /\ Tick => IInv'
<1> SUFFICES ASSUME IInv, Tick PROVE IInv'
  OBVIOUS
<1> USE DEF IInv
<1>1. TypeOK'
  BY AgedLock, OlderAge DEF TypeOK, Tick
<1>2. OneCall'
  BY DEF Tick, OneCall
<1>3. HolderOnFile'
  <2> SUFFICES ASSUME NEW r \in Runs, Fresh(r)'
               PROVE  lock'.run = r /\ lock'.age = made'[r]
    BY DEF HolderOnFile
  <2>1. made[r] \in Ages /\ made'[r] = Older(made[r])
    BY DEF TypeOK, Tick
  <2>2. Fresh(r)
    BY <2>1, OlderAge DEF Fresh, Tick
  <2>3. lock.run = r /\ lock.age = made[r] /\ lock # NoLock
    BY <2>2, LockAssumption DEF HolderOnFile, NoLock
  <2>4. QED
    BY <2>1, <2>3, AgedLock DEF TypeOK, Tick
<1>4. ReadHolds'
  BY AgedLock DEF ReadHolds, TypeOK, Tick
<1>5. QED
  BY <1>1, <1>2, <1>3, <1>4

(* One lemma per step of a run; only _write_lock and Unlink touch the file.*)
LEMMA BeginIInv ==
  ASSUME ~Concurrent, IInv, NEW r \in Runs, Acquire(r) \/ Release(r)
  PROVE  IInv'
<1> USE DEF IInv
<1>0. /\ lock' = lock /\ held' = held /\ seen' = seen
      /\ pc' = [pc EXCEPT ![r] = IF Acquire(r) THEN "get" ELSE "find"]
      /\ \A q \in Runs : pc[q] \notin Working
      /\ \A q \in Runs : q \in held => made'[q] = made[q]
  <2>1. CASE Acquire(r)
    BY <2>1 DEF Acquire, Goto, MayBegin, TypeOK
  <2>2. CASE Release(r) /\ ~Acquire(r)
    BY <2>2 DEF Release, Goto, MayBegin
  <2>3. QED
    BY <2>1, <2>2
<1>1. TypeOK'
  <2>1. made' \in [Runs -> Ages]
    BY LockAssumption DEF TypeOK, Acquire, Release, Ages
  <2>2. QED
    BY <1>0, <2>1 DEF TypeOK, Working
<1>2. OneCall'
  BY <1>0 DEF OneCall, TypeOK
<1>3. HolderOnFile'
  BY <1>0 DEF HolderOnFile, Fresh
<1>4. ReadHolds'
  <2>1. \A q \in Runs : pc'[q] \notin {"decide", "compare", "write", "unlink"}
    BY <1>0 DEF TypeOK, Working
  <2>2. QED
    BY <2>1 DEF ReadHolds
<1>5. QED
  BY <1>1, <1>2, <1>3, <1>4

(* The steps of a call that leave the file as it is.                       *)
LEMMA ReadIInv ==
  ASSUME IInv, NEW r \in Runs, Get(r) \/ Decide(r) \/ Compare(r) \/ WriteFails(r) \/ Crash(r)
  PROVE  IInv'
<1> USE DEF IInv
<1>0. /\ lock' = lock /\ made' = made
      /\ held' = held \/ held' = held \ {r}
      /\ \A q \in Runs \ {r} : pc'[q] = pc[q] /\ seen'[q] = seen[q]
      /\ pc' \in [Runs -> {"idle", "dead"} \cup Working]
      /\ seen' \in [Runs -> Locks \cup {NoLock}]
      /\ pc'[r] \in Working => pc[r] \in Working
  BY DEF Get, Decide, Compare, WriteFails, Crash, Goto, Return, TypeOK, Working, At
<1>1. TypeOK'
  BY <1>0 DEF TypeOK
<1>2. OneCall'
  BY <1>0 DEF OneCall
<1>3. HolderOnFile'
  BY <1>0 DEF HolderOnFile, Fresh
<1>4. ReadHolds'
  <2>1. /\ pc'[r] \in {"decide", "compare"} => seen'[r] = lock
        /\ pc'[r] = "write" => lock = NoLock \/ _is_stale(lock)
        /\ pc'[r] = "unlink" => lock.run = r
    <3>1. CASE Get(r)
      BY <3>1 DEF Get, TypeOK, At
    <3>2. CASE Decide(r)
      BY <3>2 DEF Decide, Goto, Return, ReadHolds, TypeOK, At
    <3>3. CASE Compare(r)
      BY <3>3 DEF Compare, Goto, Return, ReadHolds, TypeOK, At
    <3>4. CASE WriteFails(r) \/ Crash(r)
      BY <3>4 DEF WriteFails, Crash, Return, TypeOK
    <3>5. QED
      BY <3>1, <3>2, <3>3, <3>4
  <2>2. QED
    BY <1>0, <2>1 DEF ReadHolds, _is_stale
<1>5. QED
  BY <1>1, <1>2, <1>3, <1>4

(* The steps that change the file: the caller is the only one in progress, *)
(* so no other call has read what is changed.                              *)
LEMMA FileIInv ==
  ASSUME IInv, NEW r \in Runs, _write_lock(r) \/ Unlink(r)
  PROVE  IInv'
<1> USE DEF IInv
<1>0. /\ made' = made
      /\ pc[r] \in Working
      /\ pc' = [pc EXCEPT ![r] = "idle"]
      /\ seen' = [seen EXCEPT ![r] = NoLock]
  BY DEF _write_lock, Unlink, Return, At, Working
<1>1. TypeOK'
  BY <1>0 DEF TypeOK, _write_lock, Unlink, Locks
<1>2. \A q \in Runs : pc'[q] \notin Working
  BY <1>0 DEF OneCall, TypeOK, Working
<1>3. HolderOnFile'
  <2>1. CASE _write_lock(r)
    <3>1. \A q \in Runs : ~Fresh(q)
      BY <2>1, FreeMeansNoneFresh DEF _write_lock, At, ReadHolds
    <3>2. lock' = [run |-> r, age |-> made[r]] /\ held' = held \cup {r}
      BY <2>1 DEF _write_lock
    <3>3. QED
      BY <1>0, <3>1, <3>2 DEF HolderOnFile, Fresh
  <2>2. CASE Unlink(r)
    <3>1. lock.run = r /\ held' = held \ {r}
      BY <2>2 DEF Unlink, At, ReadHolds
    <3>2. \A q \in Runs : ~Fresh(q)'
      BY <1>0, <3>1 DEF HolderOnFile, Fresh
    <3>3. QED
      BY <3>2 DEF HolderOnFile
  <2>3. QED
    BY <2>1, <2>2
<1>4. OneCall' /\ ReadHolds'
  BY <1>2 DEF OneCall, ReadHolds, Working
<1>5. QED
  BY <1>1, <1>3, <1>4

-------------------------------------------------------------------------------
THEOREM Invariance ==
  ASSUME ~Concurrent
  PROVE  Spec => []IInv
<1>1. Init => IInv
  BY InitIInv
<1>2. IInv /\ [Next]_vars => IInv'
  <2> SUFFICES ASSUME IInv, [Next]_vars PROVE IInv'
    OBVIOUS
  <2>1. CASE Tick
    BY <2>1, TickIInv
  <2>2. CASE \E r \in Runs : Acquire(r) \/ Release(r)
    BY <2>2, BeginIInv
  <2>3. CASE \E r \in Runs : Call(r) \/ WriteFails(r) \/ Crash(r)
    BY <2>3, ReadIInv, FileIInv DEF Call
  <2>4. CASE UNCHANGED vars
    BY <2>4 DEF vars, IInv, TypeOK, OneCall, HolderOnFile, ReadHolds, Fresh, _is_stale
  <2>5. QED
    BY <2>1, <2>2, <2>3, <2>4 DEF Next
<1>3. QED
  BY <1>1, <1>2, PTL DEF Spec

(* Two role runs within their TTL never both hold the lock of a key, if    *)
(* the calls of acquire and release do not overlap.                        *)
THEOREM MutualExclusion ==
  ASSUME ~Concurrent
  PROVE  Spec => []Mutex
<1>1. IInv => Mutex
  BY DEF IInv, HolderOnFile, Mutex
<1>2. QED
  BY <1>1, Invariance, PTL
===============================================================================
