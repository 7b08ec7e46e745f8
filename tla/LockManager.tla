----------------------------- MODULE LockManager -----------------------------
(***************************************************************************)
(* RoleLockManager of mcp_agent/lock_manager.py: acquire and release of    *)
(* the lock file of one key ("repo|branch"; the files of different keys    *)
(* have nothing in common) by several role runs.                           *)
(*                                                                         *)
(* Time is the age of things: created_at in a file, in a copy of it and in *)
(* a run's own metadata is how many ticks ago it was, up to TTL + 1, which *)
(* stands for every age beyond the TTL.                                    *)
(***************************************************************************)
EXTENDS Naturals

CONSTANTS
  Runs,        \* role runs that want the lock
  TTL,         \* ttl_minutes, in ticks
  Concurrent,  \* may calls of acquire and release overlap (several processes)
  NoRun        \* the owner of no lock

ASSUME LockAssumption ==
  /\ TTL \in Nat /\ TTL > 0
  /\ Concurrent \in BOOLEAN
  /\ NoRun \notin Runs

VARIABLES
  lock,   \* the lock file
  held,   \* the runs that were told they have the lock and go on
  made,   \* the age of the created_at of each run's last acquire
  seen,   \* what get returned to the call in progress
  pc      \* where each run is

vars == <<lock, held, made, seen, pc>>

-------------------------------------------------------------------------------
Ages == 0..(TTL + 1)
Locks == [run : Runs, age : Ages]
NoLock == [run |-> NoRun, age |-> 0]

(* A tick later; an age beyond the TTL says nothing more.                  *)
Older(age) == IF age > TTL THEN age ELSE age + 1
Aged(l) == IF l = NoLock THEN l ELSE [l EXCEPT !.age = Older(@)]

NeverStale(l) == FALSE   \* mutant: a lock never expires
_is_stale(l) == l.age > TTL

At(r, point) == pc[r] = point
Goto(r, point) == pc' = [pc EXCEPT ![r] = point] /\ UNCHANGED seen
Return(r) == pc' = [pc EXCEPT ![r] = "idle"] /\ seen' = [seen EXCEPT ![r] = NoLock]

(* A call begins: alone, or beside others.                                 *)
Working == {"get", "decide", "write", "find", "compare", "unlink"}
MayBegin == Concurrent \/ \A q \in Runs : pc[q] \notin Working

-------------------------------------------------------------------------------
(* acquire: created_at is taken first, then the file is read.              *)
Acquire(r) ==
  /\ At(r, "idle") /\ r \notin held /\ MayBegin
  /\ made' = [made EXCEPT ![r] = 0]
  /\ Goto(r, "get")
  /\ UNCHANGED <<lock, held>>

Get(r) ==
  /\ At(r, "get") \/ At(r, "find")
  /\ pc' = [pc EXCEPT ![r] = IF At(r, "get") THEN "decide" ELSE "compare"]
  /\ seen' = [seen EXCEPT ![r] = lock]
  /\ UNCHANGED <<lock, held, made>>

Decide(r) ==
  /\ At(r, "decide")
  /\ IF seen[r] = NoLock \/ _is_stale(seen[r]) THEN Goto(r, "write") ELSE Return(r)
  /\ UNCHANGED <<lock, held, made>>

(* A temporary file is renamed over the lock file, whatever is there now.  *)
_write_lock(r) ==
  /\ At(r, "write")
  /\ lock' = [run |-> r, age |-> made[r]]
  /\ held' = held \cup {r}
  /\ Return(r)
  /\ UNCHANGED made

(* The temporary file cannot be written: acquire raises.                   *)
WriteFails(r) ==
  /\ At(r, "write")
  /\ Return(r)
  /\ UNCHANGED <<lock, held, made>>

(* release: by a run that believes it has the lock, once it is done.       *)
Release(r) ==
  /\ At(r, "idle") /\ r \in held /\ MayBegin
  /\ Goto(r, "find")
  /\ UNCHANGED <<lock, held, made>>

AnyOwner(r) ==    \* mutant: the owner in the file is not compared
  /\ At(r, "compare")
  /\ Goto(r, "unlink")
  /\ UNCHANGED <<lock, held, made>>
Compare(r) ==
  /\ At(r, "compare")
  /\ \/ /\ seen[r].run = r
        /\ Goto(r, "unlink")
        /\ UNCHANGED held
     \/ /\ seen[r].run # r
        /\ Return(r)
        /\ held' = held \ {r}
  /\ UNCHANGED <<lock, made>>

(* An OSError of unlink is swallowed: the run goes on, the file stays.     *)
Unlink(r) ==
  /\ At(r, "unlink")
  /\ lock' \in {NoLock, lock}
  /\ held' = held \ {r}
  /\ Return(r)
  /\ UNCHANGED made

(* The process of a run ends at any point; its run id is never used again. *)
Crash(r) ==
  /\ pc[r] # "dead"
  /\ pc' = [pc EXCEPT ![r] = "dead"] /\ seen' = [seen EXCEPT ![r] = NoLock]
  /\ held' = held \ {r}
  /\ UNCHANGED <<lock, made>>

Tick ==
  /\ lock' = Aged(lock)
  /\ made' = [r \in Runs |-> Older(made[r])]
  /\ seen' = [r \in Runs |-> Aged(seen[r])]
  /\ UNCHANGED <<held, pc>>

-------------------------------------------------------------------------------
Init ==
  /\ lock = NoLock
  /\ held = {}
  /\ made = [r \in Runs |-> 0]
  /\ seen = [r \in Runs |-> NoLock]
  /\ pc = [r \in Runs |-> "idle"]

Call(r) ==
  \/ Get(r) \/ Decide(r) \/ _write_lock(r) \/ Compare(r) \/ Unlink(r)

Next ==
  \/ Tick
  \/ \E r \in Runs : Acquire(r) \/ Release(r) \/ Call(r) \/ WriteFails(r) \/ Crash(r)

Spec == Init /\ [][Next]_vars

(* Time passes, a call that has begun goes on, and some run keeps asking   *)
(* for the lock; a temporary file can be written if it is tried again and  *)
(* again.  Nothing makes a holder release.                                 *)
FairSpec ==
  /\ Spec /\ WF_vars(Tick)
  /\ \A r \in Runs : WF_vars(Call(r)) /\ SF_vars(_write_lock(r))
  /\ WF_vars(\E r \in Runs : Acquire(r))

-------------------------------------------------------------------------------
TypeOK ==
  /\ lock \in Locks \cup {NoLock}
  /\ held \subseteq Runs
  /\ made \in [Runs -> Ages]
  /\ seen \in [Runs -> Locks \cup {NoLock}]
  /\ pc \in [Runs -> {"idle", "dead"} \cup Working]

(* Of the runs that hold the lock and whose TTL has not passed there is    *)
(* one: a lock is taken over only when its holder's time is over, and a    *)
(* holder who was overtaken does not remove its successor's lock.  Calls   *)
(* one at a time.                                                          *)
Fresh(r) == r \in held /\ made[r] <= TTL
Mutex == \A r \in Runs, q \in Runs : Fresh(r) /\ Fresh(q) => r = q

(* The file of a run that crashed, or whose unlink failed, does not block  *)
(* the key for ever: it is replaced or removed while there is a run to ask *)
(* for the lock.                                                           *)
Orphaned == lock # NoLock /\ lock.run \notin held
NoneToAsk == \A r \in Runs : pc[r] = "dead" \/ r \in held
OrphanRecovered == Orphaned ~> (~Orphaned \/ NoneToAsk)
===============================================================================
