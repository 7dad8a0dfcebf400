---------------------------- MODULE SessionStore ----------------------------
(***************************************************************************)
(* persistence/session_store.py and the tasks that use it: the cache, the  *)
(* file of each stream, the lock of each stream and what happens between   *)
(* the awaits.  A task is one call of a tool, a handler, the thinker, a    *)
(* background job, or a run of the conversation loop, which keeps its      *)
(* session and changes it without the lock.                                *)
(*                                                                         *)
(* A session object is named after the task that made it.  Its contents    *)
(* are the tasks whose change it holds.                                    *)
(***************************************************************************)
EXTENDS Integers, FiniteSets

CONSTANTS
    Streams,
    Tasks,
    NoObject,
    ManyLocks,    \* more than 100 locks are held: each save clears unused ones
    MaxCrashes,   \* bound
    MaxFailures   \* bound: files that cannot be read or written

ASSUME StoreAssumption ==
    /\ NoObject \notin Tasks
    /\ ManyLocks \in BOOLEAN
    /\ MaxCrashes \in Nat /\ MaxFailures \in Nat

VARIABLES
    pc,     \* "idle", "want", "load", "write", "open", "changed", "done"
    op,     \* "update", "touch", "open", and "keep" once the loop is open
    on,     \* the task's stream
    at,     \* the lock the task got for it
    obj,    \* the session the task works on
    image,  \* what the task writes
    lock,   \* _locks: for each stream the lock a caller gets now
    cache,  \* _sessions
    heap,   \* the contents of the session objects
    disk,   \* the contents of the files
    saved,  \* the streams that have a file
    gone,   \* history: streams whose file was not read, see Archive
    used    \* crashes and failures so far

vars == <<pc, op, on, at, obj, image, lock, cache, heap, disk, saved, gone, used>>
task == <<op, on, at, obj, image>>
store == <<lock, cache, heap, disk, saved, gone, used>>

Phases == {"idle", "want", "load", "write", "open", "changed", "done"}
Calls  == {"update", "touch", "open"}

TypeOK ==
    /\ pc \in [Tasks -> Phases]
    /\ op \in [Tasks -> Calls \cup {"keep"}]
    /\ on \in [Tasks -> Streams]
    /\ at \in [Tasks -> Nat]
    /\ obj \in [Tasks -> Tasks \cup {NoObject}]
    /\ image \in [Tasks -> SUBSET Tasks]
    /\ lock \in [Streams -> Nat]
    /\ cache \in [Streams -> Tasks \cup {NoObject}]
    /\ heap \in [Tasks -> SUBSET Tasks]
    /\ disk \in [Streams -> SUBSET Tasks]
    /\ saved \subseteq Streams /\ gone \subseteq Streams
    /\ used \in [crashes : Nat, failures : Nat]

Init ==
    /\ pc = [t \in Tasks |-> "idle"]
    /\ op = [t \in Tasks |-> "update"]
    /\ on \in [Tasks -> Streams]
    /\ at = [t \in Tasks |-> 0]
    /\ obj = [t \in Tasks |-> NoObject]
    /\ image = [t \in Tasks |-> {}]
    /\ lock = [s \in Streams |-> 0]
    /\ cache = [s \in Streams |-> NoObject]
    /\ heap = [t \in Tasks |-> {}]
    /\ disk = [s \in Streams |-> {}]
    /\ saved \in SUBSET Streams /\ gone = {}
    /\ used = [crashes |-> 0, failures |-> 0]

-----------------------------------------------------------------------------
(* The lock.                                                               *)

Inside(t) == pc[t] \in {"load", "write"}

\* Mutant: get loads the file before it takes the lock.
HoldingToSave(s, l) == {t \in Tasks : on[t] = s /\ at[t] = l /\ pc[t] = "write"}

Holding(s, l) == {t \in Tasks : on[t] = s /\ at[t] = l /\ Inside(t)}
Waiting(s, l) == {t \in Tasks : on[t] = s /\ at[t] = l /\ pc[t] = "want"}

\* A task comes to the lock when it is called, or to save what it changed.
Comes(t) == pc[t] \in {"idle", "changed"}

AsksFor(t, o) ==
    IF pc[t] = "changed" THEN o = "keep" ELSE o \in Calls

\* asyncio.Lock: a free lock that nobody waits for is taken at once.
Wait(t, o) ==
    /\ Comes(t) /\ AsksFor(t, o)
    /\ Holding(on[t], lock[on[t]]) \cup Waiting(on[t], lock[on[t]]) # {}
    /\ op' = [op EXCEPT ![t] = o]
    /\ at' = [at EXCEPT ![t] = lock[on[t]]]
    /\ pc' = [pc EXCEPT ![t] = "want"]
    /\ UNCHANGED <<on, obj, image, store>>

Enters(t, o, l) ==
    \/ /\ Comes(t) /\ AsksFor(t, o) /\ l = lock[on[t]]
       /\ Holding(on[t], l) \cup Waiting(on[t], l) = {}
    \/ /\ pc[t] = "want" /\ o = op[t] /\ l = at[t]
       /\ Holding(on[t], l) = {}

\* cleanup_inactive_locks: the lock of a stream that is not in the cache is
\* dropped when nobody holds it, also when a task was about to get it; the next
\* caller gets another one.  (Nobody can tell when nobody waits for it.)
Locks ==
    IF ~ManyLocks THEN lock
    ELSE [s \in Streams |->
            IF cache[s] = NoObject /\ Holding(s, lock[s]) = {} /\ Waiting(s, lock[s]) # {}
            THEN lock[s] + 1 ELSE lock[s]]

-----------------------------------------------------------------------------
(* Inside the lock: get or get_or_create, the change, save.                *)

\* What the session holds when the task is done with it.  The run of the loop
\* only opens it; what it comes to save it has changed before.
With(t, o, contents) == IF o = "open" THEN contents ELSE contents \cup {t}

\* The task has its session x: all but the loop change it and start to save it
\* as it is now.
Use(t, o, x, contents) ==
    /\ heap' = [heap EXCEPT ![x] = With(t, o, contents)]
    /\ cache' = [cache EXCEPT ![on[t]] = x]
    /\ obj' = [obj EXCEPT ![t] = x]
    /\ image' = [image EXCEPT ![t] = With(t, o, contents)]
    /\ pc' = [pc EXCEPT ![t] = IF o = "open" THEN "open" ELSE "write"]

EnterCached(t, o, l) ==
    /\ Enters(t, o, l) /\ o # "keep" /\ cache[on[t]] # NoObject
    /\ op' = [op EXCEPT ![t] = o] /\ at' = [at EXCEPT ![t] = l]
    /\ Use(t, o, cache[on[t]], heap[cache[on[t]]])
    /\ UNCHANGED <<on, lock, disk, saved, gone, used>>

EnterKeep(t, l) ==
    /\ Enters(t, "keep", l)
    /\ op' = [op EXCEPT ![t] = "keep"] /\ at' = [at EXCEPT ![t] = l]
    /\ Use(t, "keep", obj[t], heap[obj[t]])
    /\ UNCHANGED <<on, lock, disk, saved, gone, used>>

EnterLoad(t, o, l) ==
    /\ Enters(t, o, l) /\ o # "keep" /\ cache[on[t]] = NoObject
    /\ op' = [op EXCEPT ![t] = o] /\ at' = [at EXCEPT ![t] = l]
    /\ pc' = [pc EXCEPT ![t] = "load"]
    /\ UNCHANGED <<on, obj, image, store>>

Loaded(t) ==
    /\ pc[t] = "load" /\ on[t] \in saved
    /\ Use(t, op[t], t, disk[on[t]])
    /\ UNCHANGED <<op, on, at, lock, disk, saved, gone, used>>

\* There is no file: get finds nothing, get_or_create makes a session.
NoFile(t) ==
    /\ pc[t] = "load" /\ on[t] \notin saved
    /\ \/ /\ op[t] = "touch"
          /\ pc' = [pc EXCEPT ![t] = "done"]
          /\ UNCHANGED <<obj, image, cache, heap>>
       \/ op[t] # "touch" /\ Use(t, op[t], t, {})
    /\ UNCHANGED <<op, on, at, lock, disk, saved, gone, used>>

\* The file cannot be read, which is taken for no file.
LoadFails(t) ==
    /\ pc[t] = "load" /\ on[t] \in saved /\ used.failures < MaxFailures
    /\ used' = [used EXCEPT !.failures = @ + 1]
    /\ \/ /\ op[t] = "touch"
          /\ pc' = [pc EXCEPT ![t] = "done"]
          /\ UNCHANGED <<obj, image, cache, heap, gone>>
       \/ /\ op[t] # "touch"
          /\ Use(t, op[t], t, {})
          /\ gone' = gone \cup {on[t]}
    /\ UNCHANGED <<op, on, at, lock, disk, saved>>

\* Mutant: the call is left where it was.
AfterCall(t) == IF op[t] = "keep" THEN "open" ELSE op[t]

\* The loop goes on with its session, a call is over.
After(t) == IF op[t] = "keep" THEN "open" ELSE "done"

Written(t) ==
    /\ pc[t] = "write"
    /\ disk' = [disk EXCEPT ![on[t]] = image[t]] /\ saved' = saved \cup {on[t]}
    /\ lock' = Locks
    /\ pc' = [pc EXCEPT ![t] = After(t)]
    /\ UNCHANGED <<task, cache, heap, gone, used>>

\* An error is logged and nobody is told.
WriteFails(t) ==
    /\ pc[t] = "write" /\ used.failures < MaxFailures
    /\ used' = [used EXCEPT !.failures = @ + 1]
    /\ lock' = Locks
    /\ pc' = [pc EXCEPT ![t] = After(t)]
    /\ UNCHANGED <<task, cache, heap, disk, saved, gone>>

-----------------------------------------------------------------------------
(* Outside the lock.                                                       *)

\* The loop changes the session it got when it started.
Turn(t) ==
    /\ pc[t] = "open"
    /\ heap' = [heap EXCEPT ![obj[t]] = @ \cup {t}]
    /\ pc' = [pc EXCEPT ![t] = "changed"]
    /\ op' = [op EXCEPT ![t] = "keep"]
    /\ UNCHANGED <<on, at, obj, image, lock, cache, disk, saved, gone, used>>

\* A task is cancelled at an await; a file that is being written may be there.
Cancel(t) ==
    /\ pc[t] \in {"want", "load", "write", "open", "changed"}
    /\ \/ UNCHANGED <<disk, saved>>
       \/ /\ pc[t] = "write"
          /\ disk' = [disk EXCEPT ![on[t]] = image[t]] /\ saved' = saved \cup {on[t]}
    /\ pc' = [pc EXCEPT ![t] = "done"]
    /\ UNCHANGED <<task, lock, cache, heap, gone, used>>

Crash ==
    /\ used.crashes < MaxCrashes
    /\ used' = [used EXCEPT !.crashes = @ + 1]
    /\ pc' = [t \in Tasks |-> "idle"]
    /\ op' = [t \in Tasks |-> "update"]
    /\ at' = [t \in Tasks |-> 0]
    /\ obj' = [t \in Tasks |-> NoObject]
    /\ image' = [t \in Tasks |-> {}]
    /\ lock' = [s \in Streams |-> 0]
    /\ cache' = [s \in Streams |-> NoObject]
    /\ heap' = [t \in Tasks |-> {}]
    /\ gone' = {}
    /\ UNCHANGED <<on, disk, saved>>

Enter(t) ==
    \/ \E o \in Calls, l \in {lock[on[t]], at[t]} : EnterCached(t, o, l) \/ EnterLoad(t, o, l)
    \/ \E l \in {lock[on[t]], at[t]} : EnterKeep(t, l)

Load(t) == Loaded(t) \/ NoFile(t) \/ LoadFails(t)
Write(t) == Written(t) \/ WriteFails(t)

TaskStep(t) ==
    \/ \E o \in Calls \cup {"keep"} : Wait(t, o)
    \/ Enter(t) \/ Load(t) \/ Write(t) \/ Turn(t) \/ Cancel(t)

Next == Crash \/ \E t \in Tasks : TaskStep(t)

Spec == Init /\ [][Next]_vars

-----------------------------------------------------------------------------
(* What the store must be.                                                 *)

\* session_store.py:46, lock() makes the reads and writes of a stream's session
\* follow one another: no two tasks are between get and save of one stream, also
\* when unused locks are cleared meanwhile.
Mutex ==
    \A t, u \in Tasks : Inside(t) /\ Inside(u) /\ on[t] = on[u] => t = u

\* A task that has a session in its hands, also one it took before others came
\* and went, has the one everybody gets from the cache.
InHand(t) == pc[t] \in {"write", "open", "changed"} \/ (pc[t] = "want" /\ op[t] = "keep")

OneObject == \A t \in Tasks : InHand(t) => obj[t] = cache[on[t]]

\* Through restarts, cancelled tasks and failed writes, a stream has one
\* session whose changes are never lost but by a restart, its file only grows,
\* and a restart brings back the file: unless a file could not be read.
Store == INSTANCE Archive WITH
    Changes <- Tasks,
    now <- [s \in Streams |-> IF cache[s] = NoObject THEN disk[s] ELSE heap[cache[s]]],
    kept <- disk

ArchiveSpec == Store!Spec
=============================================================================
