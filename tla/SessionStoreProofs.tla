------------------------- MODULE SessionStoreProofs -------------------------
(***************************************************************************)
(* Proofs about the session store, for any number of streams, tasks,       *)
(* crashes and failures, as long as unused locks are not cleared: with the *)
(* clearing the lock does not keep tasks apart, see SessionStore.          *)
(***************************************************************************)
EXTENDS SessionStore, TLAPS

\* A task that waits for the file does so because nothing is in the cache.
LoadsOnce == \A t \in Tasks : pc[t] = "load" => cache[on[t]] = NoObject

\* No two streams share a session.
Owned == \A s \in Streams : cache[s] # NoObject => on[cache[s]] = s

Held == \A t \in Tasks : InHand(t) => obj[t] = cache[on[t]] /\ obj[t] # NoObject

\* There is one lock for each stream.
OneLock ==
    /\ \A s \in Streams : lock[s] = 0
    /\ \A t \in Tasks : at[t] = 0

\* What is being written is between the file and the session.
Writes ==
    \A t \in Tasks : pc[t] = "write" =>
        /\ image[t] \subseteq heap[obj[t]]
        /\ on[t] \notin gone => disk[on[t]] \subseteq image[t]

Files ==
    \A s \in Streams :
        /\ s \notin saved => disk[s] = {}
        /\ cache[s] # NoObject /\ s \notin gone => disk[s] \subseteq heap[cache[s]]

IInv == TypeOK /\ Mutex /\ LoadsOnce /\ Owned /\ Held /\ OneLock /\ Writes /\ Files

-----------------------------------------------------------------------------
(* One step keeps the invariant.                                           *)

\* The initial states satisfy the invariant.
LEMMA InitInv == Init => IInv
  <1> SUFFICES ASSUME Init PROVE IInv
    OBVIOUS
  <1>1. TypeOK
    BY DEF Init, TypeOK, Phases, Calls
  <1>2. Mutex /\ LoadsOnce /\ Owned /\ Held /\ OneLock /\ Writes /\ Files
    BY DEF Init, Mutex, LoadsOnce, Owned, Held, InHand, OneLock, Writes, Files, Inside
  <1> QED BY <1>1, <1>2 DEF IInv

\* A task takes the lock only when nobody is inside: the guard of asyncio.Lock.
LEMMA EntersAlone ==
    ASSUME IInv, NEW t \in Tasks, NEW o, NEW l, Enters(t, o, l),
           NEW u \in Tasks, Inside(u)
    PROVE  on[u] # on[t] /\ l = 0
  BY DEF IInv, OneLock, TypeOK, Enters, Comes, AsksFor, Holding, Waiting, Inside, Phases

\* A task enters a free lock, to make a call or to keep what it has in hand.
LEMMA EntersOne ==
    ASSUME IInv, NEW t \in Tasks, NEW o, NEW l, Enters(t, o, l)
    PROVE  /\ l = 0 /\ o \in Calls \cup {"keep"} /\ ~Inside(t)
           /\ o = "keep" => InHand(t)
  BY DEF IInv, OneLock, TypeOK, Enters, Comes, AsksFor, Inside, InHand, Calls, Phases

\* What a task does with its session, once it has it, keeps the invariant.
LEMMA UseInv ==
    ASSUME IInv, NEW t \in Tasks, NEW o \in Calls \cup {"keep"}, NEW x \in Tasks,
           NEW contents \in SUBSET Tasks,
           Use(t, o, x, contents),
           op' = [op EXCEPT ![t] = o], at' = at,
           on' = on, lock' = lock, disk' = disk, saved' = saved,
           used' \in [crashes : Nat, failures : Nat],
           gone' \in SUBSET Streams, gone \subseteq gone',
           \A s \in Streams : s # on[t] /\ s \notin gone => s \notin gone',
           on[t] \notin gone' => disk[on[t]] \subseteq contents,
           on[x] = on[t],
           \/ cache[on[t]] = x /\ contents = heap[x]
           \/ cache[on[t]] = NoObject,
           \A u \in Tasks : Inside(u) /\ on[u] = on[t] => u = t
    PROVE  IInv'
  <1> USE DEF IInv, Use
  <1> DEFINE w == With(t, o, contents)
  <1>w. w \in SUBSET Tasks /\ contents \subseteq w
    BY DEF With
  <1> HIDE DEF w
  <1>u. /\ heap' = [heap EXCEPT ![x] = w] /\ image' = [image EXCEPT ![t] = w]
        /\ cache' = [cache EXCEPT ![on[t]] = x] /\ obj' = [obj EXCEPT ![t] = x]
        /\ pc'[t] \in {"open", "write"}
        /\ \A u \in Tasks : u # t => pc'[u] = pc[u]
        /\ pc' \in [Tasks -> Phases]
    BY DEF TypeOK, w, Phases
  <1>1. TypeOK'
    BY <1>w, <1>u DEF TypeOK, Calls
  <1>2. Mutex'
    BY <1>u DEF Mutex, Inside
  <1>3. LoadsOnce'
    BY <1>u DEF LoadsOnce, TypeOK, Inside
  <1>4. Owned'
    BY <1>u DEF Owned, TypeOK
  <1>5. Held'
    <2> SUFFICES ASSUME NEW u \in Tasks, InHand(u)'
                 PROVE  obj'[u] = cache'[on[u]] /\ obj'[u] # NoObject
      BY DEF Held
    <2>1. CASE u = t
      BY <2>1, <1>u, StoreAssumption DEF TypeOK
    <2>2. CASE u # t
      <3>1. InHand(u) /\ obj'[u] = obj[u]
        BY <2>2, <1>u DEF InHand, TypeOK
      <3>2. obj[u] = cache[on[u]] /\ obj[u] # NoObject
        BY <3>1 DEF Held
      <3>3. cache'[on[u]] = cache[on[u]]
        BY <1>u, <3>2 DEF TypeOK
      <3> QED BY <3>1, <3>2, <3>3
    <2> QED BY <2>1, <2>2
  <1>6. OneLock'
    BY DEF OneLock
  <1>7. Writes'
    <2> SUFFICES ASSUME NEW u \in Tasks, pc'[u] = "write"
                 PROVE  /\ image'[u] \subseteq heap'[obj'[u]]
                        /\ on[u] \notin gone' => disk[on[u]] \subseteq image'[u]
      BY DEF Writes
    <2>1. CASE u = t
      BY <2>1, <1>u, <1>w DEF TypeOK
    <2>2. CASE u # t
      <3>1. pc[u] = "write" /\ image'[u] = image[u] /\ obj'[u] = obj[u]
        BY <2>2, <1>u DEF TypeOK
      <3>2. /\ obj[u] = cache[on[u]] /\ obj[u] # NoObject
            /\ on[u] # on[t] /\ obj[u] \in Tasks
        BY <3>1, <2>2 DEF Held, InHand, Inside, TypeOK
      <3>3. obj[u] # x
        BY <3>2 DEF Owned, TypeOK
      <3> QED BY <3>1, <3>2, <3>3, <1>u DEF Writes, TypeOK
    <2> QED BY <2>1, <2>2
  <1>8. Files'
    <2> SUFFICES ASSUME NEW s \in Streams, cache'[s] # NoObject, s \notin gone'
                 PROVE  disk[s] \subseteq heap'[cache'[s]]
      BY DEF Files
    <2>1. CASE s = on[t]
      BY <2>1, <1>u, <1>w DEF TypeOK
    <2>2. CASE s # on[t]
      <3>1. cache'[s] = cache[s] /\ cache[s] # x /\ s \notin gone
        BY <2>2, <1>u DEF TypeOK, Owned
      <3> QED BY <3>1, <1>u DEF Files, TypeOK
    <2> QED BY <2>1, <2>2
  <1> QED BY <1>1, <1>2, <1>3, <1>4, <1>5, <1>6, <1>7, <1>8

\* Steps that leave the sessions alone keep what is said of them.
LEMMA EnterInv ==
    ASSUME IInv, NEW t \in Tasks, NEW o, NEW l, EnterCached(t, o, l) \/ EnterLoad(t, o, l)
    PROVE  IInv'
  <1>a. l = 0 /\ o \in Calls /\ ~Inside(t) /\ \A u \in Tasks : Inside(u) => on[u] # on[t]
    BY EntersOne, EntersAlone DEF EnterCached, EnterLoad
  <1>b. at' = at /\ op' = [op EXCEPT ![t] = o]
    BY <1>a DEF EnterCached, EnterLoad, IInv, TypeOK, OneLock
  <1>1. CASE EnterCached(t, o, l)
    <2> DEFINE x == cache[on[t]]
    <2>1. x \in Tasks /\ on[x] = on[t] /\ heap[x] \in SUBSET Tasks
      BY <1>1 DEF EnterCached, IInv, TypeOK, Owned
    <2>2. on[t] \notin gone => disk[on[t]] \subseteq heap[x]
      BY <2>1, <1>1 DEF EnterCached, IInv, Files, TypeOK
    <2>3. Use(t, o, x, heap[x]) /\ on' = on /\ lock' = lock /\ disk' = disk /\ saved' = saved
          /\ gone' = gone /\ used' = used
      BY <1>1 DEF EnterCached
    <2>4. used' \in [crashes : Nat, failures : Nat] /\ gone' \in SUBSET Streams
      BY <2>3 DEF IInv, TypeOK
    <2> HIDE DEF x
    <2> QED BY <1>a, <1>b, <2>1, <2>2, <2>3, <2>4, UseInv DEF x
  <1>2. CASE EnterLoad(t, o, l)
    <2> USE <1>a, <1>b, <1>2 DEF EnterLoad, store
    <2>1. TypeOK'
      BY DEF IInv, TypeOK, Calls, Phases
    <2>2. Mutex' /\ LoadsOnce'
      BY DEF IInv, TypeOK, Mutex, LoadsOnce, Inside
    <2>3. Owned' /\ OneLock' /\ Files'
      BY DEF IInv, Owned, OneLock, Files
    <2>4. Held' /\ Writes'
      BY DEF IInv, TypeOK, Held, InHand, Writes, Calls
    <2> QED BY <2>1, <2>2, <2>3, <2>4 DEF IInv
  <1> QED BY <1>1, <1>2

\* Entering with the object in hand keeps the invariant,
LEMMA EnterKeepInv ==
    ASSUME IInv, NEW t \in Tasks, NEW l, EnterKeep(t, l)
    PROVE  IInv'
  <1>a. l = 0 /\ InHand(t) /\ \A u \in Tasks : Inside(u) => on[u] # on[t]
    BY EntersOne, EntersAlone DEF EnterKeep
  <1>b. at' = at /\ op' = [op EXCEPT ![t] = "keep"]
    BY <1>a DEF EnterKeep, IInv, TypeOK, OneLock
  <1>1. obj[t] \in Tasks /\ obj[t] = cache[on[t]] /\ on[obj[t]] = on[t] /\ heap[obj[t]] \in SUBSET Tasks
    BY <1>a DEF IInv, TypeOK, Held, Owned
  <1>2. on[t] \notin gone => disk[on[t]] \subseteq heap[obj[t]]
    BY <1>1, StoreAssumption DEF IInv, Files, TypeOK
  <1>3. Use(t, "keep", obj[t], heap[obj[t]]) /\ on' = on /\ lock' = lock /\ disk' = disk
        /\ saved' = saved /\ gone' = gone /\ used' = used
    BY DEF EnterKeep
  <1>4. used' \in [crashes : Nat, failures : Nat] /\ gone' \in SUBSET Streams
    BY <1>3 DEF IInv, TypeOK
  <1> QED BY <1>a, <1>b, <1>1, <1>2, <1>3, <1>4, UseInv

\* waiting for the lock does,
LEMMA WaitInv ==
    ASSUME IInv, NEW t \in Tasks, NEW o, Wait(t, o)
    PROVE  IInv'
  <1> USE DEF IInv, Wait, store, TypeOK
  <1>1. o \in Calls \cup {"keep"} /\ (o = "keep" => InHand(t)) /\ at' = at
    BY DEF Comes, AsksFor, Calls, InHand, OneLock
  <1>2. TypeOK'
    BY <1>1 DEF Phases
  <1>3. Mutex' /\ LoadsOnce' /\ Owned' /\ OneLock' /\ Writes' /\ Files'
    BY <1>1 DEF Mutex, LoadsOnce, Owned, OneLock, Writes, Files, Inside
  <1>4. Held'
    BY <1>1 DEF Held, InHand
  <1> QED BY <1>2, <1>3, <1>4

\* A read of the file.
LEMMA LoadInv ==
    ASSUME IInv, NEW t \in Tasks, Load(t)
    PROVE  IInv'
  <1> USE DEF IInv
  <1>a. /\ pc[t] = "load" /\ cache[on[t]] = NoObject /\ on[t] \in Streams
        /\ op[t] \in Calls \cup {"keep"} /\ op' = [op EXCEPT ![t] = op[t]]
        /\ on' = on /\ at' = at /\ lock' = lock /\ disk' = disk /\ saved' = saved
        /\ used' \in [crashes : Nat, failures : Nat]
    BY DEF Load, Loaded, NoFile, LoadFails, LoadsOnce, TypeOK
  <1>b. \A u \in Tasks : Inside(u) /\ on[u] = on[t] => u = t
    BY <1>a DEF Mutex, Inside
  <1>c. gone' \in SUBSET Streams /\ gone \subseteq gone'
        /\ \A s \in Streams : s # on[t] /\ s \notin gone => s \notin gone'
    BY <1>a DEF Load, Loaded, NoFile, LoadFails, TypeOK
  <1>1. ASSUME NEW contents \in SUBSET Tasks, Use(t, op[t], t, contents),
               on[t] \notin gone' => disk[on[t]] \subseteq contents
        PROVE  IInv'
    BY <1>a, <1>b, <1>c, <1>1, UseInv
  <1>2. CASE Loaded(t)
    BY <1>a, <1>1, <1>2 DEF Loaded, TypeOK
  <1>3. CASE (NoFile(t) \/ LoadFails(t)) /\ Use(t, op[t], t, {})
    <2>1. on[t] \notin gone' => disk[on[t]] = {}
      <3>1. CASE NoFile(t)
        BY <3>1, <1>a DEF NoFile, Files
      <3>2. CASE LoadFails(t)
        <4>1. gone' = gone \cup {on[t]}
          BY <3>2, <1>3, <1>a, StoreAssumption DEF LoadFails, Use, TypeOK
        <4> QED BY <4>1
      <3> QED BY <1>3, <3>1, <3>2
    <2> QED BY <2>1, <1>3, <1>1
  <1>4. CASE pc' = [pc EXCEPT ![t] = "done"] /\ UNCHANGED <<obj, image, cache, heap, gone>>
    <2> USE <1>4, <1>a
    <2>1. TypeOK'
      BY DEF TypeOK, Phases
    <2>2. Mutex' /\ LoadsOnce'
      BY DEF TypeOK, Mutex, LoadsOnce, Inside
    <2>3. Owned' /\ OneLock' /\ Files'
      BY DEF Owned, OneLock, Files
    <2>4. Held' /\ Writes'
      BY DEF TypeOK, Held, InHand, Writes
    <2> QED BY <2>1, <2>2, <2>3, <2>4
  <1>5. NoFile(t) =>
          \/ Use(t, op[t], t, {})
          \/ pc' = [pc EXCEPT ![t] = "done"] /\ UNCHANGED <<obj, image, cache, heap, gone>>
    BY DEF NoFile
  <1>6. LoadFails(t) =>
          \/ Use(t, op[t], t, {})
          \/ pc' = [pc EXCEPT ![t] = "done"] /\ UNCHANGED <<obj, image, cache, heap, gone>>
    BY DEF LoadFails
  <1> QED BY <1>2, <1>3, <1>4, <1>5, <1>6 DEF Load

\* A write of the file ends, well or badly, or its task is cancelled.
LEMMA WriteInv ==
    ASSUME ~ManyLocks, IInv, NEW t \in Tasks, Write(t) \/ Cancel(t)
    PROVE  IInv'
  <1> USE DEF IInv
  <1>a. /\ lock' = lock /\ on' = on /\ at' = at /\ op' = op /\ obj' = obj /\ image' = image
        /\ cache' = cache /\ heap' = heap /\ gone' = gone
        /\ used' \in [crashes : Nat, failures : Nat]
        /\ pc'[t] \in {"open", "done"} /\ (pc'[t] = "open" => InHand(t))
        /\ pc' \in [Tasks -> Phases]
        /\ \A u \in Tasks : u # t => pc'[u] = pc[u]
    BY DEF Write, Written, WriteFails, Cancel, After, Locks, task, store, TypeOK, InHand, Phases
  <1>b. \/ disk' = disk /\ saved' = saved
        \/ /\ pc[t] = "write" /\ disk' = [disk EXCEPT ![on[t]] = image[t]]
           /\ saved' = saved \cup {on[t]}
    BY DEF Write, Written, WriteFails, Cancel, task, store
  <1>1. TypeOK'
    BY <1>a, <1>b DEF TypeOK
  <1>2. Mutex' /\ LoadsOnce' /\ Owned' /\ OneLock'
    BY <1>a DEF TypeOK, Mutex, LoadsOnce, Inside, Owned, OneLock
  <1>3. Held'
    BY <1>a DEF TypeOK, Held, InHand
  <1>4. Writes'
    <2> SUFFICES ASSUME NEW u \in Tasks, pc'[u] = "write"
                 PROVE  /\ image[u] \subseteq heap[obj[u]]
                        /\ on[u] \notin gone => disk'[on[u]] \subseteq image[u]
      BY <1>a DEF Writes
    <2>1. u # t /\ pc[u] = "write"
      BY <1>a
    <2>2. disk'[on[u]] = disk[on[u]]
      BY <1>b, <2>1 DEF Mutex, Inside, TypeOK
    <2> QED BY <2>1, <2>2 DEF Writes
  <1>5. Files'
    <2>1. CASE disk' = disk /\ saved' = saved
      BY <2>1, <1>a DEF Files
    <2>2. CASE pc[t] = "write" /\ disk' = [disk EXCEPT ![on[t]] = image[t]] /\ saved' = saved \cup {on[t]}
      <3>1. obj[t] = cache[on[t]] /\ image[t] \subseteq heap[obj[t]]
        BY <2>2 DEF Held, InHand, Writes
      <3> QED BY <2>2, <3>1, <1>a DEF Files, TypeOK
    <2> QED BY <1>b, <2>1, <2>2
  <1> QED BY <1>1, <1>2, <1>3, <1>4, <1>5

\* every step of a turn does,
LEMMA TurnInv ==
    ASSUME IInv, NEW t \in Tasks, Turn(t)
    PROVE  IInv'
  <1> USE DEF IInv, Turn
  <1>1. obj[t] \in Tasks /\ obj[t] = cache[on[t]] /\ heap' = [heap EXCEPT ![obj[t]] = heap[obj[t]] \cup {t}]
    BY DEF Held, InHand, TypeOK
  <1>2. TypeOK'
    BY <1>1 DEF TypeOK, Phases
  <1>3. Mutex' /\ LoadsOnce' /\ Owned' /\ OneLock'
    BY DEF TypeOK, Mutex, LoadsOnce, Inside, Owned, OneLock
  <1>4. Held'
    BY DEF TypeOK, Held, InHand
  <1>5. \A x \in Tasks : heap[x] \subseteq heap'[x]
    BY <1>1 DEF TypeOK
  <1>6. Writes'
    BY <1>5 DEF TypeOK, Writes
  <1>7. Files'
    BY <1>5 DEF TypeOK, Files
  <1> QED BY <1>2, <1>3, <1>4, <1>6, <1>7

\* and a crash.
LEMMA CrashInv == IInv /\ Crash => IInv'
  <1> SUFFICES ASSUME IInv, Crash PROVE IInv'
    OBVIOUS
  <1> USE DEF IInv, Crash
  <1>1. TypeOK'
    BY DEF TypeOK, Phases, Calls
  <1>2. Mutex' /\ LoadsOnce' /\ Owned' /\ Held' /\ OneLock' /\ Writes'
    BY DEF TypeOK, Mutex, LoadsOnce, Owned, Held, InHand, OneLock, Writes, Inside
  <1>3. Files'
    BY DEF TypeOK, Files
  <1> QED BY <1>1, <1>2, <1>3

\* So each step keeps it, while there are fewer locks than the store prunes at,
LEMMA StepInv == ~ManyLocks /\ IInv /\ [Next]_vars => IInv'
  <1> SUFFICES ASSUME ~ManyLocks, IInv, [Next]_vars PROVE IInv'
    OBVIOUS
  <1>1. CASE UNCHANGED vars
    BY <1>1 DEF vars, IInv, TypeOK, Mutex, LoadsOnce, Owned, Held, InHand, OneLock, Writes,
                Files, Inside
  <1>2. CASE Crash
    BY <1>2, CrashInv
  <1>3. ASSUME NEW t \in Tasks, TaskStep(t) PROVE IInv'
    <2>1. CASE \E o \in Calls \cup {"keep"} : Wait(t, o)
      BY <2>1, WaitInv
    <2>2. CASE Enter(t)
      BY <2>2, EnterInv, EnterKeepInv DEF Enter
    <2>3. CASE Load(t)
      BY <2>3, LoadInv
    <2>4. CASE Write(t) \/ Cancel(t)
      BY <2>4, WriteInv
    <2>5. CASE Turn(t)
      BY <2>5, TurnInv
    <2> QED BY <1>3, <2>1, <2>2, <2>3, <2>4, <2>5 DEF TaskStep
  <1> QED BY <1>1, <1>2, <1>3 DEF Next

-----------------------------------------------------------------------------
(* The theorems.                                                           *)

\* and it holds throughout.
LEMMA Invariance == ~ManyLocks => (Spec => []IInv)
  <1> SUFFICES ASSUME ~ManyLocks PROVE Spec => []IInv
    OBVIOUS
  <1>1. Init => IInv
    BY InitInv
  <1>2. IInv /\ [Next]_vars => IInv'
    BY StepInv
  <1> QED BY <1>1, <1>2, PTL DEF Spec

\* Every variable of the session store keeps its type.
THEOREM TypeCorrect == ~ManyLocks => (Spec => []TypeOK)
  <1> SUFFICES ASSUME ~ManyLocks PROVE Spec => []TypeOK
    OBVIOUS
  <1>0. Spec => []IInv
    BY Invariance
  <1>1. IInv => TypeOK
    BY DEF IInv
  <1> QED BY <1>0, <1>1, PTL

\* Whoever works on a stream's session works on the one in the cache: a loop
\* that keeps its session from its start on is never left with an old copy.
THEOREM NoOldCopy == ~ManyLocks => (Spec => []OneObject)
  <1> SUFFICES ASSUME ~ManyLocks PROVE Spec => []OneObject
    OBVIOUS
  <1>0. Spec => []IInv
    BY Invariance
  <1>1. IInv => OneObject
    BY DEF IInv, Held, OneObject
  <1> QED BY <1>0, <1>1, PTL

\* The store implements the archive.
LEMMA InitRefines == Init => Store!Init
  BY DEF Init, Store!Init

\* A use of the object in the cache, or of a fresh one with what the disk has, is a use of the archive.
LEMMA UseRefines ==
    ASSUME IInv, NEW t \in Tasks, NEW o, NEW contents \in SUBSET Tasks,
           NEW x \in Tasks, Use(t, o, x, contents), UNCHANGED <<on, disk, gone>>,
           \/ cache[on[t]] = x /\ contents = heap[x]
           \/ cache[on[t]] = NoObject /\ x = t /\ contents = disk[on[t]]
    PROVE  [Store!Next]_Store!vars
  <1> USE DEF IInv, TypeOK, Use
  <1> DEFINE now == [s \in Streams |-> IF cache[s] = NoObject THEN disk[s] ELSE heap[cache[s]]]
             w == With(t, o, contents)
  <1>1. on[t] \in Streams /\ (w = contents \/ w = contents \cup {t})
    BY DEF With
  <1> HIDE DEF w
  <1>2. now[on[t]] = contents
    BY <1>1, StoreAssumption
  <1>3. now' = [now EXCEPT ![on[t]] = w]
    <2>1. heap' = [heap EXCEPT ![x] = w] /\ cache' = [cache EXCEPT ![on[t]] = x] /\ disk' = disk
      BY DEF w
    <2>2. now'[on[t]] = w
      BY <2>1, <1>1, StoreAssumption
    <2>3. ASSUME NEW s \in Streams, s # on[t] PROVE now'[s] = now[s]
      <3>1. cache'[s] = cache[s]
        BY <2>1, <2>3
      <3>2. cache[s] # NoObject => cache[s] # x
        BY <2>3, StoreAssumption DEF Owned
      <3> QED BY <2>1, <3>1, <3>2
    <2> QED BY <2>2, <2>3, <1>1
  <1>f. now \in [Streams -> SUBSET Tasks]
    OBVIOUS
  <1> HIDE DEF now, Use, TypeOK
  <1>4. now' = now \/ now' = [now EXCEPT ![on[t]] = now[on[t]] \cup {t}]
    BY <1>1, <1>2, <1>3, <1>f
  <1>5. CASE now' = now
    BY <1>5 DEF Store!vars, now
  <1>6. CASE now' = [now EXCEPT ![on[t]] = now[on[t]] \cup {t}]
    <2>1. Store!Change(on[t], t)
      BY <1>6 DEF Store!Change, now
    <2> QED BY <2>1, <1>1 DEF Store!Next
  <1> QED BY <1>4, <1>5, <1>6

\* Every step is one of the archive or stutters.
LEMMA StepRefines == ~ManyLocks /\ IInv /\ [Next]_vars => [Store!Next]_Store!vars
  <1> SUFFICES ASSUME ~ManyLocks, IInv, [Next]_vars PROVE [Store!Next]_Store!vars
    OBVIOUS
  <1> DEFINE now == [s \in Streams |-> IF cache[s] = NoObject THEN disk[s] ELSE heap[cache[s]]]
  <1> USE DEF IInv
  <1>0. ASSUME UNCHANGED <<cache, heap, disk, gone>> PROVE UNCHANGED Store!vars
    BY <1>0 DEF Store!vars
  <1>1. CASE UNCHANGED vars
    BY <1>0, <1>1 DEF vars
  <1>2. CASE Crash
    <2>1. Store!Restart
      BY <1>2 DEF Crash, Store!Restart, TypeOK
    <2> QED BY <2>1 DEF Store!Next
  <1>3. ASSUME NEW t \in Tasks, TaskStep(t) PROVE [Store!Next]_Store!vars
    <2>a. on[t] \in Streams
      BY DEF TypeOK
    <2>1. CASE \E o \in Calls \cup {"keep"} : Wait(t, o)
      BY <2>1, <1>0 DEF Wait, store
    <2>2. CASE Enter(t)
      <3>1. ASSUME NEW o, NEW l, EnterCached(t, o, l) PROVE [Store!Next]_Store!vars
        BY <3>1, UseRefines DEF EnterCached, TypeOK, Owned
      <3>2. ASSUME NEW o, NEW l, EnterLoad(t, o, l) PROVE [Store!Next]_Store!vars
        BY <3>2, <1>0 DEF EnterLoad, store
      <3>3. ASSUME NEW l, EnterKeep(t, l) PROVE [Store!Next]_Store!vars
        <4>1. obj[t] = cache[on[t]] /\ obj[t] # NoObject
          BY <3>3, EntersOne DEF EnterKeep, Held
        <4> QED BY <3>3, <4>1, UseRefines DEF EnterKeep, TypeOK
      <3> QED BY <2>2, <3>1, <3>2, <3>3 DEF Enter
    <2>3. CASE Load(t)
      <3>a. pc[t] = "load" /\ cache[on[t]] = NoObject
        BY <2>3 DEF Load, Loaded, NoFile, LoadFails, LoadsOnce
      <3>1. CASE Loaded(t)
        BY <3>1, <3>a, UseRefines DEF Loaded, TypeOK
      <3>2. CASE NoFile(t) /\ Use(t, op[t], t, {})
        BY <3>2, <3>a, UseRefines DEF NoFile, TypeOK, Files
      <3>3. CASE LoadFails(t) /\ Use(t, op[t], t, {})
        <4>1. gone' = gone \cup {on[t]} /\ disk' = disk /\ on' = on
          BY <3>3, <3>a, StoreAssumption DEF LoadFails, Use, TypeOK
        <4> DEFINE w == With(t, op[t], {})
        <4>2. w = {} \/ w = {t}
          BY DEF With
        <4> HIDE DEF w
        <4>3. heap' = [heap EXCEPT ![t] = w] /\ cache' = [cache EXCEPT ![on[t]] = t]
          BY <3>3 DEF Use, w
        <4>4. now' = [now EXCEPT ![on[t]] = w]
          <5>1. now'[on[t]] = w
            BY <4>3, <4>1, <2>a, StoreAssumption DEF TypeOK
          <5>2. ASSUME NEW s \in Streams, s # on[t] PROVE now'[s] = now[s]
            <6>1. cache'[s] = cache[s] /\ (cache[s] # NoObject => cache[s] # t)
              BY <4>3, <5>2 DEF TypeOK, Owned
            <6> QED BY <4>3, <4>1, <6>1 DEF TypeOK
          <5> QED BY <5>1, <5>2, <2>a
        <4> HIDE DEF now
        <4>5. Store!Blank(on[t])
          BY <4>1, <4>2, <4>4 DEF Store!Blank, now
        <4>6. \E s \in Streams : Store!Blank(s)
          BY <4>5, <2>a DEF Store!Blank
        <4> QED BY <4>6 DEF Store!Next
      <3>4. CASE UNCHANGED <<cache, heap, disk, gone>>
        BY <3>4, <1>0
      <3> QED BY <2>3, <3>1, <3>2, <3>3, <3>4 DEF Load, NoFile, LoadFails
    <2>4. CASE Write(t) \/ Cancel(t)
      <3>1. CASE disk' = disk
        BY <2>4, <3>1, <1>0 DEF Write, Written, WriteFails, Cancel, store, task
      <3>2. CASE /\ pc[t] = "write" /\ disk' = [disk EXCEPT ![on[t]] = image[t]]
                 /\ UNCHANGED <<cache, heap, gone>>
        <4>1. /\ obj[t] = cache[on[t]] /\ cache[on[t]] # NoObject
              /\ image[t] \subseteq heap[cache[on[t]]]
              /\ on[t] \notin gone => disk[on[t]] \subseteq image[t]
          BY <3>2 DEF Held, InHand, Writes
        <4>2. now' = now /\ now[on[t]] = heap[cache[on[t]]]
          <5>1. ASSUME NEW s \in Streams, cache[s] = NoObject PROVE disk'[s] = disk[s]
            BY <3>2, <4>1, <5>1 DEF TypeOK
          <5> QED BY <3>2, <4>1, <5>1, <2>a
        <4> HIDE DEF now
        <4>3. Store!Keep(on[t])
          BY <3>2, <4>1, <4>2 DEF Store!Keep, now
        <4> QED BY <4>3, <2>a DEF Store!Next
      <3> QED BY <2>4, <3>1, <3>2 DEF Write, Written, WriteFails, Cancel, store, task
    <2>5. CASE Turn(t)
      <3>1. obj[t] = cache[on[t]] /\ cache[on[t]] # NoObject
        BY <2>5 DEF Turn, Held, InHand
      <3>2. heap' = [heap EXCEPT ![cache[on[t]]] = heap[cache[on[t]]] \cup {t}]
            /\ UNCHANGED <<cache, disk, gone>>
        BY <2>5, <3>1 DEF Turn
      <3>3. now' = [now EXCEPT ![on[t]] = now[on[t]] \cup {t}]
        <4>1. now'[on[t]] = now[on[t]] \cup {t}
          BY <3>1, <3>2, <2>a DEF TypeOK
        <4>2. ASSUME NEW s \in Streams, s # on[t] PROVE now'[s] = now[s]
          <5>1. cache[s] # NoObject => cache[s] # cache[on[t]]
            BY <3>1, <4>2, <2>a DEF Owned
          <5> QED BY <3>2, <5>1 DEF TypeOK
        <4> QED BY <4>1, <4>2, <2>a
      <3> HIDE DEF now
      <3>4. Store!Change(on[t], t)
        BY <3>2, <3>3 DEF Store!Change, now
      <3> QED BY <3>4, <2>a DEF Store!Next
    <2> QED BY <1>3, <2>1, <2>2, <2>3, <2>4, <2>5 DEF TaskStep
  <1> QED BY <1>1, <1>2, <1>3 DEF Next

\* Readers and writers of one session, in any order and with restarts, see what
\* the archive promises.
THEOREM ImplementsArchive == ~ManyLocks => (Spec => ArchiveSpec)
  <1> SUFFICES ASSUME ~ManyLocks PROVE Spec => ArchiveSpec
    OBVIOUS
  <1>1. Spec => []IInv
    BY Invariance
  <1>2. Init => Store!Init
    BY InitRefines
  <1>3. IInv /\ [Next]_vars => [Store!Next]_Store!vars
    BY StepRefines
  <1> QED BY <1>1, <1>2, <1>3, PTL DEF Spec, ArchiveSpec, Store!Spec
=============================================================================
