------------------------ MODULE MemoryManagerProofs ------------------------
(***************************************************************************)
(* Proofs about MemoryManager for any number of threads, cells and shards. *)
(*                                                                         *)
(* The properties are not inductive by themselves: between two assignments *)
(* of a critical section the links of one shard are inconsistent. IInv     *)
(* says how. Back(x) is what prev[x] will be when the section that runs    *)
(* has ended; with Back in the place of prev the lists are well formed at  *)
(* every step.                                                             *)
(***************************************************************************)
EXTENDS MemoryManager, TLAPS

Critical == {"pinNext", "pinPrev", "pinHead", "pinUnlock",
             "unpinPrev", "unpinNext", "unpinUnlock"}

(* The running calls, the addresses that Envoy holds and the heap. *)
Calls ==
  \A t \in Threads :
     /\ pc[t] = "envoy" <=> item[t] = nil
     /\ item[t] # nil => item[t] \in live
     /\ held[t] \subseteq live
     /\ pc[t] = "hook" => item[t] \in held[t]
     /\ \A u \in Threads :
           /\ pc[t] \in PinSteps \cup UnpinSteps => item[t] \notin held[u]
           /\ t # u => held[t] \cap held[u] = {}
           /\ t # u /\ item[t] # nil => item[t] # item[u]

(* A mutex is held by the one thread that is in a critical section of its  *)
(* shard.                                                                  *)
Mutexes ==
  \A s \in Shards, t \in Threads :
     httpFilterListsMuxes[s] = t <=> pc[t] \in Critical /\ ShardOf[item[t]] = s

Writer(x, where) ==
  LET h == httpFilterListsMuxes[ShardOf[x]]
  IN  h # nil /\ pc[h] = where /\ prev[x] = item[h]

Back(x) ==
  IF Writer(x, "pinHead") THEN nil
  ELSE IF Writer(x, "unpinNext") THEN prev[prev[x]]
  ELSE prev[x]

(* The list of shard s: closed, connected, and Back inverts next. *)
ListOK(s) ==
  /\ httpFilterLists[s] \in PinnedIn(s) \cup {nil}
  /\ \A x \in PinnedIn(s) : next[x] \in PinnedIn(s) \cup {nil}
  /\ \A x \in PinnedIn(s), S \in SUBSET Items : Leads(s, S) => x \in S
  /\ httpFilterLists[s] # nil => Back(httpFilterLists[s]) = nil
  /\ \A x \in PinnedIn(s) :
        /\ Back(x) = nil => httpFilterLists[s] = x
        /\ Back(x) # nil => Back(x) \in PinnedIn(s) /\ next[Back(x)] = x
        /\ next[x] # nil => Back(next[x]) = x

(* The links of the item that a running call is about. *)
LocalOK(t) ==
  /\ pc[t] \in {"pinLock", "pinNext", "pinPrev", "pinHead"} => prev[item[t]] = nil
  /\ pc[t] \in {"pinLock", "pinNext"} => next[item[t]] = nil
  /\ pc[t] \in {"pinPrev", "pinHead"} => next[item[t]] = head(t)
  /\ pc[t] = "pinHead" /\ head(t) # nil => prev[head(t)] = item[t]
  /\ pc[t] \in {"unpinNext", "unpinUnlock"} =>
        /\ next[item[t]] \in PinnedIn(index(t)) \cup {nil}
        /\ prev[item[t]] \in PinnedIn(index(t)) \cup {nil}
  /\ pc[t] = "unpinNext" =>
        /\ next[item[t]] # nil => prev[next[item[t]]] = item[t]
        /\ \A x \in PinnedIn(index(t)) : prev[x] = item[t] => x = next[item[t]]

FreeCells == \A x \in Items \ live : next[x] = nil /\ prev[x] = nil

IInv ==
  /\ TypeOK
  /\ Calls
  /\ Mutexes
  /\ \A s \in Shards : ListOK(s)
  /\ \A t \in Threads : LocalOK(t)
  /\ FreeCells
-----------------------------------------------------------------------------
(* A thread that is inside the module works on an allocated cell. *)
LEMMA Running ==
  ASSUME TypeOK, Calls, NEW t \in Threads, pc[t] # "envoy"
  PROVE  /\ item[t] \in Items
         /\ item[t] \in live
         /\ index(t) \in Shards
         /\ head(t) \in Null
BY ShardAssumption DEF TypeOK, Calls, Null, index, head

(* Type correctness: the links, the list heads and the mutexes only ever   *)
(* hold cells, nil and threads.                                            *)
LEMMA TypeStep == TypeOK /\ Calls /\ [Next]_vars => TypeOK'
<1> SUFFICES ASSUME TypeOK, Calls, [Next]_vars PROVE TypeOK'
  OBVIOUS
<1> USE DEF TypeOK, Null, PinSteps, UnpinSteps, Step, links
<1>1. ASSUME NEW t \in Threads, NEW x \in Items, FilterNew(t, x) PROVE TypeOK'
  BY <1>1 DEF FilterNew
<1>2. ASSUME NEW t \in Threads, NEW x \in Items, HookCall(t, x) PROVE TypeOK'
  BY <1>2 DEF HookCall
<1>3. ASSUME NEW t \in Threads, NEW x \in Items, FilterDestroy(t, x) PROVE TypeOK'
  BY <1>3 DEF FilterDestroy
<1>4. ASSUME NEW t \in Threads, HookReturn(t) PROVE TypeOK'
  BY <1>4 DEF HookReturn
<1>5. ASSUME NEW t \in Threads, Locking(t) PROVE TypeOK'
  BY <1>5 DEF Locking, PinLock, UnpinLock, Lock
<1>6. ASSUME NEW t \in Threads, PinNext(t) PROVE TypeOK'
  BY <1>6, Running DEF PinNext
<1>7. ASSUME NEW t \in Threads, PinPrev(t) PROVE TypeOK'
  BY <1>7, Running DEF PinPrev
<1>8. ASSUME NEW t \in Threads, PinHead(t) PROVE TypeOK'
  BY <1>8, Running DEF PinHead
<1>9. ASSUME NEW t \in Threads, PinUnlock(t) PROVE TypeOK'
  BY <1>9, Running DEF PinUnlock
<1>10. ASSUME NEW t \in Threads, UnpinPrev(t) PROVE TypeOK'
  BY <1>10, Running DEF UnpinPrev
<1>11. ASSUME NEW t \in Threads, UnpinNext(t) PROVE TypeOK'
  BY <1>11, Running DEF UnpinNext
<1>12. ASSUME NEW t \in Threads, UnpinUnlock(t) PROVE TypeOK'
  BY <1>12 DEF UnpinUnlock
<1>13. ASSUME NEW x \in Items, Collect(x) PROVE TypeOK'
  BY <1>13 DEF Collect
<1>14. CASE UNCHANGED vars
  BY <1>14 DEF vars
<1> QED
  BY <1>1, <1>2, <1>3, <1>4, <1>5, <1>6, <1>7, <1>8, <1>9, <1>10, <1>11,
     <1>12, <1>13, <1>14 DEF Next, Pinning, Unpinning

(* What the garbage collector may take is neither in a list nor in use by  *)
(* a running call, because the roots lead to all of these.                 *)
LEMMA GarbageUnused ==
  ASSUME TypeOK, Calls, \A s \in Shards : ListOK(s), NEW x \in Items, Garbage(x)
  PROVE  /\ \A s \in Shards : x \notin PinnedIn(s)
         /\ \A t \in Threads : item[t] # x /\ x \notin held[t]
<1>1. PICK S \in SUBSET Items :
         /\ x \notin S
         /\ Roots \subseteq S
         /\ \A y \in S : next[y] \in S \cup {nil} /\ prev[y] \in S \cup {nil}
  BY DEF Garbage
<1>2. \A s \in Shards : Leads(s, S)
  BY <1>1 DEF Leads, Roots
<1>3. \A s \in Shards : x \notin PinnedIn(s)
  BY <1>1, <1>2 DEF ListOK
<1>4. ASSUME NEW t \in Threads PROVE item[t] # x
  BY <1>1, <1>4, NilAssumption DEF Roots
<1>5. ASSUME NEW t \in Threads PROVE x \notin held[t]
  BY <1>3, ShardAssumption DEF PinnedIn, Pinned
<1> QED
  BY <1>3, <1>4, <1>5

(* The bookkeeping of the calls: a cell is handled by one call at a time,  *)
(* and what Envoy holds stays on the heap.                                 *)
LEMMA CallsStep == IInv /\ [Next]_vars => Calls'
<1> SUFFICES ASSUME IInv, [Next]_vars PROVE Calls'
  OBVIOUS
<1> USE NilAssumption DEF IInv, TypeOK, Calls, Null, PinSteps, UnpinSteps, Step, links
<1>1. ASSUME NEW t \in Threads, NEW x \in Items, FilterNew(t, x) PROVE Calls'
  BY <1>1 DEF FilterNew
<1>2. ASSUME NEW t \in Threads, NEW x \in Items, HookCall(t, x) PROVE Calls'
  BY <1>2 DEF HookCall
<1>3. ASSUME NEW t \in Threads, NEW x \in Items, FilterDestroy(t, x) PROVE Calls'
  BY <1>3 DEF FilterDestroy
<1>4. ASSUME NEW t \in Threads, HookReturn(t) PROVE Calls'
  BY <1>4 DEF HookReturn
<1>5. ASSUME NEW t \in Threads, Locking(t) PROVE Calls'
  BY <1>5 DEF Locking, PinLock, UnpinLock, Lock
<1>6. ASSUME NEW t \in Threads, PinNext(t) PROVE Calls'
  BY <1>6 DEF PinNext
<1>7. ASSUME NEW t \in Threads, PinPrev(t) PROVE Calls'
  BY <1>7 DEF PinPrev
<1>8. ASSUME NEW t \in Threads, PinHead(t) PROVE Calls'
  BY <1>8 DEF PinHead
<1>9. ASSUME NEW t \in Threads, PinUnlock(t) PROVE Calls'
  BY <1>9 DEF PinUnlock
<1>10. ASSUME NEW t \in Threads, UnpinPrev(t) PROVE Calls'
  BY <1>10 DEF UnpinPrev
<1>11. ASSUME NEW t \in Threads, UnpinNext(t) PROVE Calls'
  BY <1>11 DEF UnpinNext
<1>12. ASSUME NEW t \in Threads, UnpinUnlock(t) PROVE Calls'
  BY <1>12 DEF UnpinUnlock
<1>13. ASSUME NEW x \in Items, Collect(x) PROVE Calls'
  BY <1>13, GarbageUnused DEF Collect
<1>14. CASE UNCHANGED vars
  BY <1>14 DEF vars
<1> QED
  BY <1>1, <1>2, <1>3, <1>4, <1>5, <1>6, <1>7, <1>8, <1>9, <1>10, <1>11,
     <1>12, <1>13, <1>14 DEF Next, Pinning, Unpinning

(* Mutual exclusion in every shard. *)
LEMMA MutexStep == IInv /\ [Next]_vars => Mutexes'
<1> SUFFICES ASSUME IInv, [Next]_vars PROVE Mutexes'
  OBVIOUS
<1> USE NilAssumption, ShardAssumption
    DEF IInv, TypeOK, Calls, Mutexes, Null, Critical, PinSteps, UnpinSteps, Step, links, index
<1>1. ASSUME NEW t \in Threads, NEW x \in Items, FilterNew(t, x) PROVE Mutexes'
  BY <1>1 DEF FilterNew
<1>2. ASSUME NEW t \in Threads, NEW x \in Items, HookCall(t, x) PROVE Mutexes'
  BY <1>2 DEF HookCall
<1>3. ASSUME NEW t \in Threads, NEW x \in Items, FilterDestroy(t, x) PROVE Mutexes'
  BY <1>3 DEF FilterDestroy
<1>4. ASSUME NEW t \in Threads, HookReturn(t) PROVE Mutexes'
  BY <1>4 DEF HookReturn
<1>5. ASSUME NEW t \in Threads, Locking(t) PROVE Mutexes'
  BY <1>5 DEF Locking, PinLock, UnpinLock, Lock
<1>6. ASSUME NEW t \in Threads, PinNext(t) PROVE Mutexes'
  BY <1>6 DEF PinNext
<1>7. ASSUME NEW t \in Threads, PinPrev(t) PROVE Mutexes'
  BY <1>7 DEF PinPrev
<1>8. ASSUME NEW t \in Threads, PinHead(t) PROVE Mutexes'
  BY <1>8 DEF PinHead
<1>9. ASSUME NEW t \in Threads, PinUnlock(t) PROVE Mutexes'
  BY <1>9 DEF PinUnlock
<1>10. ASSUME NEW t \in Threads, UnpinPrev(t) PROVE Mutexes'
  BY <1>10 DEF UnpinPrev
<1>11. ASSUME NEW t \in Threads, UnpinNext(t) PROVE Mutexes'
  BY <1>11 DEF UnpinNext
<1>12. ASSUME NEW t \in Threads, UnpinUnlock(t) PROVE Mutexes'
  BY <1>12 DEF UnpinUnlock
<1>13. ASSUME NEW x \in Items, Collect(x) PROVE Mutexes'
  BY <1>13 DEF Collect
<1>14. CASE UNCHANGED vars
  BY <1>14 DEF vars
<1> QED
  BY <1>1, <1>2, <1>3, <1>4, <1>5, <1>6, <1>7, <1>8, <1>9, <1>10, <1>11,
     <1>12, <1>13, <1>14 DEF Next, Pinning, Unpinning

(* What Back is, once it is known who holds the mutex of the shard. *)
LEMMA BackOf ==
  ASSUME IInv, NEW x \in Items
  PROVE  /\ httpFilterListsMuxes[ShardOf[x]] = nil => Back(x) = prev[x]
         /\ \A t \in Threads :
               pc[t] \in Critical /\ index(t) = ShardOf[x] =>
                 Back(x) = IF prev[x] = item[t] /\ pc[t] = "pinHead" THEN nil
                           ELSE IF prev[x] = item[t] /\ pc[t] = "unpinNext" THEN prev[item[t]]
                           ELSE prev[x]
BY ShardAssumption, NilAssumption DEF IInv, Mutexes, Back, Writer, index

(* A step that touches neither the prev links it reads nor the thread in   *)
(* the critical section leaves Back as it is.                              *)
LEMMA BackFrame ==
  ASSUME NEW x \in Items, NEW h, h = httpFilterListsMuxes[ShardOf[x]],
         httpFilterListsMuxes'[ShardOf[x]] = h,
         prev'[x] = prev[x],
         h # nil => /\ pc'[h] = pc[h]
                    /\ item'[h] = item[h]
                    /\ prev'[item[h]] = prev[item[h]]
  PROVE  Back(x)' = Back(x)
BY DEF Back, Writer

(* The items of a well-formed list are allocated; the links of the items   *)
(* that a critical section is about to follow lead to pinned items.        *)
LEMMA Reach ==
  ASSUME IInv
  PROVE  /\ \A s \in Shards : PinnedIn(s) \subseteq live
         /\ \A t \in Threads :
               /\ pc[t] # "envoy" => head(t) \in PinnedIn(index(t)) \cup {nil}
               /\ pc[t] = "unpinPrev" =>
                     /\ item[t] \in PinnedIn(index(t))
                     /\ next[item[t]] \in PinnedIn(index(t)) \cup {nil}
                     /\ prev[item[t]] \in PinnedIn(index(t)) \cup {nil}
               /\ pc[t] \in PinSteps \ {"pinUnlock"} => item[t] \notin PinnedIn(index(t))
               /\ pc[t] \in {"unpinNext", "unpinUnlock"} => item[t] \notin PinnedIn(index(t))
<1> USE ShardAssumption, NilAssumption DEF IInv
<1>1. \A s \in Shards : PinnedIn(s) \subseteq live
  BY DEF PinnedIn, Pinned, Busy, Calls, TypeOK
<1>2. ASSUME NEW t \in Threads, pc[t] # "envoy"
      PROVE  head(t) \in PinnedIn(index(t)) \cup {nil}
  BY <1>2, Running DEF ListOK, head
<1>3. ASSUME NEW t \in Threads, pc[t] = "unpinPrev"
      PROVE  /\ item[t] \in PinnedIn(index(t))
             /\ next[item[t]] \in PinnedIn(index(t)) \cup {nil}
             /\ prev[item[t]] \in PinnedIn(index(t)) \cup {nil}
  <2>1. item[t] \in PinnedIn(index(t))
    BY <1>3, Running DEF PinnedIn, Pinned, Busy, index
  <2>2. Back(item[t]) = prev[item[t]]
    BY <1>3, BackOf, Running DEF Critical, index
  <2> QED
    BY <1>3, <2>1, <2>2, Running DEF ListOK
<1>4. ASSUME NEW t \in Threads,
             pc[t] \in (PinSteps \ {"pinUnlock"}) \cup {"unpinNext", "unpinUnlock"}
      PROVE  item[t] \notin PinnedIn(index(t))
  BY <1>4 DEF PinnedIn, Pinned, Busy, Calls, PinSteps, UnpinSteps
<1> QED
  BY <1>1, <1>2, <1>3, <1>4

(* A free cell carries no links from its former use. *)
LEMMA FreeStep == IInv /\ [Next]_vars => FreeCells'
<1> SUFFICES ASSUME IInv, [Next]_vars PROVE FreeCells'
  OBVIOUS
<1> USE NilAssumption, ShardAssumption
    DEF IInv, TypeOK, FreeCells, Null, Step, links
<1>1. ASSUME NEW t \in Threads, NEW x \in Items,
             FilterNew(t, x) \/ HookCall(t, x) \/ FilterDestroy(t, x)
      PROVE  FreeCells'
  BY <1>1 DEF FilterNew, HookCall, FilterDestroy
<1>2. ASSUME NEW t \in Threads,
             HookReturn(t) \/ Locking(t) \/ PinHead(t) \/ PinUnlock(t) \/ UnpinUnlock(t)
      PROVE  FreeCells'
  BY <1>2 DEF HookReturn, Locking, PinLock, UnpinLock, Lock, PinHead, PinUnlock, UnpinUnlock
<1>3. ASSUME NEW t \in Threads, PinNext(t) PROVE FreeCells'
  BY <1>3, Running DEF PinNext
<1>4. ASSUME NEW t \in Threads, PinPrev(t) PROVE FreeCells'
  BY <1>4, Running, Reach DEF PinPrev
<1>5. ASSUME NEW t \in Threads, UnpinPrev(t) PROVE FreeCells'
  BY <1>5, Running, Reach DEF UnpinPrev
<1>6. ASSUME NEW t \in Threads, UnpinNext(t) PROVE FreeCells'
  BY <1>6, Running, Reach DEF UnpinNext, LocalOK
<1>7. ASSUME NEW x \in Items, Collect(x) PROVE FreeCells'
  BY <1>7 DEF Collect
<1>8. CASE UNCHANGED vars
  BY <1>8 DEF vars
<1> QED
  BY <1>1, <1>2, <1>3, <1>4, <1>5, <1>6, <1>7, <1>8 DEF Next, Pinning, Unpinning

(* A shard whose items, head, next links and Back are as before is as well *)
(* formed as before.                                                       *)
LEMMA ListFrame ==
  ASSUME TypeOK, NEW s \in Shards, ListOK(s),
         PinnedIn(s)' = PinnedIn(s),
         httpFilterLists'[s] = httpFilterLists[s],
         \A x \in PinnedIn(s) : next'[x] = next[x] /\ Back(x)' = Back(x)
  PROVE  ListOK(s)'
<1>1. PinnedIn(s) \subseteq Items
  BY DEF PinnedIn
<1>2. ASSUME NEW x \in PinnedIn(s), NEW S \in SUBSET Items, Leads(s, S)' PROVE x \in S
  <2>1. Leads(s, S \cap PinnedIn(s))
    BY <1>1, <1>2 DEF Leads, ListOK
  <2> QED
    BY <1>1, <2>1 DEF ListOK
<1>3. /\ httpFilterLists'[s] \in PinnedIn(s)' \cup {nil}
      /\ \A x \in PinnedIn(s)' : next'[x] \in PinnedIn(s)' \cup {nil}
  BY DEF ListOK
<1>4. httpFilterLists'[s] # nil => Back(httpFilterLists[s])' = nil
  BY DEF ListOK
<1>5. ASSUME NEW x \in PinnedIn(s)
      PROVE  /\ Back(x)' = nil => httpFilterLists'[s] = x
             /\ Back(x)' # nil => Back(x)' \in PinnedIn(s)' /\ next'[Back(x)'] = x
             /\ next'[x] # nil => Back(next[x])' = x
  BY <1>5 DEF ListOK
<1> QED
  BY <1>2, <1>3, <1>4, <1>5 DEF ListOK

(* The steps that write no link and no head of a list. *)
LEMMA ListQuiet ==
  ASSUME IInv, NEW t \in Threads,
         \/ \E x \in Items : FilterNew(t, x) \/ HookCall(t, x) \/ FilterDestroy(t, x)
         \/ HookReturn(t) \/ Locking(t) \/ PinUnlock(t) \/ UnpinUnlock(t)
  PROVE  \A s \in Shards : PinnedIn(s)' = PinnedIn(s) /\ ListOK(s)'
<1> USE NilAssumption, ShardAssumption DEF PinSteps, UnpinSteps, Step, links
<1>1. UNCHANGED <<next, prev, httpFilterLists>>
  BY DEF FilterNew, HookCall, FilterDestroy, HookReturn, Locking, PinLock, UnpinLock,
         Lock, PinUnlock, UnpinUnlock
<1>2. ASSUME NEW s \in Shards PROVE PinnedIn(s)' = PinnedIn(s)
  <2> USE DEF IInv, TypeOK, Calls, Null, PinnedIn, Pinned, Busy
  <2>1. CASE \E x \in Items : FilterNew(t, x)
    BY <2>1 DEF FilterNew
  <2>2. CASE \E x \in Items : HookCall(t, x)
    BY <2>2 DEF HookCall
  <2>3. CASE \E x \in Items : FilterDestroy(t, x)
    BY <2>3 DEF FilterDestroy
  <2>4. CASE HookReturn(t)
    BY <2>4 DEF HookReturn
  <2>5. CASE Locking(t)
    BY <2>5 DEF Locking, PinLock, UnpinLock, Lock
  <2>6. CASE PinUnlock(t)
    BY <2>6 DEF PinUnlock
  <2>7. CASE UnpinUnlock(t)
    BY <2>7 DEF UnpinUnlock
  <2> QED
    BY <2>1, <2>2, <2>3, <2>4, <2>5, <2>6, <2>7
<1>3. ASSUME NEW x \in Items PROVE Back(x)' = Back(x)
  <2> USE DEF IInv, TypeOK, Calls, Mutexes, Critical, Null, Back, Writer
  <2>1. CASE \E y \in Items : FilterNew(t, y) \/ HookCall(t, y) \/ FilterDestroy(t, y)
    BY <1>1, <2>1 DEF FilterNew, HookCall, FilterDestroy
  <2>2. CASE HookReturn(t)
    BY <1>1, <2>2 DEF HookReturn
  <2>3. CASE Locking(t)
    BY <1>1, <2>3 DEF Locking, PinLock, UnpinLock, Lock, index
  <2>4. CASE PinUnlock(t) \/ UnpinUnlock(t)
    BY <1>1, <2>4 DEF PinUnlock, UnpinUnlock, index
  <2> QED
    BY <2>1, <2>2, <2>3, <2>4
<1> QED
  BY <1>1, <1>2, <1>3, ListFrame DEF IInv, PinnedIn

(* A step of the critical section of one shard leaves the other shards     *)
(* alone: the links that it writes belong to cells of its own shard.       *)
LEMMA OtherShards ==
  ASSUME IInv, NEW t \in Threads, Pinning(t) \/ Unpinning(t),
         NEW s \in Shards, s # index(t)
  PROVE  /\ PinnedIn(s)' = PinnedIn(s)
         /\ ListOK(s)'
         /\ httpFilterLists'[s] = httpFilterLists[s]
         /\ \A x \in Items : ShardOf[x] = s => next'[x] = next[x] /\ prev'[x] = prev[x]
<1> USE NilAssumption, ShardAssumption DEF PinSteps, UnpinSteps, Step, links
<1>1. pc[t] \in Critical /\ item[t] \in Items
  BY Running DEF IInv, Pinning, Unpinning, PinNext, PinPrev, PinHead, PinUnlock,
     UnpinPrev, UnpinNext, UnpinUnlock, Critical
<1>2. PinnedIn(s)' = PinnedIn(s)
  BY <1>1 DEF IInv, TypeOK, Calls, PinnedIn, Pinned, Busy, Pinning, Unpinning, PinNext,
     PinPrev, PinHead, PinUnlock, UnpinPrev, UnpinNext, UnpinUnlock, index
<1>3. /\ httpFilterLists'[s] = httpFilterLists[s]
      /\ httpFilterListsMuxes'[s] = httpFilterListsMuxes[s]
  BY <1>1 DEF IInv, TypeOK, Pinning, Unpinning, PinNext,
     PinPrev, PinHead, PinUnlock, UnpinPrev, UnpinNext, UnpinUnlock, index
<1>4. ASSUME NEW x \in Items, ShardOf[x] = s
      PROVE  next'[x] = next[x] /\ prev'[x] = prev[x]
  <2>1. CASE PinNext(t)
    BY <1>1, <1>4, <2>1 DEF PinNext, index, IInv, TypeOK
  <2>2. CASE PinPrev(t)
    BY <1>1, <1>4, <2>2, Reach DEF PinPrev, index, IInv, TypeOK, PinnedIn
  <2>3. CASE UnpinPrev(t)
    BY <1>1, <1>4, <2>3, Reach DEF UnpinPrev, index, IInv, TypeOK, PinnedIn
  <2>4. CASE UnpinNext(t)
    BY <1>1, <1>4, <2>4 DEF UnpinNext, index, IInv, TypeOK, PinnedIn, LocalOK
  <2>5. CASE PinHead(t) \/ PinUnlock(t) \/ UnpinUnlock(t)
    BY <2>5 DEF PinHead, PinUnlock, UnpinUnlock
  <2> QED
    BY <2>1, <2>2, <2>3, <2>4, <2>5 DEF Pinning, Unpinning
<1>5. ASSUME NEW x \in Items, ShardOf[x] = s PROVE Back(x)' = Back(x)
  <2> DEFINE h == httpFilterListsMuxes[s]
  <2>1. h # nil => /\ h \in Threads
                   /\ h # t
                   /\ item[h] \in Items
                   /\ ShardOf[item[h]] = s
    BY <1>1, Running DEF IInv, TypeOK, Mutexes, Critical, index
  <2>2. h # nil => /\ pc'[h] = pc[h]
                   /\ item'[h] = item[h]
                   /\ prev'[item[h]] = prev[item[h]]
    BY <1>4, <2>1 DEF IInv, TypeOK, Pinning, Unpinning, PinNext,
       PinPrev, PinHead, PinUnlock, UnpinPrev, UnpinNext, UnpinUnlock
  <2> QED
    BY <1>3, <1>4, <1>5, <2>2 DEF Back, Writer
<1> QED
  BY <1>2, <1>3, <1>4, <1>5, ListFrame DEF IInv, PinnedIn

(* The steps of pinHttpFilter in their own shard. Only the write of the    *)
(* head changes the list; the two writes before it prepare it.             *)
LEMMA PinNextList ==
  ASSUME IInv, NEW t \in Threads, PinNext(t), NEW s \in Shards, s = index(t)
  PROVE  PinnedIn(s)' = PinnedIn(s) /\ ListOK(s)'
<1> USE NilAssumption, ShardAssumption DEF PinSteps, UnpinSteps, Step, links, PinNext
<1>1. item[t] \in Items /\ item[t] \notin PinnedIn(s)
  BY Running, Reach DEF IInv
<1>2. PinnedIn(s)' = PinnedIn(s)
  BY DEF IInv, TypeOK, PinnedIn, Pinned, Busy
<1>3. httpFilterListsMuxes[s] = t
  BY <1>1 DEF IInv, Mutexes, Critical, index
<1>4. ASSUME NEW x \in PinnedIn(s) PROVE next'[x] = next[x] /\ Back(x)' = Back(x)
  BY <1>1, <1>3, <1>4 DEF IInv, TypeOK, PinnedIn, Back, Writer
<1> QED
  BY <1>2, <1>4, ListFrame DEF IInv

(* The back link of the old head leads to the new item before the head does. *)
LEMMA PinPrevList ==
  ASSUME IInv, NEW t \in Threads, PinPrev(t), NEW s \in Shards, s = index(t)
  PROVE  PinnedIn(s)' = PinnedIn(s) /\ ListOK(s)'
<1> USE NilAssumption, ShardAssumption DEF PinSteps, UnpinSteps, Step, links, PinPrev
<1>1. item[t] \in Items /\ item[t] \notin PinnedIn(s)
  BY Running, Reach DEF IInv
<1>2. PinnedIn(s)' = PinnedIn(s)
  BY DEF IInv, TypeOK, PinnedIn, Pinned, Busy
<1>3. httpFilterListsMuxes[s] = t
  BY <1>1 DEF IInv, Mutexes, Critical, index
<1>4. ASSUME NEW x \in PinnedIn(s) PROVE Back(x)' = Back(x)
  <2>1. x \in Items /\ ShardOf[x] = s
    BY <1>4 DEF PinnedIn
  <2>2. Back(x) = prev[x]
    BY <1>3, <2>1 DEF Back, Writer
  <2>3. prev[x] # item[t]
    BY <1>1, <1>4, <2>2 DEF IInv, ListOK
  <2>4. Back(x)' = IF prev'[x] = item[t] THEN nil ELSE prev'[x]
    BY <1>3, <2>1 DEF Back, Writer, IInv, TypeOK
  <2>5. prev'[x] = IF x = head(t) THEN item[t] ELSE prev[x]
    BY <1>1, <2>1 DEF IInv, TypeOK, Null
  <2>6. x = head(t) => Back(x) = nil
    BY <1>4, <2>1 DEF head, IInv, ListOK
  <2> QED
    BY <2>2, <2>3, <2>4, <2>5, <2>6
<1> QED
  BY <1>2, <1>4, ListFrame DEF IInv

(* The new head makes the item a member of the list, in front of the others. *)
LEMMA PinHeadList ==
  ASSUME IInv, NEW t \in Threads, PinHead(t), NEW s \in Shards, s = index(t)
  PROVE  /\ PinnedIn(s)' = PinnedIn(s) \cup {item[t]}
         /\ ListOK(s)'
<1> USE NilAssumption, ShardAssumption DEF PinSteps, UnpinSteps, Step, links, PinHead
<1>1. /\ item[t] \in Items /\ ShardOf[item[t]] = s /\ item[t] \notin PinnedIn(s)
      /\ httpFilterLists[s] \in PinnedIn(s) \cup {nil}
  BY Running, Reach DEF IInv, index, head
<1>2. PinnedIn(s)' = PinnedIn(s) \cup {item[t]}
  BY <1>1 DEF IInv, TypeOK, PinnedIn, Pinned, Busy
<1>3. httpFilterListsMuxes[s] = t
  BY <1>1 DEF IInv, Mutexes, Critical, index
<1>4. /\ prev[item[t]] = nil
      /\ next[item[t]] = httpFilterLists[s]
      /\ httpFilterLists[s] # nil => prev[httpFilterLists[s]] = item[t]
  BY DEF IInv, LocalOK, head
<1>5. /\ httpFilterLists'[s] = item[t]
      /\ next' = next /\ prev' = prev
  BY DEF IInv, TypeOK
<1>6. ASSUME NEW x \in PinnedIn(s) \cup {item[t]} PROVE Back(x)' = prev[x]
  BY <1>1, <1>3, <1>5, <1>6 DEF Back, Writer, IInv, TypeOK, PinnedIn
<1>7. ASSUME NEW x \in PinnedIn(s)
      PROVE  Back(x) = IF prev[x] = item[t] THEN nil ELSE prev[x]
  BY <1>3, <1>7 DEF Back, Writer, PinnedIn
<1>8. ASSUME NEW x \in PinnedIn(s)', NEW S \in SUBSET Items, Leads(s, S)' PROVE x \in S
  <2>1. item[t] \in S
    BY <1>1, <1>5, <1>8 DEF Leads
  <2>2. Leads(s, S)
    BY <1>4, <1>5, <1>8, <2>1 DEF Leads
  <2> QED
    BY <1>2, <1>8, <2>1, <2>2 DEF IInv, ListOK
<1>9. \A x \in PinnedIn(s)' : next'[x] \in PinnedIn(s)' \cup {nil}
  BY <1>1, <1>2, <1>4, <1>5 DEF IInv, ListOK
<1>10. ASSUME NEW x \in PinnedIn(s)'
       PROVE  /\ Back(x)' = nil => httpFilterLists'[s] = x
              /\ Back(x)' # nil => Back(x)' \in PinnedIn(s)' /\ next'[Back(x)'] = x
              /\ next'[x] # nil => Back(next[x])' = x
  <2>1. CASE x = item[t]
    BY <1>1, <1>2, <1>4, <1>5, <1>6, <2>1 DEF IInv, ListOK
  <2>2. CASE x \in PinnedIn(s) /\ prev[x] = item[t]
    <3>1. x = httpFilterLists[s]
      BY <1>7, <2>2 DEF IInv, ListOK
    <3>2. next[x] \in PinnedIn(s) \cup {nil}
      BY <2>2 DEF IInv, ListOK
    <3>3. next[x] # nil => Back(next[x]) = x
      BY <2>2 DEF IInv, ListOK
    <3>4. next[x] # nil => prev[next[x]] = x
      BY <1>1, <1>7, <2>2, <3>2, <3>3, x # nil DEF PinnedIn
    <3> QED
      BY <1>1, <1>2, <1>4, <1>5, <1>6, <2>2, <3>1, <3>2, <3>4
  <2>3. CASE x \in PinnedIn(s) /\ prev[x] # item[t]
    <3>1. next[x] \in PinnedIn(s) \cup {nil}
      BY <2>3 DEF IInv, ListOK
    <3>2. next[x] # nil => prev[next[x]] = x
      BY <1>1, <1>7, <2>3, <3>1 DEF IInv, ListOK, PinnedIn
    <3>3. Back(x) = prev[x]
      BY <1>7, <2>3
    <3>4. prev[x] # nil
      BY <1>1, <1>4, <2>3, <3>3 DEF IInv, ListOK, PinnedIn
    <3> QED
      BY <1>2, <1>5, <1>6, <2>3, <3>1, <3>2, <3>3, <3>4 DEF IInv, ListOK
  <2> QED
    BY <1>2, <2>1, <2>2, <2>3
<1>11. /\ httpFilterLists'[s] \in PinnedIn(s)'
       /\ Back(httpFilterLists[s])' = nil
  BY <1>2, <1>4, <1>5, <1>6
<1> QED
  BY <1>2, <1>8, <1>9, <1>10, <1>11 DEF ListOK

(* An item of a list is not its own neighbour: the others would lead past  *)
(* it.                                                                     *)
LEMMA NoSelfLoop ==
  ASSUME TypeOK, NEW s \in Shards, ListOK(s), NEW x \in PinnedIn(s)
  PROVE  next[x] # x
<1> SUFFICES ASSUME next[x] = x PROVE FALSE
  OBVIOUS
<1>1. x # nil /\ PinnedIn(s) \subseteq Items
  BY NilAssumption DEF PinnedIn
<1>2. Back(x) = x
  BY <1>1 DEF ListOK
<1>3. Leads(s, PinnedIn(s) \ {x})
  BY <1>1, <1>2 DEF Leads, ListOK
<1> QED
  BY <1>1, <1>3 DEF ListOK

(* The steps of unpinHttpFilter in their own shard. The first write takes  *)
(* the item out of the list, the second one repairs prev of its successor. *)
LEMMA UnpinPrevList ==
  ASSUME IInv, NEW t \in Threads, UnpinPrev(t), NEW s \in Shards, s = index(t)
  PROVE  /\ PinnedIn(s)' = PinnedIn(s) \ {item[t]}
         /\ ListOK(s)'
         /\ LocalOK(t)'
<1> USE NilAssumption, ShardAssumption
<1>. PICK i, p, n, P : i = item[t] /\ p = prev[i] /\ n = next[i] /\ P = PinnedIn(s)
  OBVIOUS
<1>1. /\ i \in Items /\ i \in P /\ i # nil
      /\ p \in P \cup {nil}
      /\ n \in P \cup {nil}
      /\ P \subseteq Items /\ nil \notin P
  BY Running, Reach DEF IInv, UnpinPrev, Step, PinnedIn
<1>2. httpFilterListsMuxes[s] = t /\ pc[t] = "unpinPrev"
  BY <1>1 DEF IInv, Mutexes, Critical, index, UnpinPrev, Step
<1>3. \A x \in P : Back(x) = prev[x]
  BY <1>1, <1>2 DEF Back, Writer, PinnedIn
<1>4. /\ httpFilterLists[s] \in P \cup {nil}
      /\ \A x \in P : next[x] \in P \cup {nil}
      /\ httpFilterLists[s] # nil => prev[httpFilterLists[s]] = nil
      /\ \A x \in P :
            /\ prev[x] = nil => httpFilterLists[s] = x
            /\ prev[x] # nil => prev[x] \in P /\ next[prev[x]] = x
            /\ next[x] # nil => prev[next[x]] = x
  BY <1>3 DEF IInv, ListOK
<1>5. n # i /\ p # i
  <2>1. next[i] # i
    BY <1>1, NoSelfLoop DEF IInv
  <2>2. n # i
    BY <2>1
  <2>3. p # i
    BY <1>1, <1>4, <2>1
  <2> QED
    BY <2>2, <2>3
<1>6. /\ prev' = prev /\ item' = item
      /\ pc'[t] = "unpinNext"
      /\ httpFilterListsMuxes' = httpFilterListsMuxes
      /\ \A x \in Items : next'[x] = IF x = p THEN n ELSE next[x]
      /\ httpFilterLists'[s] = IF p = nil THEN n ELSE httpFilterLists[s]
  BY <1>1 DEF UnpinPrev, Step, IInv, TypeOK
<1>7. PinnedIn(s)' = P \ {i}
  BY <1>1 DEF UnpinPrev, Step, IInv, TypeOK, Calls, PinnedIn, Pinned, Busy, PinSteps, UnpinSteps
<1>8. ASSUME NEW x \in P
      PROVE  /\ Back(x)' = IF prev[x] = i THEN p ELSE prev[x]
             /\ prev[x] = i => x = n
  BY <1>1, <1>2, <1>4, <1>6, <1>8 DEF Back, Writer, PinnedIn
<1>9. ASSUME NEW x \in P \ {i}, NEW S \in SUBSET Items, Leads(s, S)' PROVE x \in S
  <2>1. CASE p = nil \/ p \in S
    <3>1. Leads(s, S \cup {i})
      BY <1>1, <1>4, <1>6, <1>9, <2>1 DEF Leads
    <3> QED
      BY <1>1, <1>9, <3>1 DEF IInv, ListOK
  <2>2. CASE p # nil /\ p \notin S
    <3>1. Leads(s, S)
      BY <1>6, <1>9, <2>2 DEF Leads
    <3> QED
      BY <1>9, <3>1 DEF IInv, ListOK
  <2> QED
    BY <2>1, <2>2
<1>10. ASSUME NEW x \in P \ {i}
       PROVE  /\ next'[x] \in (P \ {i}) \cup {nil}
              /\ Back(x)' = nil => httpFilterLists'[s] = x
              /\ Back(x)' # nil => Back(x)' \in P \ {i} /\ next'[Back(x)'] = x
              /\ next'[x] # nil => Back(next[x])' = x
  <2>1. next'[x] \in (P \ {i}) \cup {nil}
    BY <1>1, <1>4, <1>5, <1>6
  <2>2. Back(x)' = nil => httpFilterLists'[s] = x
    BY <1>1, <1>4, <1>6, <1>8
  <2>3. Back(x)' # nil => Back(x)' \in P \ {i} /\ next'[Back(x)'] = x
    BY <1>1, <1>4, <1>5, <1>6, <1>8
  <2>4. next'[x] # nil => Back(next[x])' = x
    <3>1. ASSUME NEW y \in P \ {i}, y = next'[x] PROVE Back(y)' = x
      BY <1>1, <1>4, <1>6, <1>8, <3>1
    <3> QED
      BY <2>1, <3>1
  <2> QED
    BY <2>1, <2>2, <2>3, <2>4
<1>11. httpFilterLists'[s] \in (P \ {i}) \cup {nil}
  BY <1>1, <1>4, <1>5, <1>6
<1>12. httpFilterLists'[s] # nil => Back(httpFilterLists[s])' = nil
  <2>1. ASSUME NEW y \in P \ {i}, y = httpFilterLists'[s] PROVE Back(y)' = nil
    BY <1>1, <1>4, <1>6, <1>8, <2>1
  <2> QED
    BY <1>11, <2>1
<1>13. ListOK(s)'
  BY <1>7, <1>9, <1>10, <1>11, <1>12 DEF ListOK
<1>14. LocalOK(t)'
  BY <1>1, <1>4, <1>5, <1>6, <1>7, <1>8 DEF LocalOK, index
<1> QED
  BY <1>7, <1>13, <1>14

(* The back link of the next item leads past the item that was taken out.  *)
LEMMA UnpinNextList ==
  ASSUME IInv, NEW t \in Threads, UnpinNext(t), NEW s \in Shards, s = index(t)
  PROVE  PinnedIn(s)' = PinnedIn(s) /\ ListOK(s)'
<1> USE NilAssumption, ShardAssumption DEF Step, links, UnpinNext
<1>1. item[t] \in Items /\ item[t] \notin PinnedIn(s)
  BY Running, Reach DEF IInv
<1>2. PinnedIn(s)' = PinnedIn(s)
  BY DEF IInv, TypeOK, PinnedIn, Pinned, Busy
<1>3. httpFilterListsMuxes[s] = t
  BY <1>1 DEF IInv, Mutexes, Critical, index
<1>4. ASSUME NEW x \in PinnedIn(s) PROVE Back(x)' = Back(x)
  <2>1. x \in Items /\ ShardOf[x] = s /\ x # nil
    BY <1>4 DEF PinnedIn
  <2>2. Back(x) = IF prev[x] = item[t] THEN prev[item[t]] ELSE prev[x]
    BY <1>3, <2>1 DEF Back, Writer
  <2>3. Back(x)' = prev'[x]
    BY <1>3, <2>1 DEF Back, Writer, IInv, TypeOK
  <2>4. prev'[x] = IF x = next[item[t]] THEN prev[item[t]] ELSE prev[x]
    BY <1>1, <2>1 DEF IInv, TypeOK, Null
  <2>5. prev[x] = item[t] <=> x = next[item[t]]
    BY <1>4, <2>1 DEF IInv, LocalOK
  <2> QED
    BY <2>2, <2>3, <2>4, <2>5
<1> QED
  BY <1>2, <1>4, ListFrame DEF IInv

(* A thread keeps what it knows about its links when its own state, the    *)
(* links of its item and the list of its shard stay as they are.           *)
LEMMA LocalFrame ==
  ASSUME IInv, NEW u \in Threads, pc'[u] = pc[u], item'[u] = item[u],
         \/ pc[u] \in {"envoy", "hook", "pinUnlock", "unpinLock", "unpinPrev"}
         \/ next'[item[u]] = next[item[u]] /\ prev'[item[u]] = prev[item[u]],
         \/ pc[u] \notin Critical
         \/ /\ httpFilterLists'[index(u)] = httpFilterLists[index(u)]
            /\ PinnedIn(index(u))' = PinnedIn(index(u))
            /\ \A x \in PinnedIn(index(u)) : prev'[x] = prev[x]
  PROVE  LocalOK(u)'
<1>1. PinnedIn(index(u)) = {x \in Items : ShardOf[x] = index(u) /\ Pinned(x)}
  BY DEF PinnedIn
<1>2. index(u)' = index(u)
  BY DEF index
<1>3. pc[u] \in {"pinPrev", "pinHead", "unpinNext", "unpinUnlock"} =>
        /\ PinnedIn(index(u))' = PinnedIn(index(u))
        /\ head(u)' = head(u)
        /\ \A x \in PinnedIn(index(u)) : prev'[x] = prev[x]
  BY <1>2 DEF Critical, head
<1>4. pc[u] = "pinHead" => head(u) \in PinnedIn(index(u)) \cup {nil}
  BY Reach
<1> QED
  BY <1>2, <1>3, <1>4, NilAssumption DEF IInv, LocalOK

(* What a thread in a critical section knows about the links of its item   *)
(* and its neighbours.                                                     *)
LEMMA LocalStep == IInv /\ [Next]_vars => \A u \in Threads : LocalOK(u)'
<1> SUFFICES ASSUME IInv, [Next]_vars, NEW u \in Threads PROVE LocalOK(u)'
  OBVIOUS
<1> USE NilAssumption, ShardAssumption
<1>1. ASSUME NEW t \in Threads,
             \/ \E x \in Items : FilterNew(t, x) \/ HookCall(t, x) \/ FilterDestroy(t, x)
             \/ HookReturn(t) \/ Locking(t) \/ PinUnlock(t) \/ UnpinUnlock(t)
      PROVE  LocalOK(u)'
  <2>1. UNCHANGED <<next, prev, httpFilterLists>>
    BY <1>1 DEF FilterNew, HookCall, FilterDestroy, HookReturn, Locking, PinLock,
       UnpinLock, Lock, PinUnlock, UnpinUnlock, links
  <2>2. CASE u # t
    <3>1. pc'[u] = pc[u] /\ item'[u] = item[u]
      BY <1>1, <2>2 DEF FilterNew, HookCall, FilterDestroy, HookReturn, Locking, PinLock,
         UnpinLock, Lock, PinUnlock, UnpinUnlock, Step, IInv, TypeOK
    <3>2. ASSUME pc[u] \in Critical PROVE PinnedIn(index(u))' = PinnedIn(index(u))
      <4>1. PICK s \in Shards : s = index(u)
        BY <3>2, Running DEF IInv, Critical
      <4>2. s = index(u)'
        BY <3>1, <4>1 DEF index
      <4> QED
        BY <1>1, <4>1, <4>2, ListQuiet
    <3> QED
      BY <2>1, <3>1, <3>2, LocalFrame
  <2>3. CASE u = t
    <3> USE <2>1, <2>3 DEF Step, IInv, TypeOK, LocalOK
    <3>1. CASE \E x \in Items : FilterNew(t, x)
      BY <3>1 DEF FilterNew, FreeCells
    <3>2. CASE \E x \in Items : HookCall(t, x) \/ FilterDestroy(t, x)
      BY <3>2 DEF HookCall, FilterDestroy
    <3>3. CASE HookReturn(t) \/ PinUnlock(t) \/ UnpinUnlock(t)
      BY <3>3 DEF HookReturn, PinUnlock, UnpinUnlock
    <3>4. CASE Locking(t)
      BY <3>4 DEF Locking, PinLock, UnpinLock, Lock
    <3> QED
      BY <1>1, <3>1, <3>2, <3>3, <3>4
  <2> QED
    BY <2>2, <2>3
<1>2. ASSUME NEW t \in Threads, Pinning(t) \/ Unpinning(t), u # t PROVE LocalOK(u)'
  <2>1. /\ pc[t] \in Critical /\ item[t] \in Items
        /\ pc'[u] = pc[u] /\ item'[u] = item[u]
    BY <1>2, Running DEF IInv, TypeOK, Pinning, Unpinning, PinNext, PinPrev, PinHead,
       PinUnlock, UnpinPrev, UnpinNext, UnpinUnlock, Step, Critical
  <2>2. pc[u] \in Critical => index(u) # index(t)
    BY <1>2, <2>1, Running DEF IInv, Mutexes, index, Critical
  <2>3. pc[u] \in Critical => index(u) \in Shards
    BY Running DEF IInv, Critical
  <2>4. ASSUME pc[u] \in Critical
        PROVE  /\ httpFilterLists'[index(u)] = httpFilterLists[index(u)]
               /\ PinnedIn(index(u))' = PinnedIn(index(u))
               /\ \A x \in PinnedIn(index(u)) : prev'[x] = prev[x]
    <3>1. PICK s \in Shards : s = index(u) /\ s # index(t)
      BY <2>2, <2>3, <2>4
    <3>2. s = index(u)'
      BY <2>1, <3>1 DEF index
    <3>3. /\ PinnedIn(s)' = PinnedIn(s)
          /\ httpFilterLists'[s] = httpFilterLists[s]
          /\ \A x \in PinnedIn(s) : prev'[x] = prev[x]
      BY <1>2, <3>1, OtherShards DEF PinnedIn
    <3> QED
      BY <3>1, <3>2, <3>3
  <2>5. \/ pc[u] \in {"envoy", "hook", "pinUnlock", "unpinLock", "unpinPrev"}
        \/ next'[item[u]] = next[item[u]] /\ prev'[item[u]] = prev[item[u]]
    <3>1. CASE pc[u] \in Critical
      BY <1>2, <2>2, <2>3, <3>1, OtherShards, Running DEF IInv, index, Critical
    <3>2. CASE pc[u] = "pinLock"
      <4>1. item[u] \in Items /\ item[u] # item[t] /\ item[u] \notin PinnedIn(index(u))
        BY <1>2, <2>1, <3>2, Running, Reach DEF IInv, Calls, PinSteps
      <4>2. item[u] \notin PinnedIn(index(t))
        BY <4>1 DEF PinnedIn, index
      <4>3. CASE PinNext(t)
        BY <2>1, <4>1, <4>3 DEF PinNext, IInv, TypeOK
      <4>4. CASE PinPrev(t)
        BY <2>1, <4>1, <4>2, <4>4, Reach DEF PinPrev, Step, IInv, TypeOK
      <4>5. CASE UnpinPrev(t)
        BY <2>1, <4>1, <4>2, <4>5, Reach DEF UnpinPrev, Step, IInv, TypeOK
      <4>6. CASE UnpinNext(t)
        BY <2>1, <4>1, <4>2, <4>6 DEF UnpinNext, Step, IInv, TypeOK, LocalOK
      <4>7. CASE PinHead(t) \/ PinUnlock(t) \/ UnpinUnlock(t)
        BY <4>7 DEF PinHead, PinUnlock, UnpinUnlock, links
      <4> QED
        BY <1>2, <4>3, <4>4, <4>5, <4>6, <4>7 DEF Pinning, Unpinning
    <3> QED
      BY <3>1, <3>2 DEF IInv, TypeOK, PinSteps, UnpinSteps, Critical
  <2> QED
    BY <2>1, <2>4, <2>5, LocalFrame
<1>3. ASSUME PinNext(u) PROVE LocalOK(u)'
  BY <1>3, Running DEF PinNext, Step, IInv, TypeOK, LocalOK, head, index
<1>4. ASSUME PinPrev(u) PROVE LocalOK(u)'
  <2>1. /\ item[u] \in Items /\ item[u] \notin PinnedIn(index(u))
        /\ head(u) \in PinnedIn(index(u)) \cup {nil}
    BY <1>4, Running, Reach DEF PinPrev, Step, IInv, PinSteps
  <2> QED
    BY <1>4, <2>1 DEF PinPrev, Step, IInv, TypeOK, LocalOK, head, index, PinnedIn
<1>5. ASSUME PinHead(u) \/ PinUnlock(u) \/ UnpinUnlock(u) PROVE LocalOK(u)'
  BY <1>5 DEF PinHead, PinUnlock, UnpinUnlock, Step, IInv, TypeOK, LocalOK
<1>6. ASSUME UnpinPrev(u) PROVE LocalOK(u)'
  BY <1>6, Running, UnpinPrevList DEF UnpinPrev, Step, IInv
<1>7. ASSUME UnpinNext(u) PROVE LocalOK(u)'
  <2>1. /\ item[u] \in Items /\ item[u] \notin PinnedIn(index(u))
        /\ next[item[u]] \in PinnedIn(index(u)) \cup {nil}
        /\ prev[item[u]] \in PinnedIn(index(u)) \cup {nil}
        /\ index(u) \in Shards
    BY <1>7, Running, Reach DEF UnpinNext, Step, IInv, LocalOK
  <2>2. prev'[item[u]] = prev[item[u]] /\ next' = next /\ item' = item
    BY <1>7, <2>1 DEF UnpinNext, IInv, TypeOK
  <2>3. PinnedIn(index(u))' = PinnedIn(index(u)) /\ index(u)' = index(u)
    BY <1>7, <2>1, <2>2, UnpinNextList DEF index
  <2> QED
    BY <1>7, <2>1, <2>2, <2>3 DEF UnpinNext, Step, IInv, TypeOK, LocalOK
<1>8. ASSUME NEW x \in Items, Collect(x) PROVE LocalOK(u)'
  <2>1. x # item[u] /\ \A s \in Shards : x \notin PinnedIn(s)
    BY <1>8, GarbageUnused DEF Collect, IInv
  <2>2. pc[u] \in Critical => index(u) \in Shards
    BY Running DEF IInv, Critical
  <2>3. /\ next'[item[u]] = next[item[u]] /\ prev'[item[u]] = prev[item[u]]
        /\ \A s \in Shards : \A y \in PinnedIn(s) : prev'[y] = prev[y]
    BY <1>8, <2>1 DEF Collect, IInv, TypeOK, PinnedIn
  <2>4. PinnedIn(index(u))' = PinnedIn(index(u))
    BY <1>8 DEF Collect, PinnedIn, Pinned, Busy, index
  <2> QED
    BY <1>8, <2>2, <2>3, <2>4, LocalFrame DEF Collect
<1>9. CASE UNCHANGED vars
  <2>1. PinnedIn(index(u))' = PinnedIn(index(u))
    BY <1>9 DEF vars, PinnedIn, Pinned, Busy, index
  <2> QED
    BY <1>9, <2>1, LocalFrame DEF vars, links
<1> QED
  BY <1>1, <1>2, <1>3, <1>4, <1>5, <1>6, <1>7, <1>8, <1>9 DEF Next, Pinning, Unpinning

(* The lists are well formed after every step. *)
LEMMA ListStep == IInv /\ [Next]_vars => \A s \in Shards : ListOK(s)'
<1> SUFFICES ASSUME IInv, [Next]_vars, NEW s \in Shards PROVE ListOK(s)'
  OBVIOUS
<1>1. ASSUME NEW t \in Threads,
             \/ \E x \in Items : FilterNew(t, x) \/ HookCall(t, x) \/ FilterDestroy(t, x)
             \/ HookReturn(t) \/ Locking(t) \/ PinUnlock(t) \/ UnpinUnlock(t)
      PROVE  ListOK(s)'
  BY <1>1, ListQuiet
<1>2. ASSUME NEW t \in Threads,
             PinNext(t) \/ PinPrev(t) \/ PinHead(t) \/ UnpinPrev(t) \/ UnpinNext(t)
      PROVE  ListOK(s)'
  <2>1. CASE s # index(t)
    BY <1>2, <2>1, OtherShards DEF Pinning, Unpinning
  <2>2. CASE s = index(t)
    BY <1>2, <2>2, PinNextList, PinPrevList, PinHeadList, UnpinPrevList, UnpinNextList
  <2> QED
    BY <2>1, <2>2
<1>3. ASSUME NEW x \in Items, Collect(x) PROVE ListOK(s)'
  <2>1. \A t \in Threads : x # item[t]
    BY <1>3, GarbageUnused DEF Collect, IInv
  <2>2. x \notin PinnedIn(s)
    BY <1>3, GarbageUnused DEF Collect, IInv
  <2>3. PinnedIn(s)' = PinnedIn(s)
    BY <1>3 DEF Collect, PinnedIn, Pinned, Busy
  <2>4. ASSUME NEW y \in PinnedIn(s) PROVE next'[y] = next[y] /\ Back(y)' = Back(y)
    <3>1. y \in Items /\ y # x
      BY <2>2, <2>4 DEF PinnedIn
    <3>2. next'[y] = next[y] /\ prev'[y] = prev[y]
      BY <1>3, <3>1 DEF Collect, IInv, TypeOK
    <3>3. ASSUME NEW h \in Threads PROVE prev'[item[h]] = prev[item[h]]
      BY <1>3, <2>1 DEF Collect, IInv, TypeOK
    <3>4. httpFilterListsMuxes[ShardOf[y]] \in Threads \cup {nil}
      BY <3>1, ShardAssumption DEF IInv, TypeOK
    <3> QED
      BY <1>3, <3>1, <3>2, <3>3, <3>4, BackFrame DEF Collect
  <2> QED
    BY <1>3, <2>3, <2>4, ListFrame DEF Collect, IInv
<1>4. CASE UNCHANGED vars
  BY <1>4, ListFrame DEF vars, links, IInv, PinnedIn, Pinned, Busy, Back, Writer
<1> QED
  BY <1>1, <1>2, <1>3, <1>4 DEF Next, Pinning, Unpinning

-----------------------------------------------------------------------------
(* The lists are empty at the start.                                       *)
LEMMA InitIInv == Init => IInv
<1> SUFFICES ASSUME Init PROVE IInv
  OBVIOUS
<1> USE NilAssumption, ShardAssumption DEF Init
<1>1. TypeOK
  BY DEF TypeOK, Null
<1>2. Calls /\ Mutexes /\ FreeCells
  BY DEF Calls, Mutexes, FreeCells, Critical, PinSteps, UnpinSteps
<1>3. ASSUME NEW s \in Shards PROVE ListOK(s)
  BY DEF ListOK, PinnedIn, Pinned, Busy
<1>4. ASSUME NEW t \in Threads PROVE LocalOK(t)
  BY DEF LocalOK
<1> QED
  BY <1>1, <1>2, <1>3, <1>4 DEF IInv

(* Every pointer assignment, by any thread, keeps the invariant.           *)
LEMMA StepIInv == IInv /\ [Next]_vars => IInv'
<1> SUFFICES ASSUME IInv, [Next]_vars PROVE IInv'
  OBVIOUS
<1>1. TypeOK'
  BY TypeStep DEF IInv
<1> QED
  BY <1>1, CallsStep, MutexStep, ListStep, LocalStep, FreeStep DEF IInv

(* At every step of every interleaving of pins and unpins by any number of *)
(* threads over any number of shards, the lists are as IInv describes.     *)
THEOREM Inductive == SafetySpec => []IInv
BY InitIInv, StepIInv, PTL DEF SafetySpec

(* The pointers of mem.go only ever hold what their types allow.           *)
THEOREM TypeCorrect == SafetySpec => []TypeOK
<1>1. IInv => TypeOK
  BY DEF IInv
<1> QED
  BY <1>1, Inductive, PTL

(* In well-formed lists the connected items are the pinned ones.           *)
LEMMA LinkedIsPinned == IInv => ForwardList
<1>1. ASSUME IInv, NEW s \in Shards PROVE Linked(s) = PinnedIn(s)
  <2>1. PinnedIn(s) \subseteq Linked(s)
    BY <1>1 DEF IInv, ListOK, PinnedIn, Linked
  <2>2. PinnedIn(s) \in SUBSET Items /\ Leads(s, PinnedIn(s))
    BY <1>1 DEF IInv, ListOK, PinnedIn, Leads
  <2>3. Linked(s) \subseteq PinnedIn(s)
    BY <2>2 DEF Linked
  <2> QED
    BY <2>1, <2>3
<1> QED
  BY <1>1 DEF ForwardList

(* Following next from the head of a shard visits exactly the filters that *)
(* are pinned in it: concurrent pins and unpins of mem.go lose none.       *)
THEOREM ListsComplete == SafetySpec => []ForwardList
BY LinkedIsPinned, Inductive, PTL

(* Whenever the mutex of a shard is free, prev inverts next on its list,   *)
(* so the next unpinHttpFilter bypasses the right neighbours.              *)
THEOREM ListsDoublyLinked == SafetySpec => []BackLinks
<1>1. ASSUME IInv, ForwardList, NEW s \in Shards, httpFilterListsMuxes[s] = nil,
             NEW x \in Linked(s)
      PROVE  /\ prev[x] = nil <=> httpFilterLists[s] = x
             /\ prev[x] # nil => prev[x] \in Linked(s) /\ next[prev[x]] = x
             /\ next[x] # nil => prev[next[x]] = x
  <2>1. Linked(s) = PinnedIn(s)
    BY <1>1 DEF ForwardList
  <2>2. \A y \in PinnedIn(s) : Back(y) = prev[y] /\ y # nil
    BY <1>1, NilAssumption DEF Back, Writer, PinnedIn
  <2>3. next[x] \in PinnedIn(s) \cup {nil}
    BY <1>1, <2>1 DEF IInv, ListOK
  <2> QED
    BY <1>1, <2>1, <2>2, <2>3 DEF IInv, ListOK
<1>2. IInv /\ ForwardList => BackLinks
  BY <1>1 DEF BackLinks
<1> QED
  BY <1>2, Inductive, ListsComplete, PTL

(* The address that Envoy holds of a filter never dangles: the garbage     *)
(* collector has not taken the filter.                                     *)
THEOREM NoUseAfterFree == SafetySpec => []HandlesAlive
<1>1. IInv => HandlesAlive
  BY DEF IInv, Calls, HandlesAlive
<1> QED
  BY <1>1, Inductive, PTL

(* Once Envoy has destroyed a filter and unpinHttpFilter has returned, the *)
(* filter is garbage: no list and no link of another filter leads to it.   *)
THEOREM NoFilterLeaks == SafetySpec => []NoLeak
<1>1. ASSUME IInv, NEW x \in live, \A t \in Threads : x \notin held[t] /\ item[t] # x
      PROVE  Garbage(x)
  <2> DEFINE S == {y \in Items : \/ \E s \in Shards : y \in PinnedIn(s)
                                 \/ \E t \in Threads : y = item[t]}
  <2>1. S \in SUBSET Items /\ x \in Items /\ x \notin S
    BY <1>1 DEF PinnedIn, Pinned, Busy, IInv, TypeOK
  <2>2. Roots \subseteq S
    BY <1>1 DEF Roots, IInv, TypeOK, ListOK, Null
  <2>3. ASSUME NEW s \in Shards, NEW y \in PinnedIn(s)
        PROVE  next[y] \in S \cup {nil} /\ prev[y] \in S \cup {nil}
    <3>1. y \in Items /\ ShardOf[y] = s
      BY DEF PinnedIn
    <3>2. next[y] \in S \cup {nil} /\ Back(y) \in S \cup {nil}
      BY <1>1 DEF IInv, ListOK, PinnedIn
    <3>3. Back(y) = prev[y] \/ \E t \in Threads : prev[y] = item[t]
      BY <1>1, <3>1 DEF Back, Writer, IInv, TypeOK
    <3>4. prev[y] \in Items \cup {nil}
      BY <1>1, <3>1 DEF IInv, TypeOK, Null
    <3> QED
      BY <3>2, <3>3, <3>4
  <2>4. ASSUME NEW t \in Threads, item[t] \in Items
        PROVE  next[item[t]] \in S \cup {nil} /\ prev[item[t]] \in S \cup {nil}
    <3>1. pc[t] # "envoy" /\ index(t) \in Shards
      BY <1>1, <2>4, NilAssumption, ShardAssumption DEF IInv, Calls, index
    <3>2. CASE pc[t] \in {"hook", "pinUnlock", "unpinLock", "unpinPrev"}
      BY <1>1, <2>3, <2>4, <3>1, <3>2 DEF PinnedIn, Pinned, Busy, IInv, Calls, index
    <3>3. CASE pc[t] \in {"pinLock", "pinNext", "pinPrev", "pinHead"}
      BY <1>1, <3>1, <3>3, Reach DEF IInv, LocalOK, PinnedIn
    <3>4. CASE pc[t] \in {"unpinNext", "unpinUnlock"}
      BY <1>1, <3>1, <3>4 DEF IInv, LocalOK, PinnedIn
    <3> QED
      BY <1>1, <3>1, <3>2, <3>3, <3>4 DEF IInv, TypeOK, PinSteps, UnpinSteps
  <2>5. \A y \in S : next[y] \in S \cup {nil} /\ prev[y] \in S \cup {nil}
    BY <2>3, <2>4
  <2> QED
    BY <2>1, <2>2, <2>5 DEF Garbage
<1>2. IInv => NoLeak
  BY <1>1 DEF NoLeak
<1> QED
  BY <1>2, Inductive, PTL

(* The links of pinned filters and the heads of the shards change only     *)
(* while the mutex of the shard is held.                                   *)
THEOREM LocksGuardLists == SafetySpec => WritesUnderLock
<1> DEFINE A == \A s \in Shards :
                  httpFilterListsMuxes[s] = nil =>
                    /\ httpFilterLists'[s] = httpFilterLists[s]
                    /\ \A x \in PinnedIn(s) : next'[x] = next[x] /\ prev'[x] = prev[x]
<1>1. ASSUME IInv, [Next]_vars, NEW s \in Shards, httpFilterListsMuxes[s] = nil
      PROVE  /\ httpFilterLists'[s] = httpFilterLists[s]
             /\ \A x \in PinnedIn(s) : next'[x] = next[x] /\ prev'[x] = prev[x]
  <2>1. ASSUME NEW t \in Threads,
               PinNext(t) \/ PinPrev(t) \/ PinHead(t) \/ UnpinPrev(t) \/ UnpinNext(t)
        PROVE  /\ httpFilterLists'[s] = httpFilterLists[s]
               /\ \A x \in PinnedIn(s) : next'[x] = next[x] /\ prev'[x] = prev[x]
    <3>1. s # index(t)
      BY <1>1, <2>1, NilAssumption DEF IInv, Mutexes, Critical, index, Step, PinNext,
         PinPrev, PinHead, UnpinPrev, UnpinNext
    <3> QED
      BY <1>1, <2>1, <3>1, OtherShards DEF Pinning, Unpinning, PinnedIn
  <2>2. ASSUME NEW t \in Threads,
               \/ \E x \in Items : FilterNew(t, x) \/ HookCall(t, x) \/ FilterDestroy(t, x)
               \/ HookReturn(t) \/ Locking(t) \/ PinUnlock(t) \/ UnpinUnlock(t)
        PROVE  UNCHANGED <<next, prev, httpFilterLists>>
    BY <2>2 DEF FilterNew, HookCall, FilterDestroy, HookReturn, Locking, PinLock,
       UnpinLock, Lock, PinUnlock, UnpinUnlock, links
  <2>3. ASSUME NEW x \in Items, Collect(x)
        PROVE  /\ httpFilterLists'[s] = httpFilterLists[s]
               /\ \A y \in PinnedIn(s) : next'[y] = next[y] /\ prev'[y] = prev[y]
    BY <1>1, <2>3, GarbageUnused DEF Collect, IInv, TypeOK, PinnedIn
  <2>4. CASE UNCHANGED vars
    BY <2>4 DEF vars, links
  <2> QED
    BY <1>1, <2>1, <2>2, <2>3, <2>4 DEF Next, Pinning, Unpinning
<1>2. IInv /\ [Next]_vars => [A]_vars
  BY <1>1
<1>3. SafetySpec => [][A]_vars
  BY <1>2, Inductive, PTL DEF SafetySpec
<1> QED
  BY <1>3 DEF WritesUnderLock

-----------------------------------------------------------------------------
(* The stage of the life cycle that a cell is in, told from the calls.     *)
LEMMA StatusOf ==
  ASSUME IInv, NEW x \in Items
  PROVE  Status(x) = IF x \notin live THEN "free"
                     ELSE IF Pinned(x) THEN "pinned"
                     ELSE IF Busy(x, PinSteps) THEN "fresh"
                     ELSE "released"
<1>1. (\E s \in Shards : x \in Linked(s)) <=> Pinned(x)
  BY LinkedIsPinned, ShardAssumption DEF ForwardList, PinnedIn
<1> QED
  BY <1>1 DEF Status

(* The same after a step. *)
LEMMA StatusAfter ==
  ASSUME IInv', NEW x \in Items
  PROVE  Status(x)' = IF x \notin live' THEN "free"
                      ELSE IF Pinned(x)' THEN "pinned"
                      ELSE IF Busy(x, PinSteps)' THEN "fresh"
                      ELSE "released"
<1>1. IInv' => ForwardList'
  BY LinkedIsPinned, PTL
<1>2. (\E s \in Shards : x \in Linked(s)') <=> Pinned(x)'
  BY <1>1, ShardAssumption DEF ForwardList, PinnedIn
<1> QED
  BY <1>2 DEF Status

(* A cell whose allocation, pinning and running pin are the same after a   *)
(* step as before it stays in its stage.                                   *)
LEMMA SameStage ==
  ASSUME IInv, IInv', NEW x \in Items,
         x \in live' <=> x \in live,
         Pinned(x)' <=> Pinned(x),
         Busy(x, PinSteps)' <=> Busy(x, PinSteps)
  PROVE  Status(x)' = Status(x)
BY StatusOf, StatusAfter

(* What one step does to the stage of every cell, by the calls it is about.*)
LEMMA StageStep ==
  ASSUME IInv, IInv', [Next]_vars
  PROVE  \/ \A y \in Items : Status(y)' = Status(y)
         \/ \E x \in Items :
              /\ <<Status(x), Status(x)'>> \in
                   {<<"free", "fresh">>, <<"fresh", "pinned">>,
                    <<"pinned", "released">>, <<"released", "free">>}
              /\ \A y \in Items \ {x} : Status(y)' = Status(y)
<1> DEFINE Goes(x, from, to) ==
             /\ Status(x) = from /\ Status(x)' = to
             /\ \A y \in Items \ {x} : Status(y)' = Status(y)
<1>1. ASSUME NEW t \in Threads, NEW x \in Items, FilterNew(t, x)
      PROVE  Goes(x, "free", "fresh")
  <2>1. x \notin live /\ x \in live' /\ item'[t] = x /\ pc'[t] = "pinLock" /\ item[t] = nil
    BY <1>1 DEF FilterNew, Step, IInv, Calls, TypeOK
  <2>2. ~Pinned(x)'
    BY <1>1, <2>1 DEF IInv, Calls, FilterNew, Step, TypeOK, Pinned, Busy
  <2>3. Busy(x, PinSteps)'
    BY <2>1 DEF Busy, PinSteps
  <2>4. ASSUME NEW y \in Items \ {x} PROVE Status(y)' = Status(y)
    <3>1. y \in live' <=> y \in live
      BY <1>1, <2>4 DEF FilterNew
    <3>2. Pinned(y)' <=> Pinned(y)
      BY <1>1, <2>1, <2>4 DEF FilterNew, Step, IInv, TypeOK, Pinned, Busy
    <3>3. Busy(y, PinSteps)' <=> Busy(y, PinSteps)
      BY <1>1, <2>1, <2>4 DEF FilterNew, Step, IInv, TypeOK, Busy, PinSteps
    <3> QED
      BY <3>1, <3>2, <3>3, SameStage
  <2> QED
    BY <2>1, <2>2, <2>3, <2>4, StatusOf, StatusAfter
<1>2. ASSUME NEW t \in Threads, PinHead(t)
      PROVE  item[t] \in Items /\ Goes(item[t], "fresh", "pinned")
  <2>1. /\ item[t] \in Items /\ item[t] \in live
        /\ pc[t] = "pinHead" /\ pc'[t] = "pinUnlock" /\ item' = item /\ live' = live /\ held' = held
        /\ \A u \in Threads \ {t} : pc'[u] = pc[u]
    BY <1>2, Running DEF PinHead, Step, IInv, TypeOK
  <2>2. ~Pinned(item[t]) /\ Busy(item[t], PinSteps) /\ Pinned(item[t])'
    BY <2>1, NilAssumption DEF IInv, Calls, Pinned, Busy, PinSteps
  <2>3. ASSUME NEW y \in Items \ {item[t]} PROVE Status(y)' = Status(y)
    <3>1. Pinned(y)' <=> Pinned(y)
      BY <2>1, <2>3 DEF Pinned, Busy
    <3>2. Busy(y, PinSteps)' <=> Busy(y, PinSteps)
      BY <2>1, <2>3 DEF Busy
    <3> QED
      BY <2>1, <3>1, <3>2, SameStage
  <2> QED
    BY <2>1, <2>2, <2>3, StatusOf, StatusAfter
<1>3. ASSUME NEW t \in Threads, UnpinPrev(t)
      PROVE  item[t] \in Items /\ Goes(item[t], "pinned", "released")
  <2>1. /\ item[t] \in Items /\ item[t] \in live
        /\ pc[t] = "unpinPrev" /\ pc'[t] = "unpinNext" /\ item' = item /\ live' = live /\ held' = held
        /\ \A u \in Threads \ {t} : pc'[u] = pc[u]
    BY <1>3, Running DEF UnpinPrev, Step, IInv, TypeOK
  <2>2. Pinned(item[t]) /\ ~Pinned(item[t])' /\ ~Busy(item[t], PinSteps)'
    BY <2>1, NilAssumption DEF IInv, Calls, Pinned, Busy, PinSteps, UnpinSteps
  <2>3. ASSUME NEW y \in Items \ {item[t]} PROVE Status(y)' = Status(y)
    <3>1. Pinned(y)' <=> Pinned(y)
      BY <2>1, <2>3 DEF Pinned, Busy
    <3>2. Busy(y, PinSteps)' <=> Busy(y, PinSteps)
      BY <2>1, <2>3 DEF Busy
    <3> QED
      BY <2>1, <3>1, <3>2, SameStage
  <2> QED
    BY <2>1, <2>2, <2>3, StatusOf, StatusAfter
<1>4. ASSUME NEW x \in Items, Collect(x)
      PROVE  Goes(x, "released", "free")
  <2>1. /\ x \in live /\ live' = live \ {x}
        /\ UNCHANGED <<pc, item, held>>
    BY <1>4 DEF Collect
  <2>2. \A t \in Threads : item[t] # x /\ x \notin held[t]
    BY <1>4, GarbageUnused DEF Collect, IInv
  <2>3. ~Pinned(x) /\ ~Busy(x, PinSteps)
    BY <2>2 DEF Pinned, Busy
  <2>4. ASSUME NEW y \in Items \ {x} PROVE Status(y)' = Status(y)
    BY <2>1, <2>4, SameStage DEF Pinned, Busy
  <2> QED
    BY <2>1, <2>3, <2>4, StatusOf, StatusAfter
<1>5. ASSUME NEW t \in Threads,
             \/ \E x \in Items : HookCall(t, x) \/ FilterDestroy(t, x)
             \/ HookReturn(t) \/ Locking(t) \/ PinNext(t) \/ PinPrev(t) \/ PinUnlock(t)
             \/ UnpinNext(t) \/ UnpinUnlock(t),
             NEW y \in Items
      PROVE  Status(y)' = Status(y)
  <2>1. live' = live
    BY <1>5 DEF HookCall, FilterDestroy, HookReturn, Locking, PinLock, UnpinLock, Lock,
       PinNext, PinPrev, PinUnlock, UnpinNext, UnpinUnlock
  <2>2. CASE \E x \in Items : HookCall(t, x) \/ FilterDestroy(t, x)
    <3>1. PICK x \in Items : HookCall(t, x) \/ FilterDestroy(t, x)
      BY <2>2
    <3>2. /\ x \in held[t] /\ pc[t] = "envoy" /\ item'[t] = x /\ item[t] = nil
          /\ \A u \in Threads \ {t} : pc'[u] = pc[u] /\ item'[u] = item[u] /\ held'[u] = held[u]
          /\ \/ pc'[t] = "hook" /\ held'[t] = held[t]
             \/ pc'[t] = "unpinLock" /\ held'[t] = held[t] \ {x}
      BY <3>1 DEF HookCall, FilterDestroy, Step, IInv, TypeOK, Calls
    <3>3. Pinned(y)' <=> Pinned(y)
      BY <3>2 DEF Pinned, Busy
    <3>4. Busy(y, PinSteps)' <=> Busy(y, PinSteps)
      BY <3>2 DEF Busy, PinSteps
    <3> QED
      BY <2>1, <3>3, <3>4, SameStage
  <2>3. CASE HookReturn(t) \/ UnpinUnlock(t) \/ PinUnlock(t)
    <3>1. /\ pc[t] \in {"hook", "unpinUnlock", "pinUnlock"} /\ pc'[t] = "envoy" /\ item'[t] = nil
          /\ item[t] \in Items
          /\ \A u \in Threads \ {t} : pc'[u] = pc[u] /\ item'[u] = item[u] /\ held'[u] = held[u]
          /\ \/ pc[t] # "pinUnlock" /\ held'[t] = held[t]
             \/ pc[t] = "pinUnlock" /\ held'[t] = held[t] \cup {item[t]}
      BY <2>3, Running DEF HookReturn, UnpinUnlock, PinUnlock, Step, IInv, TypeOK
    <3>2. Pinned(y)' <=> Pinned(y)
      BY <3>1, NilAssumption DEF Pinned, Busy
    <3>3. CASE pc[t] # "pinUnlock"
      <4>1. Busy(y, PinSteps)' <=> Busy(y, PinSteps)
        BY <3>1, <3>3, NilAssumption DEF Busy, PinSteps
      <4> QED
        BY <2>1, <3>2, <4>1, SameStage
    <3>4. CASE pc[t] = "pinUnlock" /\ y # item[t]
      <4>1. Busy(y, PinSteps)' <=> Busy(y, PinSteps)
        BY <3>1, <3>4, NilAssumption DEF Busy, PinSteps
      <4> QED
        BY <2>1, <3>2, <4>1, SameStage
    <3>5. CASE pc[t] = "pinUnlock" /\ y = item[t]
      BY <2>1, <3>2, <3>5, StatusOf, StatusAfter DEF Pinned, Busy
    <3> QED
      BY <3>3, <3>4, <3>5
  <2>4. CASE Locking(t) \/ PinNext(t) \/ PinPrev(t) \/ UnpinNext(t)
    <3>1. /\ item' = item /\ held' = held
          /\ \A u \in Threads \ {t} : pc'[u] = pc[u]
          /\ <<pc[t], pc'[t]>> \in {<<"pinLock", "pinNext">>, <<"unpinLock", "unpinPrev">>,
               <<"pinNext", "pinPrev">>, <<"pinPrev", "pinHead">>, <<"unpinNext", "unpinUnlock">>}
      BY <2>4 DEF Locking, PinLock, UnpinLock, Lock, PinNext, PinPrev, UnpinNext, Step, IInv, TypeOK
    <3>2. Pinned(y)' <=> Pinned(y)
      BY <3>1 DEF Pinned, Busy
    <3>3. Busy(y, PinSteps)' <=> Busy(y, PinSteps)
      BY <3>1 DEF Busy, PinSteps
    <3> QED
      BY <2>1, <3>2, <3>3, SameStage
  <2> QED
    BY <1>5, <2>2, <2>3, <2>4
<1>6. ASSUME UNCHANGED vars, NEW y \in Items PROVE Status(y)' = Status(y)
  BY <1>6, SameStage DEF vars, Pinned, Busy
<1>7. ASSUME NEW x \in Items,
             \/ Goes(x, "free", "fresh") \/ Goes(x, "fresh", "pinned")
             \/ Goes(x, "pinned", "released") \/ Goes(x, "released", "free")
      PROVE  \E z \in Items :
               /\ <<Status(z), Status(z)'>> \in
                    {<<"free", "fresh">>, <<"fresh", "pinned">>,
                     <<"pinned", "released">>, <<"released", "free">>}
               /\ \A y \in Items \ {z} : Status(y)' = Status(y)
  BY <1>7
<1> HIDE DEF Goes
<1>8. CASE \E t \in Threads :
             \/ \E x \in Items : HookCall(t, x) \/ FilterDestroy(t, x)
             \/ HookReturn(t) \/ Locking(t) \/ PinNext(t) \/ PinPrev(t) \/ PinUnlock(t)
             \/ UnpinNext(t) \/ UnpinUnlock(t)
  BY <1>5, <1>8
<1>9. CASE \/ \E t \in Threads : \/ \E x \in Items : FilterNew(t, x)
                                 \/ PinHead(t) \/ UnpinPrev(t)
           \/ \E x \in Items : Collect(x)
  BY <1>1, <1>2, <1>3, <1>4, <1>7, <1>9
<1> QED
  BY <1>6, <1>8, <1>9 DEF Next, Pinning, Unpinning

(* The lists, shards and mutexes of mem.go implement the life cycle of     *)
(* PinnedObjects: what Envoy was given stays pinned until it gives it up,  *)
(* and the collector takes released filters only.                          *)
THEOREM Refinement == SafetySpec => Promise!SafetySpec
<1> DEFINE st == [x \in Items |-> Status(x)]
<1>1. Init => Promise!Init
  <2> SUFFICES ASSUME Init, NEW x \in Items PROVE Status(x) = "free"
    BY DEF Promise!Init
  <2> QED
    BY DEF Init, Status
<1>2. ASSUME IInv, IInv', [Next]_vars PROVE Promise!Next \/ UNCHANGED st
  <2>1. CASE \A y \in Items : Status(y)' = Status(y)
    BY <2>1
  <2>2. ASSUME NEW x \in Items, NEW from, NEW to, Status(x) = from, Status(x)' = to,
               \A y \in Items \ {x} : Status(y)' = Status(y)
        PROVE  Promise!Move(x, from, to)
    <3>1. st[x] = from
      BY <2>2
    <3>2. st' = [st EXCEPT ![x] = to]
      BY <2>2
    <3> QED
      BY <3>1, <3>2 DEF Promise!Move
  <2>3. CASE \E x \in Items :
               /\ <<Status(x), Status(x)'>> \in
                    {<<"free", "fresh">>, <<"fresh", "pinned">>,
                     <<"pinned", "released">>, <<"released", "free">>}
               /\ \A y \in Items \ {x} : Status(y)' = Status(y)
    BY <2>2, <2>3 DEF Promise!Next, Promise!Allocate, Promise!Pin, Promise!Unpin, Promise!Collect
  <2> QED
    BY <1>2, <2>1, <2>3, StageStep
<1> QED
  BY <1>1, <1>2, Inductive, PTL DEF SafetySpec, Promise!SafetySpec
=============================================================================
