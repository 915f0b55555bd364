--------------------------- MODULE MemoryManager ---------------------------
(***************************************************************************)
(* The memory manager of the Go SDK (go/gosdk/mem.go) and the exported     *)
(* functions that use it (go/gosdk/abi.go): Envoy's worker threads create  *)
(* http filters, call their event hooks and destroy them, all at the same  *)
(* time. Envoy keeps a filter as a bare uintptr, which the Go garbage      *)
(* collector does not see, so a filter lives only as long as one of the    *)
(* sharded, doubly linked lists of the memory manager leads to it.         *)
(*                                                                         *)
(* A step is one pointer assignment of the code. The critical sections     *)
(* are not atomic: the other threads and the collector run between any     *)
(* two steps of pinHttpFilter and unpinHttpFilter.                         *)
(***************************************************************************)
CONSTANTS
  Threads,    \* Envoy's worker threads
  Items,      \* the heap cells a pinedHttpFilter can occupy
  Shards,     \* the indices of httpFilterLists: shardingSize of them
  ShardOf,    \* shardingKey: the shard that the address of a cell hashes to
  nil

ASSUME ShardAssumption == ShardOf \in [Items -> Shards]
ASSUME NilAssumption   == nil \notin Items \cup Threads

VARIABLES
  live,                   \* cells that are allocated and not yet collected
  next, prev,             \* the links of linkedList, nil in a free cell
  httpFilterLists,        \* the first item of each shard
  httpFilterListsMuxes,   \* the thread that holds the mutex of each shard
  pc,                     \* where each thread is in the module
  item,                   \* the pinned filter that the running call is about
  held                    \* the filters (as uintptr) that Envoy keeps per thread

links == <<next, prev>>
vars  == <<live, next, prev, httpFilterLists, httpFilterListsMuxes, pc, item, held>>

Null == Items \cup {nil}

PinSteps   == {"pinLock", "pinNext", "pinPrev", "pinHead", "pinUnlock"}
UnpinSteps == {"unpinLock", "unpinPrev", "unpinNext", "unpinUnlock"}

TypeOK ==
  /\ live \in SUBSET Items
  /\ next \in [Items -> Null]
  /\ prev \in [Items -> Null]
  /\ httpFilterLists \in [Shards -> Null]
  /\ httpFilterListsMuxes \in [Shards -> Threads \cup {nil}]
  /\ pc \in [Threads -> {"envoy", "hook"} \cup PinSteps \cup UnpinSteps]
  /\ item \in [Threads -> Null]
  /\ held \in [Threads -> SUBSET Items]

Init ==
  /\ live = {}
  /\ next = [x \in Items |-> nil]
  /\ prev = [x \in Items |-> nil]
  /\ httpFilterLists = [s \in Shards |-> nil]
  /\ httpFilterListsMuxes = [s \in Shards |-> nil]
  /\ pc = [t \in Threads |-> "envoy"]
  /\ item = [t \in Threads |-> nil]
  /\ held = [t \in Threads |-> {}]

-----------------------------------------------------------------------------
(* The shard of the call that thread t is in. *)
index(t) == ShardOf[item[t]]

head(t) == httpFilterLists[index(t)]

Step(t, from, to) == pc[t] = from /\ pc' = [pc EXCEPT ![t] = to]

(* Mutation of Lock: the call goes on without the mutex. *)
LockForgotten(t, from, to) ==
  /\ Step(t, from, to)
  /\ UNCHANGED <<live, links, httpFilterLists, httpFilterListsMuxes, item, held>>

Lock(t, from, to) ==
  /\ Step(t, from, to)
  /\ httpFilterListsMuxes[index(t)] = nil
  /\ httpFilterListsMuxes' = [httpFilterListsMuxes EXCEPT ![index(t)] = t]
  /\ UNCHANGED <<live, links, httpFilterLists, item, held>>

(* on_http_filter_new calls NewFilter and allocates the list item. The     *)
(* call's local variable is all that leads to the item at first.           *)
FilterNew(t, x) ==
  /\ Step(t, "envoy", "pinLock")
  /\ x \notin live
  /\ live' = live \cup {x}
  /\ item' = [item EXCEPT ![t] = x]
  /\ UNCHANGED <<links, httpFilterLists, httpFilterListsMuxes, held>>

PinLock(t) == Lock(t, "pinLock", "pinNext")

(* item.next = m.httpFilterLists[index] *)
PinNext(t) ==
  /\ Step(t, "pinNext", "pinPrev")
  /\ next' = [next EXCEPT ![item[t]] = head(t)]
  /\ UNCHANGED <<live, prev, httpFilterLists, httpFilterListsMuxes, item, held>>

(* Mutation of PinPrev: the old first item is not told of the new one. *)
PinPrevForgotten(t) ==
  /\ Step(t, "pinPrev", "pinHead")
  /\ UNCHANGED <<live, links, httpFilterLists, httpFilterListsMuxes, item, held>>

(* if m.httpFilterLists[index] != nil { m.httpFilterLists[index].prev = item } *)
PinPrev(t) ==
  /\ Step(t, "pinPrev", "pinHead")
  /\ prev' = IF head(t) = nil THEN prev ELSE [prev EXCEPT ![head(t)] = item[t]]
  /\ UNCHANGED <<live, next, httpFilterLists, httpFilterListsMuxes, item, held>>

(* Mutation of PinHead: the item becomes the head of an empty list only. *)
PinHeadOnce(t) ==
  /\ Step(t, "pinHead", "pinUnlock")
  /\ httpFilterLists' =
       IF head(t) = nil THEN [httpFilterLists EXCEPT ![index(t)] = item[t]] ELSE httpFilterLists
  /\ UNCHANGED <<live, links, httpFilterListsMuxes, item, held>>

(* m.httpFilterLists[index] = item *)
PinHead(t) ==
  /\ Step(t, "pinHead", "pinUnlock")
  /\ httpFilterLists' = [httpFilterLists EXCEPT ![index(t)] = item[t]]
  /\ UNCHANGED <<live, links, httpFilterListsMuxes, item, held>>

(* Mutation of PinUnlock: the local variable is cleared before its return. *)
PinUnlockLate(t) ==
  /\ Step(t, "pinUnlock", "envoy")
  /\ httpFilterListsMuxes' = [httpFilterListsMuxes EXCEPT ![index(t)] = nil]
  /\ item' = [item EXCEPT ![t] = nil]
  /\ held' = [held EXCEPT ![t] = @ \cup {item'[t]}]
  /\ UNCHANGED <<live, links, httpFilterLists>>

(* The deferred unlock, and the return of the item's address to Envoy. *)
PinUnlock(t) ==
  /\ Step(t, "pinUnlock", "envoy")
  /\ httpFilterListsMuxes' = [httpFilterListsMuxes EXCEPT ![index(t)] = nil]
  /\ held' = [held EXCEPT ![t] = @ \cup {item[t]}]
  /\ item' = [item EXCEPT ![t] = nil]
  /\ UNCHANGED <<live, links, httpFilterLists>>

(* An event hook: it unwraps the address and calls a method of the filter. *)
HookCall(t, x) ==
  /\ Step(t, "envoy", "hook")
  /\ x \in held[t]
  /\ item' = [item EXCEPT ![t] = x]
  /\ UNCHANGED <<live, links, httpFilterLists, httpFilterListsMuxes, held>>

HookReturn(t) ==
  /\ Step(t, "hook", "envoy")
  /\ item' = [item EXCEPT ![t] = nil]
  /\ UNCHANGED <<live, links, httpFilterLists, httpFilterListsMuxes, held>>

(* on_http_filter_destroy: Envoy forgets the address as it makes the call. *)
FilterDestroy(t, x) ==
  /\ Step(t, "envoy", "unpinLock")
  /\ x \in held[t]
  /\ held' = [held EXCEPT ![t] = @ \ {x}]
  /\ item' = [item EXCEPT ![t] = x]
  /\ UNCHANGED <<live, links, httpFilterLists, httpFilterListsMuxes>>

UnpinLock(t) == Lock(t, "unpinLock", "unpinPrev")

(* Mutation of UnpinPrev: no else-branch, the head of the list stays. *)
UnpinPrevNoHead(t) ==
  /\ Step(t, "unpinPrev", "unpinNext")
  /\ next' = IF prev[item[t]] = nil THEN next ELSE [next EXCEPT ![prev[item[t]]] = next[item[t]]]
  /\ UNCHANGED <<live, prev, httpFilterLists, httpFilterListsMuxes, item, held>>

(* if filter.prev != nil { filter.prev.next = filter.next }                *)
(* else { m.httpFilterLists[index] = filter.next }                         *)
UnpinPrev(t) ==
  /\ Step(t, "unpinPrev", "unpinNext")
  /\ \/ /\ prev[item[t]] # nil
        /\ next' = [next EXCEPT ![prev[item[t]]] = next[item[t]]]
        /\ UNCHANGED httpFilterLists
     \/ /\ prev[item[t]] = nil
        /\ httpFilterLists' = [httpFilterLists EXCEPT ![index(t)] = next[item[t]]]
        /\ UNCHANGED next
  /\ UNCHANGED <<live, prev, httpFilterListsMuxes, item, held>>

(* Mutation of UnpinNext: the successor keeps its link to the item. *)
UnpinNextForgotten(t) ==
  /\ Step(t, "unpinNext", "unpinUnlock")
  /\ UNCHANGED <<live, links, httpFilterLists, httpFilterListsMuxes, item, held>>

(* if filter.next != nil { filter.next.prev = filter.prev } *)
UnpinNext(t) ==
  /\ Step(t, "unpinNext", "unpinUnlock")
  /\ prev' = IF next[item[t]] = nil
             THEN prev
             ELSE [prev EXCEPT ![next[item[t]]] = prev[item[t]]]
  /\ UNCHANGED <<live, next, httpFilterLists, httpFilterListsMuxes, item, held>>

(* Mutation of UnpinUnlock: no deferred unlock. *)
UnpinUnlockForgotten(t) ==
  /\ Step(t, "unpinUnlock", "envoy")
  /\ item' = [item EXCEPT ![t] = nil]
  /\ UNCHANGED <<live, links, httpFilterLists, httpFilterListsMuxes, held>>

(* The deferred unlock and the return: no local variable is left. *)
UnpinUnlock(t) ==
  /\ Step(t, "unpinUnlock", "envoy")
  /\ httpFilterListsMuxes' = [httpFilterListsMuxes EXCEPT ![index(t)] = nil]
  /\ item' = [item EXCEPT ![t] = nil]
  /\ UNCHANGED <<live, links, httpFilterLists, held>>

-----------------------------------------------------------------------------
(* The garbage collector of the Go runtime. Its roots are the memory       *)
(* manager's global variable and the local variables of the running calls; *)
(* the addresses that Envoy holds are not among them. A cell is garbage    *)
(* when a set that contains the roots and is closed under the links leaves *)
(* it out.                                                                 *)
Roots == ({httpFilterLists[s] : s \in Shards} \cup {item[t] : t \in Threads}) \ {nil}

Garbage(x) ==
  \E S \in SUBSET Items :
     /\ x \notin S
     /\ Roots \subseteq S
     /\ \A y \in S : next[y] \in S \cup {nil} /\ prev[y] \in S \cup {nil}

(* What a collected cell held is never read again: its links are cleared   *)
(* so that equal heaps are equal states.                                   *)
Collect(x) ==
  /\ x \in live
  /\ Garbage(x)
  /\ live' = live \ {x}
  /\ next' = [next EXCEPT ![x] = nil]
  /\ prev' = [prev EXCEPT ![x] = nil]
  /\ UNCHANGED <<httpFilterLists, httpFilterListsMuxes, pc, item, held>>

-----------------------------------------------------------------------------
Pinning(t)   == PinNext(t) \/ PinPrev(t) \/ PinHead(t) \/ PinUnlock(t)
Unpinning(t) == UnpinPrev(t) \/ UnpinNext(t) \/ UnpinUnlock(t)
Locking(t)   == PinLock(t) \/ UnpinLock(t)

Next ==
  \/ \E t \in Threads :
        \/ \E x \in Items : FilterNew(t, x) \/ HookCall(t, x) \/ FilterDestroy(t, x)
        \/ HookReturn(t)
        \/ Locking(t)
        \/ Pinning(t)
        \/ Unpinning(t)
  \/ \E x \in Items : Collect(x)

(* A call that has begun goes on. sync.Mutex hands the lock to a goroutine *)
(* that has waited too long (its starvation mode), hence strong fairness   *)
(* for the acquisition. The collector keeps running. Envoy owes nothing:   *)
(* it may never create, call or destroy a filter again.                    *)
Fairness ==
  /\ \A t \in Threads :
        /\ WF_vars(Pinning(t) \/ Unpinning(t))
        /\ SF_vars(Locking(t))
  /\ \A x \in Items : WF_vars(Collect(x))

SafetySpec == Init /\ [][Next]_vars
Spec == SafetySpec /\ Fairness

-----------------------------------------------------------------------------
(* The items found by following next from the first item of shard s: those *)
(* that are in every set that contains the first item and is closed under  *)
(* next.                                                                   *)
Leads(s, S) ==
  /\ httpFilterLists[s] \in S \cup {nil}
  /\ \A y \in S : next[y] \in S \cup {nil}

Linked(s) == {x \in Items : \A S \in SUBSET Items : Leads(s, S) => x \in S}

(* The items that belong to a list: a filter that Envoy holds, one whose   *)
(* pinHttpFilter has written the head of the list, and one whose           *)
(* unpinHttpFilter has not yet bypassed it.                                *)
Busy(x, where) == \E t \in Threads : item[t] = x /\ pc[t] \in where

Pinned(x) ==
  \/ \E t \in Threads : x \in held[t]
  \/ Busy(x, {"pinUnlock", "unpinLock", "unpinPrev"})

PinnedIn(s) == {x \in Items : ShardOf[x] = s /\ Pinned(x)}

(* Following next from the head of a shard visits exactly the pinned       *)
(* filters of that shard, at every step of every interleaving of pins and  *)
(* unpins: no pin is lost to a concurrent unpin, no item is in the list of *)
(* another shard, and no unpinned item comes back.                         *)
ForwardList == \A s \in Shards : Linked(s) = PinnedIn(s)

(* Whenever the mutex of a shard is free, prev is the inverse of next on   *)
(* its list and nil exactly in the first item: the next unpin, which trusts*)
(* prev, will bypass the right neighbours.                                 *)
BackLinks ==
  \A s \in Shards :
     httpFilterListsMuxes[s] = nil =>
        \A x \in Linked(s) :
           /\ prev[x] = nil <=> httpFilterLists[s] = x
           /\ prev[x] # nil => prev[x] \in Linked(s) /\ next[prev[x]] = x
           /\ next[x] # nil => prev[next[x]] = x

(* A filter whose address Envoy holds has not been garbage collected: the  *)
(* next event hook on it does not dereference freed memory.                *)
HandlesAlive == \A t \in Threads : held[t] \subseteq live

(* A filter that Envoy has destroyed is garbage as soon as the call has    *)
(* returned: no list and no link of another filter keeps it on the heap.   *)
NoLeak ==
  \A x \in live :
     (\A t \in Threads : x \notin held[t] /\ item[t] # x) => Garbage(x)

(* The links of a pinned filter and the head of a shard change only in     *)
(* steps during which some thread holds the mutex of that shard.           *)
WritesUnderLock ==
  [][\A s \in Shards :
       httpFilterListsMuxes[s] = nil =>
          /\ httpFilterLists'[s] = httpFilterLists[s]
          /\ \A x \in PinnedIn(s) : next'[x] = next[x] /\ prev'[x] = prev[x]]_vars

(* Every pinHttpFilter and unpinHttpFilter returns: no thread waits for a  *)
(* shard mutex forever.                                                    *)
CallsReturn ==
  \A t \in Threads : pc[t] \in PinSteps \cup UnpinSteps ~> pc[t] = "envoy"

-----------------------------------------------------------------------------
(* The memory manager implements the life cycle of PinnedObjects. A filter *)
(* is pinned from the write of the head to the write that bypasses it.     *)
Status(x) ==
  IF x \notin live THEN "free"
  ELSE IF \E s \in Shards : x \in Linked(s) THEN "pinned"
  ELSE IF Busy(x, PinSteps) THEN "fresh"
  ELSE "released"

Promise == INSTANCE PinnedObjects WITH status <- [x \in Items |-> Status(x)]

(* Fresh filters get pinned, pinned ones are never collected, released     *)
(* ones always are: every behaviour of the lists is a behaviour of         *)
(* PinnedObjects, its fairness included.                                   *)
ImplementsPinning == Promise!Spec
=============================================================================
