--------------------------- MODULE ConfigLifecycle ---------------------------
(***************************************************************************)
(* The filter configurations of the Go module, from their creation to      *)
(* their destruction: the exported functions for configurations and        *)
(* on_http_filter_new (go/gosdk/abi.go), the list that pins configurations *)
(* (go/gosdk/mem.go), and the constructor of the JavaScript filter's       *)
(* configuration (go/main.go, go/javascript.go), which starts a pool of    *)
(* virtual machines and gives up as a whole when one of them fails.        *)
(*                                                                         *)
(* The list has no lock: Envoy creates and destroys configurations on its  *)
(* main thread. Meanwhile worker threads create filters from them, and the *)
(* garbage collector runs between any two assignments of the main thread.  *)
(***************************************************************************)
EXTENDS Naturals, Sequences

CONSTANTS
  Workers,         \* Envoy's worker threads
  Items,           \* the heap cells a pinedHttpFilterConfig can occupy
  numberOfVMPool,  \* virtual machines of a JavaScript configuration
  nil

ASSUME PoolAssumption == numberOfVMPool \in Nat \ {0}
ASSUME NilAssumption  == nil \notin Items

(* What newJavaScriptVM does with the script, in order: it runs it, calls  *)
(* OnConfigure, and looks up the two functions that handle headers.        *)
Startup == <<"RunString", "OnConfigure", "hooks">>

VARIABLES
  live,               \* cells that are allocated and not yet collected
  next, prev,         \* the links of linkedList, nil in a free cell
  httpFilterConfigs,  \* the first item
  pc,                 \* where the main thread is in the module
  item,               \* the pinned configuration that its call is about
  vms,                \* the pool that newJavaScriptFilterConfig has filled
  vm,                 \* the machine that newJavaScriptVM has in hand
  obj,                \* the machines of each pinned configuration
  held,               \* the configurations (as uintptr) that Envoy has
  creating,           \* the configuration each worker creates a filter from
  given               \* the machine of the filter that NewFilter has returned

links == <<next, prev>>
jsVars == <<vms, vm>>
workerVars == <<creating, given>>
vars == <<live, links, httpFilterConfigs, pc, item, jsVars, obj, held, workerVars>>

Null == Items \cup {nil}

(* A machine is what has been done with it. *)
Machines == {SubSeq(Startup, 1, n) : n \in 0..Len(Startup)}

(* Type correctness; a configuration is pinned with all of its machines or *)
(* (any filter but the JavaScript one) with none.                          *)
TypeOK ==
  /\ live \in SUBSET Items
  /\ next \in [Items -> Null] /\ prev \in [Items -> Null]
  /\ httpFilterConfigs \in Null
  /\ pc \in {"envoy", "build", "pin", "pinPrev", "pinHead", "unpinPrev", "unpinNext"}
  /\ item \in Null
  /\ vms \in Seq(Machines) /\ vm \in Machines
  /\ obj \in [Items -> {<< >>} \cup [1..numberOfVMPool -> Machines]]
  /\ held \in SUBSET Items
  /\ creating \in [Workers -> Null]
  /\ given \in [Workers -> Machines \cup {nil}]

Init ==
  /\ live = {} /\ held = {}
  /\ next = [x \in Items |-> nil] /\ prev = [x \in Items |-> nil]
  /\ httpFilterConfigs = nil
  /\ pc = "envoy" /\ item = nil
  /\ vms = << >> /\ vm = << >>
  /\ obj = [x \in Items |-> << >>]
  /\ creating = [w \in Workers |-> nil]
  /\ given = [w \in Workers |-> nil]

-----------------------------------------------------------------------------
(* on_http_filter_config_new, on the main thread. newHttpFilterConfig      *)
(* chooses by the name of the filter.                                      *)
Goto(from, to) == pc = from /\ pc' = to

ConfigNew(name) ==
  /\ Goto("envoy", IF name = "javascript" THEN "build" ELSE "pin")
  /\ UNCHANGED <<live, links, httpFilterConfigs, item, jsVars, obj, held, workerVars>>

(* The next step of newJavaScriptVM succeeds. After the last one the       *)
(* machine is in the pool, and after the last machine the constructor      *)
(* returns.                                                                *)
BuildStep ==
  LET started == Append(vm, Startup[Len(vm) + 1])
      full == Len(vms) + 1 = numberOfVMPool
  IN  /\ \/ /\ Len(started) < Len(Startup)
            /\ vm' = started
            /\ UNCHANGED vms
            /\ Goto("build", "build")
         \/ /\ Len(started) = Len(Startup)
            /\ vm' = << >>
            /\ vms' = Append(vms, started)
            /\ Goto("build", IF full THEN "pin" ELSE "build")
      /\ UNCHANGED <<live, links, httpFilterConfigs, item, obj, held, workerVars>>

(* Mutation of BuildFails: the constructor goes on with the machine as far *)
(* as it has come.                                                         *)
BuildFailsOn ==
  /\ Goto("build", IF Len(vms) + 1 = numberOfVMPool THEN "pin" ELSE "build")
  /\ vms' = Append(vms, vm)
  /\ vm' = << >>
  /\ UNCHANGED <<live, links, httpFilterConfigs, item, obj, held, workerVars>>

(* Mutation of BuildFails: the constructor returns what there is.          *)
BuildFailsShort ==
  /\ Goto("build", "pin")
  /\ vm' = << >>
  /\ UNCHANGED <<vms, live, links, httpFilterConfigs, item, obj, held, workerVars>>

(* The script throws, or lacks a function: newJavaScriptVM returns an      *)
(* error, the constructor nil, and Envoy gets 0 instead of an address. The *)
(* machines are left to the collector.                                     *)
BuildFails ==
  /\ Goto("build", "envoy")
  /\ vms' = << >> /\ vm' = << >>
  /\ UNCHANGED <<live, links, httpFilterConfigs, item, obj, held, workerVars>>

(* item := &pinedHttpFilterConfig{..., next: m.httpFilterConfigs} *)
PinItem(x) ==
  /\ Goto("pin", "pinPrev")
  /\ x \notin live
  /\ live' = live \cup {x}
  /\ item' = x
  /\ obj' = [obj EXCEPT ![x] = vms]
  /\ next' = [next EXCEPT ![x] = httpFilterConfigs]
  /\ vms' = << >>
  /\ UNCHANGED <<prev, httpFilterConfigs, vm, held, workerVars>>

(* Mutation of PinPrev: the old first item is not told of the new one. *)
PinPrevForgotten ==
  /\ Goto("pinPrev", "pinHead")
  /\ UNCHANGED <<live, links, httpFilterConfigs, item, jsVars, obj, held, workerVars>>

(* if m.httpFilterConfigs != nil { m.httpFilterConfigs.prev = item } *)
PinPrev ==
  /\ Goto("pinPrev", "pinHead")
  /\ prev' = IF httpFilterConfigs = nil THEN prev ELSE [prev EXCEPT ![httpFilterConfigs] = item]
  /\ UNCHANGED <<live, next, httpFilterConfigs, item, jsVars, obj, held, workerVars>>

(* m.httpFilterConfigs = item, and the return of the address to Envoy. *)
PinHead ==
  /\ Goto("pinHead", "envoy")
  /\ httpFilterConfigs' = item
  /\ held' = held \cup {item}
  /\ item' = nil
  /\ UNCHANGED <<live, links, jsVars, obj, workerVars>>

(* on_http_filter_config_destroy, on the main thread. Envoy keeps a        *)
(* configuration as long as a filter is being created from it. Destroy     *)
(* itself does nothing in any filter.                                      *)
ConfigDestroy(x) ==
  /\ Goto("envoy", "unpinPrev")
  /\ x \in held
  /\ \A w \in Workers : creating[w] # x
  /\ held' = held \ {x}
  /\ item' = x
  /\ UNCHANGED <<live, links, httpFilterConfigs, jsVars, obj, workerVars>>

(* if filterConfig.prev != nil { filterConfig.prev.next = filterConfig.next } *)
(* else { m.httpFilterConfigs = filterConfig.next }                           *)
UnpinPrev ==
  /\ Goto("unpinPrev", "unpinNext")
  /\ \/ /\ prev[item] # nil
        /\ next' = [next EXCEPT ![prev[item]] = next[item]]
        /\ UNCHANGED httpFilterConfigs
     \/ /\ prev[item] = nil
        /\ httpFilterConfigs' = next[item]
        /\ UNCHANGED next
  /\ UNCHANGED <<live, prev, item, jsVars, obj, held, workerVars>>

(* Mutation of UnpinNext: the successor keeps its link to the item. *)
UnpinNextForgotten ==
  /\ Goto("unpinNext", "envoy")
  /\ item' = nil
  /\ UNCHANGED <<live, links, httpFilterConfigs, jsVars, obj, held, workerVars>>

(* if filterConfig.next != nil { filterConfig.next.prev = filterConfig.prev } *)
(* and the return.                                                            *)
UnpinNext ==
  /\ Goto("unpinNext", "envoy")
  /\ prev' = IF next[item] = nil THEN prev ELSE [prev EXCEPT ![next[item]] = prev[item]]
  /\ item' = nil
  /\ UNCHANGED <<live, next, httpFilterConfigs, jsVars, obj, held, workerVars>>

-----------------------------------------------------------------------------
(* on_http_filter_new, on a worker thread: it unwraps the address and      *)
(* calls NewFilter, which takes a machine of the pool at random.           *)
FilterNew(w, x) ==
  /\ creating[w] = nil /\ given[w] = nil
  /\ x \in held
  /\ creating' = [creating EXCEPT ![w] = x]
  /\ UNCHANGED <<live, links, httpFilterConfigs, pc, item, jsVars, obj, held, given>>

NewFilter(w) ==
  /\ creating[w] # nil
  /\ \/ obj[creating[w]] = << >> /\ UNCHANGED given
     \/ \E i \in DOMAIN obj[creating[w]] : given' = [given EXCEPT ![w] = obj[creating[w]][i]]
  /\ creating' = [creating EXCEPT ![w] = nil]
  /\ UNCHANGED <<live, links, httpFilterConfigs, pc, item, jsVars, obj, held>>

(* The filter is pinned in a list of its own kind, which MemoryManager     *)
(* models, and its address returned.                                       *)
FilterReturn(w) ==
  /\ given[w] # nil
  /\ given' = [given EXCEPT ![w] = nil]
  /\ UNCHANGED <<live, links, httpFilterConfigs, pc, item, jsVars, obj, held, creating>>

-----------------------------------------------------------------------------
(* The garbage collector, as in MemoryManager: it takes a cell that a set  *)
(* with the roots, closed under the links, leaves out.                     *)
Roots == ({httpFilterConfigs, item} \cup {creating[w] : w \in Workers}) \ {nil}

Garbage(x) ==
  \E S \in SUBSET Items :
     /\ x \notin S
     /\ Roots \subseteq S
     /\ \A y \in S : next[y] \in S \cup {nil} /\ prev[y] \in S \cup {nil}

Collect(x) ==
  /\ x \in live
  /\ Garbage(x)
  /\ live' = live \ {x}
  /\ next' = [next EXCEPT ![x] = nil]
  /\ prev' = [prev EXCEPT ![x] = nil]
  /\ obj' = [obj EXCEPT ![x] = << >>]
  /\ UNCHANGED <<httpFilterConfigs, pc, item, jsVars, held, workerVars>>

-----------------------------------------------------------------------------
Building == BuildStep \/ BuildFails
Pinning == (\E x \in Items : PinItem(x)) \/ PinPrev \/ PinHead
Unpinning == UnpinPrev \/ UnpinNext

Next ==
  \/ \E name \in {"javascript", "other"} : ConfigNew(name)
  \/ Building \/ Pinning \/ Unpinning
  \/ \E x \in Items : ConfigDestroy(x) \/ Collect(x)
  \/ \E w \in Workers :
        NewFilter(w) \/ FilterReturn(w) \/ \E x \in Items : FilterNew(w, x)

(* Calls that have begun go on, if there is memory; the collector keeps    *)
(* running. Envoy owes nothing.                                            *)
Fairness ==
  /\ WF_vars(Building \/ Pinning \/ Unpinning)
  /\ \A w \in Workers : WF_vars(NewFilter(w) \/ FilterReturn(w))
  /\ \A x \in Items : WF_vars(Collect(x))

SafetySpec == Init /\ [][Next]_vars
Spec == SafetySpec /\ Fairness

-----------------------------------------------------------------------------
(* A configuration whose address Envoy has, or from which a worker thread  *)
(* is creating a filter, has not been garbage collected, whatever the main *)
(* thread does to the list at the same time.                               *)
ConfigsAlive == held \subseteq live /\ \A w \in Workers : creating[w] \in live \cup {nil}

(* Every JavaScript filter gets a machine that has run the script, was     *)
(* configured once and has both hooks, although the machines are started   *)
(* one after the other and any step of any of them may fail: a pool is     *)
(* handed out whole or not at all.                                         *)
MachinesReady == \A w \in Workers : given[w] \in {nil, Startup}

(* The items found by following next from the first one. *)
Leads(S) ==
  /\ httpFilterConfigs \in S \cup {nil}
  /\ \A y \in S : next[y] \in S \cup {nil}

Linked == {x \in Items : \A S \in SUBSET Items : Leads(S) => x \in S}

(* The list implements the life cycle of PinnedObjects, as the lists of    *)
(* filters do: a configuration is pinned from the write of the head to the *)
(* write that bypasses it, and one that Envoy has destroyed is collected.  *)
Status(x) ==
  IF x \notin live THEN "free"
  ELSE IF x \in Linked THEN "pinned"
  ELSE IF item = x /\ pc \in {"pinPrev", "pinHead"} THEN "fresh"
  ELSE "released"

Promise == INSTANCE PinnedObjects WITH status <- [x \in Items |-> Status(x)]

(* No configuration is lost or leaked: fresh ones get pinned, pinned ones  *)
(* stay until Envoy destroys them, released ones are always collected.     *)
ImplementsPinning == Promise!Spec
=============================================================================
