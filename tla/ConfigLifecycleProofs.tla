----------------------- MODULE ConfigLifecycleProofs -----------------------
(***************************************************************************)
(* Proofs about ConfigLifecycle for any number of configurations, worker   *)
(* threads and virtual machines.                                           *)
(*                                                                         *)
(* As in MemoryManagerProofs, the links disagree between two assignments,  *)
(* and Back(x) is what prev[x] will be when the running call has ended.    *)
(* There is one list and one thread that writes it, but the list has no    *)
(* lock: the worker threads and the collector run at every step.           *)
(***************************************************************************)
EXTENDS ConfigLifecycle, SequenceTheorems, TLAPS

(* The configurations that belong to the list. *)
Pinned == {x \in Items : x \in held \/ (pc = "unpinPrev" /\ x = item)}

(* The running call, the addresses that Envoy holds and the heap. *)
CallOK ==
  /\ item = nil <=> pc \in {"envoy", "build", "pin"}
  /\ item # nil => item \in live /\ item \notin held
  /\ held \subseteq live
  /\ \A w \in Workers : creating[w] \in held \cup {nil}

Back(x) ==
  IF pc = "pinHead" /\ prev[x] = item THEN nil
  ELSE IF pc = "unpinNext" /\ prev[x] = item THEN prev[item]
  ELSE prev[x]

(* The list: closed, connected, and Back inverts next. *)
ListOK ==
  /\ httpFilterConfigs \in Pinned \cup {nil}
  /\ \A x \in Pinned : next[x] \in Pinned \cup {nil}
  /\ \A x \in Pinned, S \in SUBSET Items : Leads(S) => x \in S
  /\ httpFilterConfigs # nil => Back(httpFilterConfigs) = nil
  /\ \A x \in Pinned :
        /\ Back(x) = nil => httpFilterConfigs = x
        /\ Back(x) # nil => Back(x) \in Pinned /\ next[Back(x)] = x
        /\ next[x] # nil => Back(next[x]) = x

(* The links of the item that the running call is about. *)
LocalOK ==
  /\ pc \in {"pinPrev", "pinHead"} => prev[item] = nil /\ next[item] = httpFilterConfigs
  /\ pc = "pinHead" /\ httpFilterConfigs # nil => prev[httpFilterConfigs] = item
  /\ pc = "unpinNext" =>
        /\ next[item] \in Pinned \cup {nil}
        /\ prev[item] \in Pinned \cup {nil}
        /\ next[item] # nil => prev[next[item]] = item
        /\ \A x \in Pinned : prev[x] = item => x = next[item]

FreeCells == \A x \in Items \ live : next[x] = nil /\ prev[x] = nil

(* The pool: machines that are in it have been started to the end, and a   *)
(* pool that leaves the constructor is full.                               *)
BuildOK ==
  /\ vms \in Seq({Startup})
  /\ pc = "build" => Len(vms) < numberOfVMPool /\ vm # Startup
  /\ pc = "pin" => vms = << >> \/ Len(vms) = numberOfVMPool
  /\ pc \notin {"build", "pin"} => vms = << >>
  /\ pc # "build" => vm = << >>
  /\ \A x \in Items : obj[x] \in {<< >>} \cup [1..numberOfVMPool -> {Startup}]
  /\ \A w \in Workers : given[w] \in {nil, Startup}

IInv ==
  /\ TypeOK
  /\ CallOK
  /\ ListOK
  /\ LocalOK
  /\ FreeCells
  /\ BuildOK

-----------------------------------------------------------------------------
(* A machine that has been started half can take the next step, and one of *)
(* full length has taken all of them, in order.                            *)
LEMMA MachineStep ==
  ASSUME NEW m \in Machines
  PROVE  /\ m \in Seq({"RunString", "OnConfigure", "hooks"})
         /\ Len(m) \in 0..3
         /\ Len(m) = 3 => m = Startup
         /\ m # Startup => /\ Len(m) < 3
                           /\ Append(m, Startup[Len(m) + 1]) \in Machines
                           /\ Len(Append(m, Startup[Len(m) + 1])) = Len(m) + 1
<1> DEFINE T == {"RunString", "OnConfigure", "hooks"}
<1>1. Startup \in Seq(T) /\ Len(Startup) = 3
  BY DEF Startup
<1>0. \A i \in 1..3 : Startup[i] \in T
  BY DEF Startup
<1>2. PICK n \in 0..3 : m = SubSeq(Startup, 1, n)
  BY <1>1 DEF Machines
<1>3. \A i \in 1..n : Startup[i] \in T
  BY <1>0
<1>4. m \in Seq(T) /\ Len(m) = n
  <2>1. SubSeq(Startup, 1, n) \in Seq(T)
    BY <1>3, SubSeqProperties
  <2>2. Len(SubSeq(Startup, 1, n)) = IF 1 <= n THEN n - 1 + 1 ELSE 0
    BY <1>3, SubSeqProperties
  <2> QED
    BY <1>2, <2>1, <2>2
<1>5. n = 3 => m = Startup
  BY <1>1, <1>2, SubSeqFull
<1>6. ASSUME n < 3 PROVE Append(m, Startup[n + 1]) = SubSeq(Startup, 1, n + 1)
  <2>1. Startup[n + 1] \in T
    BY <1>0, <1>6
  <2>2. SubSeq(Startup, 1, n + 1) = SubSeq(Startup, 1, (n + 1) - 1) \o <<Startup[n + 1]>>
    BY <1>1, <1>6, SubSeqRecursiveSecond
  <2>3. (n + 1) - 1 = n
    OBVIOUS
  <2> QED
    BY <1>2, <1>4, <2>1, <2>2, <2>3, AppendIsConcat
<1>7. ASSUME n < 3
      PROVE  /\ Append(m, Startup[n + 1]) \in Machines
             /\ Len(Append(m, Startup[n + 1])) = n + 1
  <2>1. Append(m, Startup[n + 1]) \in Machines
    BY <1>1, <1>6, <1>7, n + 1 \in 0..3 DEF Machines
  <2>2. Startup[n + 1] \in T
    BY <1>0, <1>7
  <2>3. Len(Append(m, Startup[n + 1])) = Len(m) + 1
    BY <1>4, <2>2, AppendProperties
  <2> QED
    BY <1>4, <2>1, <2>3
<1>8. m # Startup => n < 3
  BY <1>5
<1> QED
  BY <1>4, <1>5, <1>7, <1>8

(* An empty machine has taken no step of Startup, a full one all three.    *)
LEMMA Stages ==
  /\ << >> \in Machines /\ Startup \in Machines
  /\ Startup # << >> /\ Len(Startup) = 3 /\ Len(<< >>) = 0
<1>1. Startup \in Seq({"RunString", "OnConfigure", "hooks"}) /\ Len(Startup) = 3
  BY DEF Startup
<1>2. SubSeq(Startup, 1, 3) = Startup
  BY <1>1, SubSeqFull
<1>3. SubSeq(Startup, 1, 0) = << >>
  BY SubSeqEmpty
<1> QED
  BY <1>1, <1>2, <1>3 DEF Machines

(* A machine that lacks a step has not been started. *)
LEMMA Shorter ==
  ASSUME NEW m, Len(m) < Len(Startup)
  PROVE  m # Startup
<1> SUFFICES ASSUME m = Startup PROVE FALSE
  OBVIOUS
<1>1. 3 < 3
  BY Stages
<1> QED
  BY <1>1

(* The machine in hand after the next step of newJavaScriptVM. *)
started == Append(vm, Startup[Len(vm) + 1])

(* The two ways in which newJavaScriptVM and the constructor go on. *)
LEMMA BuildCases ==
  ASSUME BuildStep
  PROVE  /\ pc = "build"
         /\ UNCHANGED <<live, links, httpFilterConfigs, item, obj, held, workerVars>>
         /\ \/ vm' = started /\ vms' = vms /\ pc' = "build" /\ Len(started) < Len(Startup)
            \/ /\ vm' = << >> /\ vms' = Append(vms, started) /\ Len(started) = Len(Startup)
               /\ pc' = IF Len(vms) + 1 = numberOfVMPool THEN "pin" ELSE "build"
BY Zenon DEF BuildStep, Goto, started

(* Type correctness: what the heap cells, the pool and the calls hold.     *)
LEMMA TypeStep == IInv /\ [Next]_vars => TypeOK'
<1> SUFFICES ASSUME IInv, [Next]_vars PROVE TypeOK'
  OBVIOUS
<1> USE DEF IInv, TypeOK, CallOK, Null, Goto, links, jsVars, workerVars
<1>1. ASSUME NEW name, ConfigNew(name) PROVE TypeOK'
  BY <1>1 DEF ConfigNew
<1>2. ASSUME BuildStep PROVE TypeOK'
  <2>1. vm # Startup
    BY <1>2, BuildCases DEF BuildOK
  <2>2. started \in Machines
    BY <2>1, MachineStep DEF started
  <2>3. vm' \in Machines
    BY <1>2, <2>2, BuildCases, Stages
  <2>4. vms' \in Seq(Machines)
    <3>1. vms' = vms \/ vms' = Append(vms, started)
      BY <1>2, BuildCases
    <3> QED
      BY <2>2, <3>1, AppendProperties
  <2>5. pc' \in {"build", "pin"}
    BY <1>2, BuildCases
  <2>6. UNCHANGED <<live, links, httpFilterConfigs, item, obj, held, workerVars>>
    BY <1>2, BuildCases
  <2> QED
    BY <2>3, <2>4, <2>5, <2>6
<1>3. ASSUME BuildFails PROVE TypeOK'
  BY <1>3, Stages, EmptySeq DEF BuildFails
<1>4. ASSUME NEW x \in Items, PinItem(x) PROVE TypeOK'
  <2>1. vms \in {<< >>} \cup [1..numberOfVMPool -> Machines]
    <3>1. vms = << >> \/ Len(vms) = numberOfVMPool
      BY <1>4 DEF PinItem, BuildOK
    <3>2. vms \in [1..Len(vms) -> Machines]
      BY LenProperties
    <3> QED
      BY <3>1, <3>2
  <2>2. vms' \in Seq(Machines)
    BY <1>4, EmptySeq DEF PinItem
  <2> QED
    BY <1>4, <2>1, <2>2 DEF PinItem
<1>5. ASSUME PinPrev PROVE TypeOK'
  BY <1>5 DEF PinPrev
<1>6. ASSUME PinHead PROVE TypeOK'
  BY <1>6, NilAssumption DEF PinHead
<1>7. ASSUME NEW x \in Items, ConfigDestroy(x) PROVE TypeOK'
  BY <1>7 DEF ConfigDestroy
<1>8. ASSUME UnpinPrev PROVE TypeOK'
  BY <1>8 DEF UnpinPrev
<1>9. ASSUME UnpinNext PROVE TypeOK'
  BY <1>9 DEF UnpinNext
<1>10. ASSUME NEW w \in Workers, NEW x \in Items, FilterNew(w, x) PROVE TypeOK'
  BY <1>10 DEF FilterNew
<1>11. ASSUME NEW w \in Workers, NewFilter(w) PROVE TypeOK'
  <2>1. creating[w] \in Items
    BY <1>11 DEF NewFilter
  <2>2. ASSUME NEW i \in DOMAIN obj[creating[w]], obj[creating[w]] # << >>
        PROVE  obj[creating[w]][i] \in Machines
    BY <2>1, <2>2
  <2>3. given' \in [Workers -> Machines \cup {nil}]
    <3>1. CASE given' = given
      BY <3>1
    <3>2. CASE obj[creating[w]] # << >> /\ \E i \in DOMAIN obj[creating[w]] :
                 given' = [given EXCEPT ![w] = obj[creating[w]][i]]
      BY <2>2, <3>2
    <3> QED
      BY <1>11, <3>1, <3>2 DEF NewFilter
  <2> QED
    BY <1>11, <2>3 DEF NewFilter
<1>12. ASSUME NEW w \in Workers, FilterReturn(w) PROVE TypeOK'
  BY <1>12 DEF FilterReturn
<1>13. ASSUME NEW x \in Items, Collect(x) PROVE TypeOK'
  BY <1>13 DEF Collect
<1>14. CASE UNCHANGED vars
  BY <1>14 DEF vars
<1> QED
  BY <1>1, <1>2, <1>3, <1>4, <1>5, <1>6, <1>7, <1>8, <1>9, <1>10, <1>11,
     <1>12, <1>13, <1>14 DEF Next, Building, Pinning, Unpinning

(* The pool is handed out whole or not at all, whichever step of starting  *)
(* a machine fails.                                                        *)
LEMMA BuildPreserved == IInv /\ [Next]_vars => BuildOK'
<1> SUFFICES ASSUME IInv, [Next]_vars PROVE BuildOK'
  OBVIOUS
<1> USE DEF IInv, TypeOK, BuildOK, Null, Goto, links, jsVars, workerVars
<1>1. ASSUME NEW name, ConfigNew(name) PROVE BuildOK'
  BY <1>1, Stages, PoolAssumption DEF ConfigNew
<1>2. ASSUME BuildStep PROVE BuildOK'
  <2>0. pc = "build" /\ obj' = obj /\ given' = given
    BY <1>2, BuildCases
  <2>1. vm # Startup /\ Len(vms) < numberOfVMPool /\ Len(vms) \in Nat
    BY <2>0, LenProperties
  <2>2. started \in Machines /\ Len(started) \in 0..3
    BY <2>1, MachineStep DEF started
  <2>5. started = Startup \/ Len(started) # Len(Startup)
    BY <2>2, MachineStep, Stages
  <2>3. CASE vm' = started /\ vms' = vms /\ pc' = "build" /\ Len(started) < Len(Startup)
    <3>1. started # Startup
      BY <2>3, Shorter
    <3> QED
      BY <2>0, <2>1, <2>3, <3>1
  <2>4. CASE /\ vm' = << >> /\ vms' = Append(vms, started) /\ Len(started) = Len(Startup)
             /\ pc' = IF Len(vms) + 1 = numberOfVMPool THEN "pin" ELSE "build"
    <3>1. started = Startup
      BY <2>4, <2>5
    <3>3. vms' \in Seq({Startup}) /\ Len(vms') = Len(vms) + 1
      BY <2>4, <3>1, AppendProperties
    <3>5. pc' = "build" => Len(vms') < numberOfVMPool
      BY <2>1, <2>4, <3>3, PoolAssumption
    <3>6. pc' = "pin" => Len(vms') = numberOfVMPool
      BY <2>4, <3>3
    <3>7. pc' \in {"build", "pin"} /\ vm' # Startup
      BY <2>4, Stages
    <3> QED
      BY <2>0, <2>4, <3>3, <3>5, <3>6, <3>7
  <2> QED
    BY <1>2, <2>3, <2>4, BuildCases
<1>3. ASSUME BuildFails PROVE BuildOK'
  BY <1>3, EmptySeq DEF BuildFails
<1>4. ASSUME NEW x \in Items, PinItem(x) PROVE BuildOK'
  <2>1. vms \in {<< >>} \cup [1..numberOfVMPool -> {Startup}]
    <3>1. vms = << >> \/ Len(vms) = numberOfVMPool
      BY <1>4 DEF PinItem
    <3>2. vms \in [1..Len(vms) -> {Startup}]
      BY LenProperties
    <3> QED
      BY <3>1, <3>2
  <2>2. vms' \in Seq({Startup})
    BY <1>4, EmptySeq DEF PinItem
  <2> QED
    BY <1>4, <2>1, <2>2 DEF PinItem
<1>5. ASSUME PinPrev \/ PinHead \/ UnpinPrev \/ UnpinNext PROVE BuildOK'
  BY <1>5 DEF PinPrev, PinHead, UnpinPrev, UnpinNext
<1>6. ASSUME NEW x \in Items, ConfigDestroy(x) PROVE BuildOK'
  BY <1>6 DEF ConfigDestroy
<1>7. ASSUME NEW w \in Workers, NEW x \in Items, FilterNew(w, x) PROVE BuildOK'
  BY <1>7 DEF FilterNew
<1>8. ASSUME NEW w \in Workers, NewFilter(w) PROVE BuildOK'
  <2>1. creating[w] \in Items
    BY <1>8 DEF NewFilter
  <2>2. ASSUME NEW i \in DOMAIN obj[creating[w]], obj[creating[w]] # << >>
        PROVE  obj[creating[w]][i] = Startup
    BY <2>1, <2>2
  <2>3. \A v \in Workers : given'[v] \in {nil, Startup}
    <3>1. CASE given' = given
      BY <3>1
    <3>2. CASE obj[creating[w]] # << >> /\ \E i \in DOMAIN obj[creating[w]] :
                 given' = [given EXCEPT ![w] = obj[creating[w]][i]]
      BY <2>2, <3>2
    <3> QED
      BY <1>8, <3>1, <3>2 DEF NewFilter
  <2> QED
    BY <1>8, <2>3 DEF NewFilter
<1>9. ASSUME NEW w \in Workers, FilterReturn(w) PROVE BuildOK'
  BY <1>9 DEF FilterReturn
<1>10. ASSUME NEW x \in Items, Collect(x) PROVE BuildOK'
  BY <1>10 DEF Collect
<1>11. CASE UNCHANGED vars
  BY <1>11 DEF vars
<1> QED
  BY <1>1, <1>2, <1>3, <1>4, <1>5, <1>6, <1>7, <1>8, <1>9, <1>10, <1>11
     DEF Next, Building, Pinning, Unpinning

-----------------------------------------------------------------------------
(* What the garbage collector may take is neither in the list nor in use,  *)
(* because the roots lead to all of these.                                 *)
LEMMA GarbageUnused ==
  ASSUME TypeOK, CallOK, ListOK, NEW x \in Items, Garbage(x)
  PROVE  x \notin Pinned /\ x # item /\ x \notin held
<1>1. PICK S \in SUBSET Items :
         /\ x \notin S
         /\ Roots \subseteq S
         /\ \A y \in S : next[y] \in S \cup {nil} /\ prev[y] \in S \cup {nil}
  BY DEF Garbage
<1>2. Leads(S)
  BY <1>1 DEF Leads, Roots
<1>3. x \notin Pinned
  BY <1>1, <1>2 DEF ListOK
<1>4. x # item
  BY <1>1, NilAssumption DEF Roots
<1> QED
  BY <1>3, <1>4 DEF Pinned

(* A cell is handled by one call at a time, and what Envoy holds, or a     *)
(* worker thread creates a filter from, stays on the heap.                 *)
LEMMA CallStep == IInv /\ [Next]_vars => CallOK'
<1> SUFFICES ASSUME IInv, [Next]_vars PROVE CallOK'
  OBVIOUS
<1> USE NilAssumption DEF IInv, TypeOK, CallOK, Null, Goto, links, jsVars, workerVars
<1>1. ASSUME NEW name, ConfigNew(name) PROVE CallOK'
  BY <1>1 DEF ConfigNew
<1>2. ASSUME BuildStep PROVE CallOK'
  BY <1>2, BuildCases
<1>3. ASSUME BuildFails PROVE CallOK'
  BY <1>3 DEF BuildFails
<1>4. ASSUME NEW x \in Items, PinItem(x) PROVE CallOK'
  BY <1>4 DEF PinItem
<1>5. ASSUME PinPrev PROVE CallOK'
  BY <1>5 DEF PinPrev
<1>6. ASSUME PinHead PROVE CallOK'
  BY <1>6 DEF PinHead
<1>7. ASSUME NEW x \in Items, ConfigDestroy(x) PROVE CallOK'
  BY <1>7 DEF ConfigDestroy
<1>8. ASSUME UnpinPrev PROVE CallOK'
  BY <1>8 DEF UnpinPrev
<1>9. ASSUME UnpinNext PROVE CallOK'
  BY <1>9 DEF UnpinNext
<1>10. ASSUME NEW w \in Workers, NEW x \in Items, FilterNew(w, x) PROVE CallOK'
  BY <1>10 DEF FilterNew
<1>11. ASSUME NEW w \in Workers, NewFilter(w) PROVE CallOK'
  BY <1>11 DEF NewFilter
<1>12. ASSUME NEW w \in Workers, FilterReturn(w) PROVE CallOK'
  BY <1>12 DEF FilterReturn
<1>13. ASSUME NEW x \in Items, Collect(x) PROVE CallOK'
  BY <1>13, GarbageUnused DEF Collect
<1>14. CASE UNCHANGED vars
  BY <1>14 DEF vars
<1> QED
  BY <1>1, <1>2, <1>3, <1>4, <1>5, <1>6, <1>7, <1>8, <1>9, <1>10, <1>11,
     <1>12, <1>13, <1>14 DEF Next, Building, Pinning, Unpinning

(* The links that the two writes of an unpin follow lead to the list.      *)
LEMMA Reach ==
  ASSUME IInv
  PROVE  /\ Pinned \subseteq live
         /\ pc = "unpinPrev" => /\ item \in Pinned
                                /\ next[item] \in Pinned \cup {nil}
                                /\ prev[item] \in Pinned \cup {nil}
         /\ pc \in {"pinPrev", "pinHead", "unpinNext"} => item \in Items /\ item \notin Pinned
<1> USE NilAssumption DEF IInv, TypeOK, CallOK, Null, Pinned
<1>1. Pinned \subseteq live
  OBVIOUS
<1>2. ASSUME pc = "unpinPrev"
      PROVE  /\ item \in Pinned
             /\ next[item] \in Pinned \cup {nil}
             /\ prev[item] \in Pinned \cup {nil}
  <2>1. item \in Pinned
    BY <1>2
  <2>2. Back(item) = prev[item]
    BY <1>2 DEF Back
  <2> QED
    BY <2>1, <2>2 DEF ListOK
<1> QED
  BY <1>1, <1>2

(* A free cell carries no links from its former use. *)
LEMMA FreeStep == IInv /\ [Next]_vars => FreeCells'
<1> SUFFICES ASSUME IInv, [Next]_vars PROVE FreeCells'
  OBVIOUS
<1> USE NilAssumption DEF IInv, TypeOK, FreeCells, Null, Goto, links
<1>1. ASSUME NEW x \in Items, PinItem(x) PROVE FreeCells'
  BY <1>1 DEF PinItem
<1>2. ASSUME PinPrev PROVE FreeCells'
  BY <1>2, Reach DEF PinPrev, ListOK
<1>3. ASSUME UnpinPrev PROVE FreeCells'
  BY <1>3, Reach DEF UnpinPrev
<1>4. ASSUME UnpinNext PROVE FreeCells'
  BY <1>4, Reach DEF UnpinNext, LocalOK
<1>5. ASSUME NEW x \in Items, Collect(x) PROVE FreeCells'
  BY <1>5 DEF Collect
<1>6. ASSUME BuildStep PROVE FreeCells'
  BY <1>6, BuildCases
<1>7. ASSUME NEW x, ConfigNew(x) \/ BuildFails \/ PinHead \/ ConfigDestroy(x) PROVE FreeCells'
  BY <1>7 DEF ConfigNew, BuildFails, PinHead, ConfigDestroy
<1>8. ASSUME NEW w, NEW x, FilterNew(w, x) \/ NewFilter(w) \/ FilterReturn(w) PROVE FreeCells'
  BY <1>8 DEF FilterNew, NewFilter, FilterReturn
<1>9. CASE UNCHANGED vars
  BY <1>9 DEF vars
<1> QED
  BY <1>1, <1>2, <1>3, <1>4, <1>5, <1>6, <1>7, <1>8, <1>9
     DEF Next, Building, Pinning, Unpinning

(* A list whose items, head, next links and Back are as before is as well  *)
(* formed as before.                                                       *)
LEMMA ListFrame ==
  ASSUME TypeOK, ListOK, Pinned' = Pinned, httpFilterConfigs' = httpFilterConfigs,
         \A x \in Pinned : next'[x] = next[x] /\ Back(x)' = Back(x)
  PROVE  ListOK'
<1>1. Pinned \subseteq Items
  BY DEF Pinned
<1>2. ASSUME NEW x \in Pinned, NEW S \in SUBSET Items, Leads(S)' PROVE x \in S
  <2>1. Leads(S \cap Pinned)
    BY <1>1, <1>2 DEF Leads, ListOK
  <2> QED
    BY <1>1, <2>1 DEF ListOK
<1>3. /\ httpFilterConfigs' \in Pinned' \cup {nil}
      /\ \A x \in Pinned' : next'[x] \in Pinned' \cup {nil}
  BY DEF ListOK
<1>4. httpFilterConfigs' # nil => Back(httpFilterConfigs)' = nil
  BY DEF ListOK
<1>5. ASSUME NEW x \in Pinned
      PROVE  /\ Back(x)' = nil => httpFilterConfigs' = x
             /\ Back(x)' # nil => Back(x)' \in Pinned' /\ next'[Back(x)'] = x
             /\ next'[x] # nil => Back(next[x])' = x
  BY <1>5 DEF ListOK
<1> QED
  BY <1>2, <1>3, <1>4, <1>5 DEF ListOK

(* The writes of a pin. The first two prepare the list for its new item.   *)
LEMMA PinItemList ==
  ASSUME IInv, NEW i \in Items, PinItem(i)
  PROVE  Pinned' = Pinned /\ ListOK'
<1> USE NilAssumption DEF PinItem, Goto, IInv, TypeOK
<1>1. i \notin Pinned
  BY Reach
<1>2. Pinned' = Pinned
  BY DEF Pinned
<1>3. ASSUME NEW x \in Pinned PROVE next'[x] = next[x] /\ Back(x)' = Back(x)
  BY <1>1, <1>3 DEF Pinned, Back
<1> QED
  BY <1>2, <1>3, ListFrame

(* The back link of the old head leads to the new item before the head does. *)
LEMMA PinPrevList ==
  ASSUME IInv, PinPrev
  PROVE  Pinned' = Pinned /\ ListOK'
<1> USE NilAssumption DEF PinPrev, Goto, IInv, TypeOK, links
<1>1. item \in Items /\ item \notin Pinned
  BY Reach
<1>2. Pinned' = Pinned
  BY DEF Pinned
<1>3. ASSUME NEW x \in Pinned PROVE Back(x)' = Back(x)
  <2>1. x \in Items /\ Back(x) = prev[x]
    BY <1>3 DEF Back, Pinned
  <2>2. prev[x] # item
    BY <1>1, <1>3, <2>1 DEF ListOK
  <2>3. Back(x)' = IF prev'[x] = item THEN nil ELSE prev'[x]
    BY DEF Back
  <2>4. prev'[x] = IF x = httpFilterConfigs THEN item ELSE prev[x]
    BY <1>1, <2>1 DEF Null
  <2>5. x = httpFilterConfigs => Back(x) = nil
    BY <2>1 DEF ListOK
  <2> QED
    BY <2>1, <2>2, <2>3, <2>4, <2>5
<1> QED
  BY <1>2, <1>3, ListFrame

(* The new head makes the item a member of the list, in front of the others. *)
LEMMA PinHeadList ==
  ASSUME IInv, PinHead
  PROVE  Pinned' = Pinned \cup {item} /\ ListOK'
<1> USE NilAssumption DEF PinHead, Goto, links
<1>1. /\ item \in Items /\ item \notin Pinned /\ pc = "pinHead" /\ pc' = "envoy"
      /\ Pinned \subseteq Items
  BY Reach DEF Pinned
<1>2. Pinned' = Pinned \cup {item}
  BY <1>1 DEF Pinned
<1>3. /\ prev[item] = nil
      /\ next[item] = httpFilterConfigs
      /\ httpFilterConfigs # nil => prev[httpFilterConfigs] = item
      /\ httpFilterConfigs \in Pinned \cup {nil}
  BY <1>1 DEF IInv, LocalOK, ListOK
<1>4. /\ httpFilterConfigs' = item
      /\ next' = next /\ prev' = prev
  OBVIOUS
<1>5. \A x : Back(x)' = prev[x]
  BY <1>1, <1>4 DEF Back
<1>6. \A x : Back(x) = IF prev[x] = item THEN nil ELSE prev[x]
  BY <1>1 DEF Back
<1>7. ASSUME NEW x \in Pinned', NEW S \in SUBSET Items, Leads(S)' PROVE x \in S
  <2>1. item \in S
    BY <1>1, <1>4, <1>7 DEF Leads
  <2>2. Leads(S)
    BY <1>3, <1>4, <1>7, <2>1 DEF Leads
  <2> QED
    BY <1>2, <1>7, <2>1, <2>2 DEF IInv, ListOK
<1>8. \A x \in Pinned' : next'[x] \in Pinned' \cup {nil}
  BY <1>2, <1>3, <1>4 DEF IInv, ListOK
<1>9. ASSUME NEW x \in Pinned'
      PROVE  /\ Back(x)' = nil => httpFilterConfigs' = x
             /\ Back(x)' # nil => Back(x)' \in Pinned' /\ next'[Back(x)'] = x
             /\ next'[x] # nil => Back(next[x])' = x
  <2>1. CASE x = item
    BY <1>1, <1>2, <1>3, <1>4, <1>5, <2>1 DEF IInv, ListOK
  <2>2. CASE x \in Pinned /\ prev[x] = item
    <3>1. x = httpFilterConfigs
      BY <1>6, <2>2 DEF IInv, ListOK
    <3>2. next[x] \in Pinned \cup {nil}
      BY <2>2 DEF IInv, ListOK
    <3>3. next[x] # nil => Back(next[x]) = x
      BY <2>2 DEF IInv, ListOK
    <3>4. next[x] # nil => prev[next[x]] = x
      BY <1>1, <1>6, <2>2, <3>2, <3>3, x # nil
    <3> QED
      BY <1>1, <1>2, <1>3, <1>4, <1>5, <2>2, <3>1, <3>2, <3>4
  <2>3. CASE x \in Pinned /\ prev[x] # item
    <3>1. next[x] \in Pinned \cup {nil}
      BY <2>3 DEF IInv, ListOK
    <3>2. next[x] # nil => prev[next[x]] = x
      <4>1. next[x] # nil => Back(next[x]) = x
        BY <2>3 DEF IInv, ListOK
      <4> QED
        BY <1>1, <1>6, <2>3, <3>1, <4>1, x # nil
    <3>3. Back(x) = prev[x]
      BY <1>6, <2>3
    <3>4. prev[x] # nil
      BY <1>1, <1>3, <2>3, <3>3 DEF IInv, ListOK
    <3> QED
      BY <1>2, <1>4, <1>5, <2>3, <3>1, <3>2, <3>3, <3>4 DEF IInv, ListOK
  <2> QED
    BY <1>2, <2>1, <2>2, <2>3
<1>10. /\ httpFilterConfigs' \in Pinned'
       /\ Back(httpFilterConfigs)' = nil
  BY <1>2, <1>3, <1>4, <1>5
<1> QED
  BY <1>2, <1>7, <1>8, <1>9, <1>10 DEF ListOK

(* An item of a list is not its own neighbour: the others would lead past  *)
(* it.                                                                     *)
LEMMA NoSelfLoop ==
  ASSUME TypeOK, ListOK, NEW x \in Pinned
  PROVE  next[x] # x
<1> SUFFICES ASSUME next[x] = x PROVE FALSE
  OBVIOUS
<1>1. x # nil /\ Pinned \subseteq Items
  BY NilAssumption DEF Pinned
<1>2. Back(x) = x
  BY <1>1 DEF ListOK
<1>3. Leads(Pinned \ {x})
  BY <1>1, <1>2 DEF Leads, ListOK
<1> QED
  BY <1>1, <1>3 DEF ListOK

(* The writes of an unpin. The first one takes the item out of the list,   *)
(* the second one repairs prev of its successor.                           *)
LEMMA UnpinPrevList ==
  ASSUME IInv, UnpinPrev
  PROVE  /\ Pinned' = Pinned \ {item}
         /\ ListOK'
         /\ LocalOK'
<1> USE NilAssumption
<1>. PICK i, p, n, P : i = item /\ p = prev[i] /\ n = next[i] /\ P = Pinned
  OBVIOUS
<1>1. /\ i \in Items /\ i \in P /\ i # nil
      /\ p \in P \cup {nil}
      /\ n \in P \cup {nil}
      /\ P \subseteq Items /\ nil \notin P
      /\ pc = "unpinPrev"
  BY Reach DEF IInv, UnpinPrev, Goto, Pinned
<1>3. \A x \in P : Back(x) = prev[x]
  BY <1>1 DEF Back
<1>4. /\ httpFilterConfigs \in P \cup {nil}
      /\ \A x \in P : next[x] \in P \cup {nil}
      /\ httpFilterConfigs # nil => prev[httpFilterConfigs] = nil
      /\ \A x \in P :
            /\ prev[x] = nil => httpFilterConfigs = x
            /\ prev[x] # nil => prev[x] \in P /\ next[prev[x]] = x
            /\ next[x] # nil => prev[next[x]] = x
  BY <1>3 DEF IInv, ListOK
<1>5. n # i /\ p # i
  <2>1. next[i] # i
    BY <1>1, NoSelfLoop DEF IInv
  <2>2. n # i
    BY <2>1
  <2>3. p # i
    BY <1>1, <1>4, <2>1
  <2> QED
    BY <2>2, <2>3
<1>6. /\ prev' = prev /\ item' = item /\ held' = held
      /\ pc' = "unpinNext"
      /\ \A x \in Items : next'[x] = IF x = p THEN n ELSE next[x]
      /\ httpFilterConfigs' = IF p = nil THEN n ELSE httpFilterConfigs
  BY <1>1 DEF UnpinPrev, Goto, IInv, TypeOK
<1>7. Pinned' = P \ {i}
  BY <1>1, <1>6 DEF IInv, CallOK, Pinned
<1>8. ASSUME NEW x \in P
      PROVE  /\ Back(x)' = IF prev[x] = i THEN p ELSE prev[x]
             /\ prev[x] = i => x = n
  BY <1>1, <1>4, <1>6, <1>8 DEF Back
<1>9. ASSUME NEW x \in P \ {i}, NEW S \in SUBSET Items, Leads(S)' PROVE x \in S
  <2>1. CASE p = nil \/ p \in S
    <3>1. Leads(S \cup {i})
      BY <1>1, <1>4, <1>6, <1>9, <2>1 DEF Leads
    <3> QED
      BY <1>1, <1>9, <3>1 DEF IInv, ListOK
  <2>2. CASE p # nil /\ p \notin S
    <3>1. Leads(S)
      BY <1>6, <1>9, <2>2 DEF Leads
    <3> QED
      BY <1>9, <3>1 DEF IInv, ListOK
  <2> QED
    BY <2>1, <2>2
<1>10. ASSUME NEW x \in P \ {i}
       PROVE  /\ next'[x] \in (P \ {i}) \cup {nil}
              /\ Back(x)' = nil => httpFilterConfigs' = x
              /\ Back(x)' # nil => Back(x)' \in P \ {i} /\ next'[Back(x)'] = x
              /\ next'[x] # nil => Back(next[x])' = x
  <2>1. next'[x] \in (P \ {i}) \cup {nil}
    BY <1>1, <1>4, <1>5, <1>6
  <2>2. Back(x)' = nil => httpFilterConfigs' = x
    BY <1>1, <1>4, <1>6, <1>8
  <2>3. Back(x)' # nil => Back(x)' \in P \ {i} /\ next'[Back(x)'] = x
    BY <1>1, <1>4, <1>5, <1>6, <1>8
  <2>4. next'[x] # nil => Back(next[x])' = x
    <3>1. ASSUME NEW y \in P \ {i}, y = next'[x] PROVE Back(y)' = x
      BY <1>1, <1>4, <1>6, <1>8, <3>1
    <3> QED
      BY <2>1, <3>1
  <2> QED
    BY <2>1, <2>2, <2>3, <2>4
<1>11. httpFilterConfigs' \in (P \ {i}) \cup {nil}
  BY <1>1, <1>4, <1>5, <1>6
<1>12. httpFilterConfigs' # nil => Back(httpFilterConfigs)' = nil
  <2>1. ASSUME NEW y \in P \ {i}, y = httpFilterConfigs' PROVE Back(y)' = nil
    BY <1>1, <1>4, <1>6, <1>8, <2>1
  <2> QED
    BY <1>11, <2>1
<1>13. ListOK'
  BY <1>7, <1>9, <1>10, <1>11, <1>12 DEF ListOK
<1>14. LocalOK'
  BY <1>1, <1>4, <1>5, <1>6, <1>7, <1>8 DEF LocalOK
<1> QED
  BY <1>7, <1>13, <1>14

(* The back link of the next item leads past the item that was taken out.  *)
LEMMA UnpinNextList ==
  ASSUME IInv, UnpinNext
  PROVE  Pinned' = Pinned /\ ListOK'
<1> USE NilAssumption DEF UnpinNext, Goto, links
<1>1. item \in Items /\ item \notin Pinned /\ pc = "unpinNext" /\ pc' = "envoy"
  BY Reach
<1>2. Pinned' = Pinned
  BY <1>1 DEF Pinned
<1>3. ASSUME NEW x \in Pinned PROVE Back(x)' = Back(x)
  <2>1. x \in Items /\ x # nil
    BY <1>3 DEF Pinned
  <2>2. Back(x) = IF prev[x] = item THEN prev[item] ELSE prev[x]
    BY <1>1 DEF Back
  <2>3. Back(x)' = prev'[x]
    BY <1>1 DEF Back
  <2>4. prev'[x] = IF x = next[item] THEN prev[item] ELSE prev[x]
    BY <1>1, <2>1 DEF IInv, TypeOK, Null
  <2>5. prev[x] = item <=> x = next[item]
    BY <1>1, <1>3, <2>1 DEF IInv, LocalOK
  <2> QED
    BY <2>2, <2>3, <2>4, <2>5
<1> QED
  BY <1>2, <1>3, ListFrame DEF IInv

(* Outside a pin and an unpin, a list whose items and links stay as they   *)
(* are stays well formed, and a new call has nothing to know of its item.  *)
LEMMA QuietFrame ==
  ASSUME IInv, Pinned' = Pinned, httpFilterConfigs' = httpFilterConfigs,
         \/ pc' = pc /\ item' = item
         \/ {pc, pc'} \subseteq {"envoy", "build", "pin", "unpinPrev"},
         \A x \in Items : \/ next'[x] = next[x] /\ prev'[x] = prev[x]
                          \/ x \notin Pinned \cup {item}
  PROVE  ListOK' /\ LocalOK'
<1> USE NilAssumption
<1>0. /\ Pinned \subseteq Items
      /\ pc \in {"pinPrev", "pinHead", "unpinNext"} => item \in Items
  BY Reach DEF Pinned
<1>1. ASSUME NEW x \in Pinned PROVE next'[x] = next[x] /\ prev'[x] = prev[x]
  BY <1>0
<1>2. pc \in {"pinPrev", "pinHead", "unpinNext"} => next'[item] = next[item] /\ prev'[item] = prev[item]
  BY <1>0
<1>3. CASE pc' = pc /\ item' = item
  <2>1. \A x \in Pinned : Back(x)' = Back(x)
    BY <1>1, <1>2, <1>3 DEF Back
  <2>2. ListOK'
    BY <1>1, <2>1, ListFrame DEF IInv
  <2>3. \A x \in Pinned \cup {nil} : x = nil \/ prev'[x] = prev[x]
    BY <1>1
  <2>4. httpFilterConfigs \in Pinned \cup {nil}
    BY DEF IInv, ListOK
  <2>5. LocalOK'
    BY <1>0, <1>2, <1>3, <2>3, <2>4 DEF IInv, LocalOK
  <2> QED
    BY <2>2, <2>5
<1>4. CASE {pc, pc'} \subseteq {"envoy", "build", "pin", "unpinPrev"}
  <2>1. \A x \in Pinned : Back(x)' = Back(x)
    BY <1>1, <1>4 DEF Back
  <2>2. ListOK'
    BY <1>1, <2>1, ListFrame DEF IInv
  <2>3. LocalOK'
    BY <1>4 DEF LocalOK
  <2> QED
    BY <2>2, <2>3
<1> QED
  BY <1>3, <1>4

(* The list and the links of the item stay as described, whatever the main *)
(* thread, the workers and the collector do next.                          *)
LEMMA ListStep == IInv /\ [Next]_vars => ListOK' /\ LocalOK'
<1> SUFFICES ASSUME IInv, [Next]_vars PROVE ListOK' /\ LocalOK'
  OBVIOUS
<1> USE NilAssumption DEF Goto, links
<1>1. ASSUME NEW x \in Items, PinItem(x) PROVE ListOK' /\ LocalOK'
  <2>1. /\ pc' = "pinPrev" /\ item' = x
        /\ next'[x] = httpFilterConfigs /\ httpFilterConfigs' = httpFilterConfigs
        /\ prev'[x] = nil
    BY <1>1 DEF PinItem, IInv, TypeOK, FreeCells
  <2> QED
    BY <1>1, <2>1, PinItemList DEF LocalOK
<1>2. ASSUME PinPrev PROVE ListOK' /\ LocalOK'
  <2>1. /\ pc' = "pinHead" /\ item' = item /\ next' = next
        /\ httpFilterConfigs' = httpFilterConfigs
        /\ item \in Items /\ item # httpFilterConfigs
        /\ prev[item] = nil /\ next[item] = httpFilterConfigs
    BY <1>2, Reach DEF PinPrev, IInv, ListOK, LocalOK
  <2>2. prev'[item] = nil
    BY <1>2, <2>1 DEF PinPrev, IInv, TypeOK
  <2>3. httpFilterConfigs # nil => prev'[httpFilterConfigs] = item
    BY <1>2 DEF PinPrev, IInv, TypeOK, Null
  <2> QED
    BY <1>2, <2>1, <2>2, <2>3, PinPrevList DEF LocalOK
<1>3. ASSUME PinHead PROVE ListOK' /\ LocalOK'
  BY <1>3, PinHeadList DEF PinHead, LocalOK
<1>4. ASSUME UnpinPrev PROVE ListOK' /\ LocalOK'
  BY <1>4, UnpinPrevList
<1>5. ASSUME UnpinNext PROVE ListOK' /\ LocalOK'
  BY <1>5, UnpinNextList DEF UnpinNext, LocalOK
<1>6. ASSUME NEW name, ConfigNew(name) PROVE ListOK' /\ LocalOK'
  <2>1. Pinned' = Pinned
    BY <1>6 DEF ConfigNew, Pinned
  <2> QED
    BY <1>6, <2>1, QuietFrame DEF ConfigNew
<1>7. ASSUME BuildStep PROVE ListOK' /\ LocalOK'
  <2>1. /\ pc = "build" /\ pc' \in {"build", "pin"}
        /\ UNCHANGED <<links, httpFilterConfigs, item, held>>
    BY <1>7, BuildCases
  <2>2. Pinned' = Pinned
    BY <2>1 DEF Pinned
  <2> QED
    BY <2>1, <2>2, QuietFrame
<1>8. ASSUME BuildFails PROVE ListOK' /\ LocalOK'
  <2>1. Pinned' = Pinned
    BY <1>8 DEF BuildFails, Pinned
  <2> QED
    BY <1>8, <2>1, QuietFrame DEF BuildFails
<1>9. ASSUME NEW x \in Items, ConfigDestroy(x) PROVE ListOK' /\ LocalOK'
  <2>1. Pinned' = Pinned
    BY <1>9 DEF ConfigDestroy, Pinned
  <2> QED
    BY <1>9, <2>1, QuietFrame DEF ConfigDestroy
<1>10. ASSUME NEW w, NEW x, FilterNew(w, x) \/ NewFilter(w) \/ FilterReturn(w)
       PROVE  ListOK' /\ LocalOK'
  <2>1. UNCHANGED <<links, httpFilterConfigs, pc, item, held>>
    BY <1>10 DEF FilterNew, NewFilter, FilterReturn
  <2>2. Pinned' = Pinned
    BY <2>1 DEF Pinned
  <2> QED
    BY <2>1, <2>2, QuietFrame
<1>11. ASSUME NEW x \in Items, Collect(x) PROVE ListOK' /\ LocalOK'
  <2>1. x \notin Pinned \cup {item}
    BY <1>11, GarbageUnused DEF Collect, IInv
  <2>2. UNCHANGED <<httpFilterConfigs, pc, item, held>>
    BY <1>11 DEF Collect
  <2>3. Pinned' = Pinned
    BY <2>2 DEF Pinned
  <2>4. ASSUME NEW y \in Items
        PROVE  \/ next'[y] = next[y] /\ prev'[y] = prev[y]
               \/ y \notin Pinned \cup {item}
    BY <1>11, <2>1 DEF Collect, IInv, TypeOK
  <2> QED
    BY <2>2, <2>3, <2>4, QuietFrame
<1>12. CASE UNCHANGED vars
  <2>1. Pinned' = Pinned
    BY <1>12 DEF vars, Pinned
  <2> QED
    BY <1>12, <2>1, QuietFrame DEF vars
<1> QED
  BY <1>1, <1>2, <1>3, <1>4, <1>5, <1>6, <1>7, <1>8, <1>9, <1>10, <1>11, <1>12
     DEF Next, Building, Pinning, Unpinning

-----------------------------------------------------------------------------
(* A module that has just been loaded has an empty list and no machine.    *)
LEMMA InitIInv == Init => IInv
<1> SUFFICES ASSUME Init PROVE IInv
  OBVIOUS
<1> USE NilAssumption DEF Init
<1>1. TypeOK
  BY Stages, EmptySeq DEF TypeOK, Null
<1>2. CallOK /\ FreeCells
  BY DEF CallOK, FreeCells
<1>3. ListOK /\ LocalOK
  BY DEF ListOK, LocalOK, Pinned
<1>4. BuildOK
  BY EmptySeq DEF BuildOK
<1> QED
  BY <1>1, <1>2, <1>3, <1>4 DEF IInv

(* Every assignment of the main thread, every step of a worker and every   *)
(* collection keeps the invariant.                                         *)
LEMMA StepIInv == IInv /\ [Next]_vars => IInv'
BY TypeStep, CallStep, ListStep, FreeStep, BuildPreserved DEF IInv

(* At every step of every creation and destruction of any number of        *)
(* configurations, the list and the pool are as IInv describes.            *)
THEOREM Inductive == SafetySpec => []IInv
BY InitIInv, StepIInv, PTL DEF SafetySpec

(* The links, the pool and the configurations hold what their types allow; *)
(* a pinned configuration has all of its machines or none.                 *)
THEOREM TypeCorrect == SafetySpec => []TypeOK
<1>1. IInv => TypeOK
  BY DEF IInv
<1> QED
  BY <1>1, Inductive, PTL

(* on_http_filter_new never unwraps the address of a configuration that    *)
(* the collector has taken, although the list that pins it has no lock.    *)
THEOREM ConfigsStayAlive == SafetySpec => []ConfigsAlive
<1>1. IInv => ConfigsAlive
  BY DEF IInv, CallOK, ConfigsAlive
<1> QED
  BY <1>1, Inductive, PTL

(* NewFilter never hands out a machine that newJavaScriptVM has given up   *)
(* half way, however large the pool and whichever step fails.              *)
THEOREM PoolsWhole == SafetySpec => []MachinesReady
<1>1. IInv => MachinesReady
  BY DEF IInv, BuildOK, MachinesReady
<1> QED
  BY <1>1, Inductive, PTL

-----------------------------------------------------------------------------
(* The items that the links connect are the pinned ones.                   *)
NoneLost == Linked = Pinned

(* A well-formed list loses none of its items.                             *)
LEMMA LinkedIsPinned == ListOK => NoneLost
<1> SUFFICES ASSUME ListOK PROVE NoneLost
  OBVIOUS
<1>1. Pinned \subseteq Linked
  BY DEF ListOK, Pinned, Linked
<1>2. Pinned \in SUBSET Items /\ Leads(Pinned)
  BY DEF ListOK, Pinned, Leads
<1>3. Linked \subseteq Pinned
  BY <1>2 DEF Linked
<1> QED
  BY <1>1, <1>3 DEF NoneLost

(* The new configuration, before it is in the list. *)
Fresh(x) == item = x /\ pc \in {"pinPrev", "pinHead"}

(* The stage of the life cycle that a cell is in, told from the calls.     *)
LEMMA StatusOf ==
  ASSUME ListOK, NEW x
  PROVE  Status(x) = IF x \notin live THEN "free"
                     ELSE IF x \in Pinned THEN "pinned"
                     ELSE IF Fresh(x) THEN "fresh"
                     ELSE "released"
BY LinkedIsPinned DEF NoneLost, Status, Fresh

(* The same after a step. *)
LEMMA StatusAfter ==
  ASSUME ListOK', NEW CONSTANT x
  PROVE  Status(x)' = IF x \notin live' THEN "free"
                      ELSE IF x \in Pinned' THEN "pinned"
                      ELSE IF Fresh(x)' THEN "fresh"
                      ELSE "released"
<1>1. ListOK' => NoneLost'
  BY LinkedIsPinned, PTL
<1> QED
  BY <1>1 DEF NoneLost, Status, Fresh

(* A cell whose allocation, pinning and running pin are the same after a   *)
(* step as before it stays in its stage.                                   *)
LEMMA SameStage ==
  ASSUME ListOK, ListOK', NEW CONSTANT x,
         x \in live' <=> x \in live,
         x \in Pinned' <=> x \in Pinned,
         Fresh(x)' <=> Fresh(x)
  PROVE  Status(x)' = Status(x)
BY StatusOf, StatusAfter

(* What one step does to the stage of every cell, by the call it is about. *)
LEMMA StageStep ==
  ASSUME IInv, IInv', [Next]_vars
  PROVE  \/ \A y \in Items : Status(y)' = Status(y)
         \/ \E x \in Items :
              /\ <<Status(x), Status(x)'>> \in
                   {<<"free", "fresh">>, <<"fresh", "pinned">>,
                    <<"pinned", "released">>, <<"released", "free">>}
              /\ \A y \in Items \ {x} : Status(y)' = Status(y)
<1> DEFINE Goes(x, from, to) ==
             /\ Status(x) = from /\ Status(x)' = to
             /\ \A y \in Items \ {x} : Status(y)' = Status(y)
           Stays == \A y \in Items : Status(y)' = Status(y)
<1> USE NilAssumption DEF Goto, links
<1>0. TypeOK /\ CallOK /\ ListOK /\ ListOK' /\ Pinned \subseteq Items
  BY DEF IInv, Pinned
<1>1. ASSUME NEW x \in Items, PinItem(x) PROVE Goes(x, "free", "fresh")
  <2>1. /\ x \notin live /\ live' = live \cup {x} /\ item' = x /\ pc' = "pinPrev"
        /\ item = nil
    BY <1>1 DEF PinItem, IInv, CallOK
  <2>2. Pinned' = Pinned /\ x \notin Pinned
    BY <1>1, <2>1, PinItemList, Reach
  <2>3. ASSUME NEW y \in Items \ {x} PROVE Status(y)' = Status(y)
    BY <1>0, <2>1, <2>2, SameStage DEF Fresh
  <2> QED
    BY <1>0, <2>1, <2>2, <2>3, StatusOf, StatusAfter DEF Fresh
<1>2. ASSUME NEW x \in Items, x = item, PinHead PROVE Goes(x, "fresh", "pinned")
  <2>1. /\ x \in live /\ x \notin Pinned /\ live' = live
        /\ pc = "pinHead" /\ pc' = "envoy"
    BY <1>2, Reach DEF PinHead, IInv, CallOK
  <2>2. Pinned' = Pinned \cup {x}
    BY <1>2, PinHeadList
  <2>3. ASSUME NEW y \in Items \ {x} PROVE Status(y)' = Status(y)
    BY <1>0, <1>2, <2>1, <2>2, <2>3, SameStage DEF Fresh
  <2> QED
    BY <1>0, <1>2, <2>1, <2>2, <2>3, StatusOf, StatusAfter DEF Fresh
<1>3. ASSUME NEW x \in Items, x = item, UnpinPrev PROVE Goes(x, "pinned", "released")
  <2>1. /\ x \in Pinned /\ x \in live /\ live' = live
        /\ pc = "unpinPrev" /\ pc' = "unpinNext"
    BY <1>0, <1>3, Reach DEF UnpinPrev
  <2>2. Pinned' = Pinned \ {x}
    BY <1>3, UnpinPrevList
  <2>3. ASSUME NEW y \in Items \ {x} PROVE Status(y)' = Status(y)
    BY <1>0, <1>3, <2>1, <2>2, <2>3, SameStage DEF Fresh
  <2> QED
    BY <1>0, <1>3, <2>1, <2>2, <2>3, StatusOf, StatusAfter DEF Fresh
<1>4. ASSUME NEW x \in Items, Collect(x) PROVE Goes(x, "released", "free")
  <2>1. /\ x \in live /\ live' = live \ {x} /\ UNCHANGED <<pc, item, held>>
    BY <1>4 DEF Collect
  <2>2. x \notin Pinned /\ x # item
    BY <1>0, <1>4, GarbageUnused DEF Collect
  <2>3. Pinned' = Pinned
    BY <2>1 DEF Pinned
  <2>4. ASSUME NEW y \in Items \ {x} PROVE Status(y)' = Status(y)
    BY <1>0, <2>1, <2>3, SameStage DEF Fresh
  <2> QED
    BY <1>0, <2>1, <2>2, <2>3, <2>4, StatusOf, StatusAfter DEF Fresh
<1>5. ASSUME live' = live, Pinned' = Pinned,
             \/ pc' = pc /\ item' = item
             \/ /\ pc \notin {"pinPrev", "pinHead"} /\ pc' \notin {"pinPrev", "pinHead"}
             \/ pc = "pinPrev" /\ pc' = "pinHead" /\ item' = item
      PROVE  Stays
  BY <1>0, <1>5, SameStage DEF Fresh
<1>6. ASSUME PinPrev PROVE Stays
  BY <1>5, <1>6, PinPrevList DEF PinPrev
<1>7. ASSUME UnpinNext PROVE Stays
  BY <1>5, <1>7, UnpinNextList DEF UnpinNext
<1>8. ASSUME NEW x, ConfigNew(x) \/ ConfigDestroy(x) \/ BuildFails PROVE Stays
  <2>1. live' = live /\ {pc, pc'} \subseteq {"envoy", "build", "pin", "unpinPrev"}
    BY <1>8 DEF ConfigNew, ConfigDestroy, BuildFails
  <2>2. Pinned' = Pinned
    BY <1>8 DEF ConfigNew, ConfigDestroy, BuildFails, Pinned
  <2> QED
    BY <1>5, <2>1, <2>2
<1>9. ASSUME BuildStep PROVE Stays
  <2>1. live' = live /\ {pc, pc'} \subseteq {"build", "pin"} /\ held' = held
    BY <1>9, BuildCases
  <2>2. Pinned' = Pinned
    BY <2>1 DEF Pinned
  <2> QED
    BY <1>5, <2>1, <2>2
<1>10. ASSUME UNCHANGED <<live, pc, item, held>> PROVE Stays
  BY <1>5, <1>10 DEF Pinned
<1>11. ASSUME NEW w, NEW x, FilterNew(w, x) \/ NewFilter(w) \/ FilterReturn(w) PROVE Stays
  BY <1>10, <1>11 DEF FilterNew, NewFilter, FilterReturn
<1>12. ASSUME UNCHANGED vars PROVE Stays
  BY <1>10, <1>12 DEF vars
<1>13. ASSUME NEW x \in Items,
              \/ Goes(x, "free", "fresh") \/ Goes(x, "fresh", "pinned")
              \/ Goes(x, "pinned", "released") \/ Goes(x, "released", "free")
       PROVE  \E z \in Items :
                /\ <<Status(z), Status(z)'>> \in
                     {<<"free", "fresh">>, <<"fresh", "pinned">>,
                      <<"pinned", "released">>, <<"released", "free">>}
                /\ \A y \in Items \ {z} : Status(y)' = Status(y)
  BY <1>13
<1>14. CASE \/ \E x \in Items : PinItem(x) \/ Collect(x)
            \/ PinHead \/ UnpinPrev
  <2>1. PinHead \/ UnpinPrev => item \in Items
    BY <1>0, Reach DEF PinHead, UnpinPrev
  <2> HIDE DEF Goes
  <2> QED
    BY <1>1, <1>2, <1>3, <1>4, <1>13, <1>14, <2>1
<1>15. CASE \/ PinPrev \/ UnpinNext \/ BuildStep \/ BuildFails \/ UNCHANGED vars
            \/ \E name \in {"javascript", "other"} : ConfigNew(name)
            \/ \E x \in Items : ConfigDestroy(x)
            \/ \E w \in Workers : NewFilter(w) \/ FilterReturn(w) \/ \E x \in Items : FilterNew(w, x)
  <2> HIDE DEF Stays
  <2>1. Stays
    BY <1>6, <1>7, <1>8, <1>9, <1>11, <1>12, <1>15
  <2> QED
    BY <2>1 DEF Stays
<1> QED
  BY <1>14, <1>15 DEF Next, Building, Pinning, Unpinning

(* The list of configurations, which has no lock, implements the life      *)
(* cycle of PinnedObjects: what Envoy was given stays pinned until it      *)
(* gives it up, and the collector takes released configurations only.      *)
THEOREM Refinement == SafetySpec => Promise!SafetySpec
<1> DEFINE st == [x \in Items |-> Status(x)]
<1>1. Init => Promise!Init
  <2> SUFFICES ASSUME Init, NEW x \in Items PROVE Status(x) = "free"
    BY DEF Promise!Init
  <2> QED
    BY DEF Init, Status
<1>2. ASSUME IInv, IInv', [Next]_vars PROVE Promise!Next \/ UNCHANGED st
  <2>1. CASE \A y \in Items : Status(y)' = Status(y)
    BY <2>1
  <2>2. ASSUME NEW x \in Items, NEW from, NEW to, Status(x) = from, Status(x)' = to,
               \A y \in Items \ {x} : Status(y)' = Status(y)
        PROVE  Promise!Move(x, from, to)
    <3>1. st[x] = from
      BY <2>2
    <3>2. st' = [st EXCEPT ![x] = to]
      BY <2>2
    <3> QED
      BY <3>1, <3>2 DEF Promise!Move
  <2>3. CASE \E x \in Items :
               /\ <<Status(x), Status(x)'>> \in
                    {<<"free", "fresh">>, <<"fresh", "pinned">>,
                     <<"pinned", "released">>, <<"released", "free">>}
               /\ \A y \in Items \ {x} : Status(y)' = Status(y)
    BY <2>2, <2>3 DEF Promise!Next, Promise!Allocate, Promise!Pin, Promise!Unpin, Promise!Collect
  <2> QED
    BY <1>2, <2>1, <2>3, StageStep
<1> QED
  BY <1>1, <1>2, Inductive, PTL DEF SafetySpec, Promise!SafetySpec
=============================================================================
