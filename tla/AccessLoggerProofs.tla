------------------------- MODULE AccessLoggerProofs -------------------------
(***************************************************************************)
(* Proofs about AccessLogger for any number of configurations, workers and *)
(* filters.                                                                *)
(*                                                                         *)
(* A worker must not exit while a message is queued or a sender lives, and *)
(* a send must find a worker that has not exited. Each fact needs the      *)
(* other, and both need how far the constructor has come: IInv joins them. *)
(***************************************************************************)
EXTENDS AccessLogger, SequenceTheorems, TLAPS

(* How far the constructor of each configuration has come. *)
Construction ==
  \A c \in Configs :
     /\ config[c] = "none" => spawned[c] = 0
     /\ config[c] \in {"ready", "destroyed"} => spawned[c] = num_workers[c]
     /\ \A w \in Workers : w[1] = c => (worker[w] = "none" <=> w[2] >= spawned[c])

(* A filter has an owner whose construction has succeeded. *)
Ownership ==
  \A f \in Filters :
     /\ filter[f] = "none" => owner[f] = nil
     /\ filter[f] # "none" => owner[f] \in Configs /\ config[owner[f]] \in {"ready", "destroyed"}

(* A message is sent by a filter that is being dropped, and is held by a   *)
(* worker that is about to write it.                                       *)
Holding ==
  /\ \A w \in Workers : worker[w] = "write" => message[w] \in Filters
  /\ \A w \in Workers : worker[w] = "recv" => rx_lock[w[1]] = w

IInv ==
  /\ TypeOK
  /\ Construction
  /\ Ownership
  /\ Holding
  /\ ExitDrained
  /\ SendSucceeds
-----------------------------------------------------------------------------
(* A worker is a pair of a configuration and a number below num_workers.   *)
LEMMA WorkerPair ==
  ASSUME NEW w \in Workers
  PROVE  /\ w[1] \in Configs /\ w[2] \in Nat
         /\ w = <<w[1], w[2]>> /\ w[2] < num_workers[w[1]]
<1>1. PICK c \in Configs : w \in {c} \X {i \in 0..num_workers[c] : i < num_workers[c]}
  BY DEF Workers
<1> QED
  BY <1>1, WorkersAssumption

(* Every such pair is a worker. *)
LEMMA PairWorker ==
  ASSUME NEW c \in Configs, NEW i \in Nat, i < num_workers[c]
  PROVE  <<c, i>> \in Workers
<1>1. num_workers[c] \in Nat
  BY WorkersAssumption
<1>2. <<c, i>> \in {c} \X {j \in 0..num_workers[c] : j < num_workers[c]}
  BY <1>1
<1> QED
  BY <1>2 DEF Workers

(* Its file is one of Files. *)
LEMMA WorkerFile == ASSUME NEW w \in Workers PROVE file_path(w) \in Files
BY DEF Files

(* The types are preserved by every step: no message other than a filter's *)
(* reaches a channel, a file or stderr.                                    *)
LEMMA TypeStep == TypeOK /\ Holding /\ Ownership /\ [Next]_vars => TypeOK'
<1> SUFFICES ASSUME TypeOK, Holding, Ownership, [Next]_vars PROVE TypeOK'
  OBVIOUS
<1> USE DEF TypeOK, filterVars, workerVars
<1>1. ASSUME NEW c \in Configs, ParseConfig(c) PROVE TypeOK'
  BY <1>1 DEF ParseConfig
<1>2. ASSUME NEW c \in Configs, SpawnWorker(c) PROVE TypeOK'
  <2>1. /\ worker' = [worker EXCEPT ![<<c, spawned[c]>>] = "lock"]
        /\ disk' = [disk EXCEPT ![file_path(<<c, spawned[c]>>)] = {}]
        /\ spawned' = [spawned EXCEPT ![c] = @ + 1]
        /\ UNCHANGED <<config, filterVars, channel, rx_lock, message, offset, errors, sent>>
    BY <1>2 DEF SpawnWorker
  <2> HIDE DEF Files, file_path
  <2>2. disk' \in [Files -> SUBSET (Nat \X Filters)]
    BY <2>1
  <2>3. worker' \in [Workers -> {"none", "lock", "recv", "write", "exited"}]
    BY <2>1
  <2>4. spawned' \in [Configs -> Nat]
    BY <2>1
  <2> QED
    BY <2>1, <2>2, <2>3, <2>4
<1>3. ASSUME NEW c \in Configs, FailFile(c) PROVE TypeOK'
  BY <1>3 DEF FailFile
<1>4. ASSUME NEW c \in Configs, ConfigReady(c) PROVE TypeOK'
  BY <1>4 DEF ConfigReady
<1>5. ASSUME NEW c \in Configs, DestroyConfig(c) PROVE TypeOK'
  BY <1>5 DEF DestroyConfig
<1>6. ASSUME NEW f \in Filters, NEW c \in Configs, new_http_filter(f, c) PROVE TypeOK'
  BY <1>6 DEF new_http_filter
<1>7. ASSUME NEW f \in Filters, NEW part \in {"request", "response"}, OnHeaders(f, part)
      PROVE  TypeOK'
  BY <1>7 DEF OnHeaders
<1>8. ASSUME NEW f \in Filters, Send(f) PROVE TypeOK'
  <2>1. owner[f] \in Configs
    BY <1>8 DEF Send, Ownership
  <2>2. channel[owner[f]] \in Seq(Filters) /\ sent[owner[f]] \in Seq(Filters)
    BY <2>1
  <2>3. Append(channel[owner[f]], f) \in Seq(Filters) /\ Append(sent[owner[f]], f) \in Seq(Filters)
    BY <2>2
  <2>4. CASE /\ channel' = [channel EXCEPT ![owner[f]] = Append(@, f)]
             /\ sent' = [sent EXCEPT ![owner[f]] = Append(@, f)]
             /\ errors' = errors
    <3>1. channel' \in [Configs -> Seq(Filters)]
      BY <2>3, <2>4
    <3>2. sent' \in [Configs -> Seq(Filters)]
      BY <2>3, <2>4
    <3> QED
      BY <1>8, <2>4, <3>1, <3>2 DEF Send
  <2>5. CASE UNCHANGED <<channel, sent>>
    BY <1>8, <2>5 DEF Send
  <2> QED
    BY <1>8, <2>4, <2>5 DEF Send
<1>9. ASSUME NEW f \in Filters, DropFields(f) PROVE TypeOK'
  BY <1>9 DEF DropFields
<1>10. ASSUME NEW w \in Workers, Lock(w) PROVE TypeOK'
  BY <1>10 DEF Lock
<1>11. ASSUME NEW w \in Workers, Recv(w) PROVE TypeOK'
  <2>1. channel[w[1]] \in Seq(Filters) /\ channel[w[1]] # <<>>
    BY <1>11, WorkerPair DEF Recv
  <2>2. Head(channel[w[1]]) \in Filters /\ Tail(channel[w[1]]) \in Seq(Filters)
    BY <2>1
  <2> QED
    BY <1>11, <2>2 DEF Recv
<1>12. ASSUME NEW w \in Workers, Disconnect(w) PROVE TypeOK'
  BY <1>12 DEF Disconnect
<1>13. ASSUME NEW w \in Workers, WriteLine(w) PROVE TypeOK'
  <2>1. message[w] \in Filters /\ offset[w] \in Nat /\ disk[file_path(w)] \in SUBSET (Nat \X Filters)
    BY <1>13, WorkerFile DEF WriteLine, Holding
  <2>2. {l \in disk[file_path(w)] : l[1] # offset[w]} \cup {<<offset[w], message[w]>>}
          \in SUBSET (Nat \X Filters)
    BY <2>1
  <2>3. disk' \in [Files -> SUBSET (Nat \X Filters)]
    BY <1>13, <2>2, WorkerFile DEF WriteLine
  <2>4. offset' \in [Workers -> Nat]
    BY <1>13, <2>1 DEF WriteLine
  <2> QED
    BY <1>13, <2>3, <2>4 DEF WriteLine
<1>14. ASSUME NEW w \in Workers, WriteError(w) PROVE TypeOK'
  BY <1>14 DEF WriteError, Holding
<1>15. CASE UNCHANGED vars
  BY <1>15 DEF vars
<1> QED
  BY <1>1, <1>2, <1>3, <1>4, <1>5, <1>6, <1>7, <1>8, <1>9, <1>10, <1>11, <1>12,
     <1>13, <1>14, <1>15 DEF Next, Constructor, Loop

-----------------------------------------------------------------------------
(* The constructor spawns the workers in the order of their numbers; no    *)
(* other step brings a worker into being.                                  *)
LEMMA ConstructionStep == TypeOK /\ Construction /\ [Next]_vars => Construction'
<1> SUFFICES ASSUME TypeOK, Construction, [Next]_vars PROVE Construction'
  OBVIOUS
<1> USE DEF TypeOK, filterVars, workerVars
<1>1. ASSUME NEW c \in Configs, ParseConfig(c) PROVE Construction'
  BY <1>1 DEF ParseConfig, Construction
<1>2. ASSUME NEW c \in Configs, SpawnWorker(c) PROVE Construction'
  <2> DEFINE v == <<c, spawned[c]>>
  <2>1. /\ v \in Workers /\ config[c] = "new" /\ config' = config
        /\ spawned' = [spawned EXCEPT ![c] = @ + 1]
        /\ worker' = [worker EXCEPT ![v] = "lock"]
    BY <1>2 DEF SpawnWorker
  <2>2. ASSUME NEW d \in Configs, NEW w \in Workers, w[1] = d
        PROVE  worker'[w] = "none" <=> w[2] >= spawned'[d]
    <3>1. w = <<d, w[2]>> /\ w[2] \in Nat /\ spawned[d] \in Nat
      BY <2>2, WorkerPair
    <3>2. worker[w] = "none" <=> w[2] >= spawned[d]
      BY <2>2 DEF Construction
    <3>3. CASE d # c
      <4>1. w # v
        BY <3>1, <3>3
      <4> QED
        BY <2>1, <3>2, <3>3, <4>1
    <3>4. CASE d = c /\ w[2] = spawned[c]
      <4>1. w = v
        BY <3>1, <3>4
      <4>2. worker'[w] = "lock" /\ spawned'[d] = spawned[c] + 1
        BY <2>1, <3>4, <4>1
      <4> QED
        BY <3>1, <3>4, <4>2
    <3>5. CASE d = c /\ w[2] # spawned[c]
      <4>1. w # v
        BY <3>1, <3>5
      <4>2. worker'[w] = worker[w] /\ spawned'[d] = spawned[d] + 1
        BY <2>1, <3>5, <4>1
      <4> QED
        BY <3>1, <3>2, <3>5, <4>2
    <3> QED
      BY <3>3, <3>4, <3>5
  <2>3. ASSUME NEW d \in Configs
        PROVE  /\ config'[d] = "none" => spawned'[d] = 0
               /\ config'[d] \in {"ready", "destroyed"} => spawned'[d] = num_workers[d]
    BY <2>1 DEF Construction
  <2> QED
    BY <2>2, <2>3 DEF Construction
<1>3. ASSUME NEW c \in Configs, FailFile(c) PROVE Construction'
  BY <1>3 DEF FailFile, Construction
<1>4. ASSUME NEW c \in Configs, ConfigReady(c) PROVE Construction'
  BY <1>4 DEF ConfigReady, Construction
<1>5. ASSUME NEW c \in Configs, DestroyConfig(c) PROVE Construction'
  BY <1>5 DEF DestroyConfig, Construction
<1>6. ASSUME NEW f \in Filters,
             \/ \E c \in Configs : new_http_filter(f, c)
             \/ \E part \in {"request", "response"} : OnHeaders(f, part)
             \/ Send(f) \/ DropFields(f)
      PROVE  Construction'
  BY <1>6 DEF new_http_filter, OnHeaders, Send, DropFields, Construction
<1>7. ASSUME NEW w \in Workers, Loop(w) PROVE Construction'
  <2>1. UNCHANGED <<config, spawned>>
    BY <1>7 DEF Loop, Lock, Recv, Disconnect, WriteLine, WriteError
  <2>2. \A v \in Workers : worker'[v] = "none" <=> worker[v] = "none"
    BY <1>7 DEF Loop, Lock, Recv, Disconnect, WriteLine, WriteError
  <2> QED
    BY <2>1, <2>2 DEF Construction
<1>8. CASE UNCHANGED vars
  BY <1>8 DEF vars, Construction
<1> QED
  BY <1>1, <1>2, <1>3, <1>4, <1>5, <1>6, <1>7, <1>8 DEF Next, Constructor

(* A configuration that has filters stays constructed. *)
LEMMA OwnershipStep == TypeOK /\ Ownership /\ [Next]_vars => Ownership'
<1> SUFFICES ASSUME TypeOK, Ownership, [Next]_vars PROVE Ownership'
  OBVIOUS
<1> USE DEF TypeOK, filterVars, workerVars
<1>1. ASSUME NEW c \in Configs, ParseConfig(c) \/ Constructor(c) \/ DestroyConfig(c)
      PROVE  Ownership'
  <2>1. UNCHANGED <<filter, owner>>
    BY <1>1 DEF ParseConfig, Constructor, SpawnWorker, FailFile, ConfigReady, DestroyConfig
  <2>2. \A d \in Configs : config[d] \in {"ready", "destroyed"} =>
                             config'[d] \in {"ready", "destroyed"}
    BY <1>1 DEF ParseConfig, Constructor, SpawnWorker, FailFile, ConfigReady, DestroyConfig
  <2> QED
    BY <2>1, <2>2 DEF Ownership
<1>2. ASSUME NEW f \in Filters, NEW c \in Configs, new_http_filter(f, c) PROVE Ownership'
  BY <1>2 DEF new_http_filter, Ownership
<1>3. ASSUME NEW f \in Filters,
             \/ \E part \in {"request", "response"} : OnHeaders(f, part)
             \/ Send(f) \/ DropFields(f)
      PROVE  Ownership'
  <2>1. UNCHANGED <<config, owner>>
    BY <1>3 DEF OnHeaders, Send, DropFields
  <2>2. \A g \in Filters : filter'[g] = "none" <=> filter[g] = "none"
    BY <1>3 DEF OnHeaders, Send, DropFields
  <2> QED
    BY <2>1, <2>2 DEF Ownership
<1>4. ASSUME NEW w \in Workers, Loop(w) PROVE Ownership'
  BY <1>4 DEF Loop, Lock, Recv, Disconnect, WriteLine, WriteError, Ownership
<1>5. CASE UNCHANGED vars
  BY <1>5 DEF vars, Ownership
<1> QED
  BY <1>1, <1>2, <1>3, <1>4, <1>5 DEF Next

(* A worker is about to write what it has taken from the channel, and has  *)
(* the mutex of the receiver while it waits.                               *)
LEMMA HoldingStep == TypeOK /\ Holding /\ [Next]_vars => Holding'
<1> SUFFICES ASSUME TypeOK, Holding, [Next]_vars PROVE Holding'
  OBVIOUS
<1> USE DEF TypeOK, filterVars, workerVars
<1>1. ASSUME NEW c \in Configs, ParseConfig(c) \/ Constructor(c) \/ DestroyConfig(c)
      PROVE  Holding'
  BY <1>1 DEF ParseConfig, Constructor, SpawnWorker, FailFile, ConfigReady, DestroyConfig, Holding
<1>2. ASSUME NEW f \in Filters,
             \/ \E c \in Configs : new_http_filter(f, c)
             \/ \E part \in {"request", "response"} : OnHeaders(f, part)
             \/ Send(f) \/ DropFields(f)
      PROVE  Holding'
  BY <1>2 DEF new_http_filter, OnHeaders, Send, DropFields, Holding
<1>3. ASSUME NEW w \in Workers, Lock(w) PROVE Holding'
  <2>1. w[1] \in Configs
    BY WorkerPair
  <2>2. \A v \in Workers : worker[v] = "recv" => v[1] # w[1]
    BY <1>3, WorkerPair, NilAssumption DEF Lock, Holding
  <2> QED
    BY <1>3, <2>1, <2>2, WorkerPair DEF Lock, Holding
<1>4. ASSUME NEW w \in Workers, Recv(w) PROVE Holding'
  <2>1. w[1] \in Configs /\ channel[w[1]] \in Seq(Filters) /\ channel[w[1]] # <<>>
    BY <1>4, WorkerPair DEF Recv
  <2>2. Head(channel[w[1]]) \in Filters
    BY <2>1
  <2>3. \A v \in Workers : v # w /\ worker[v] = "recv" => v[1] # w[1]
    BY <1>4, WorkerPair DEF Recv, Holding
  <2> QED
    BY <1>4, <2>1, <2>2, <2>3, WorkerPair DEF Recv, Holding
<1>5. ASSUME NEW w \in Workers, Disconnect(w) PROVE Holding'
  <2>1. w[1] \in Configs
    BY WorkerPair
  <2>2. \A v \in Workers : v # w /\ worker[v] = "recv" => v[1] # w[1]
    BY <1>5, WorkerPair DEF Disconnect, Holding
  <2> QED
    BY <1>5, <2>1, <2>2, WorkerPair DEF Disconnect, Holding
<1>6. ASSUME NEW w \in Workers, WriteLine(w) \/ WriteError(w) PROVE Holding'
  <2>1. /\ rx_lock' = rx_lock
        /\ worker' = [worker EXCEPT ![w] = "lock"]
        /\ message' = [message EXCEPT ![w] = nil]
    BY <1>6 DEF WriteLine, WriteError
  <2> QED
    BY <2>1 DEF Holding
<1>7. CASE UNCHANGED vars
  BY <1>7 DEF vars, Holding
<1> QED
  BY <1>1, <1>2, <1>3, <1>4, <1>5, <1>6, <1>7 DEF Next, Loop

(* The senders of a configuration whose workers may exit do not come back. *)
LEMMA SendersGone ==
  ASSUME TypeOK, Construction, Ownership, [Next]_vars,
         NEW c \in Configs, config[c] # "none", ~SenderAlive(c)
  PROVE  ~SenderAlive(c)'
<1> USE DEF TypeOK, filterVars, workerVars, SenderAlive
<1>1. ASSUME NEW d \in Configs, ParseConfig(d) \/ Constructor(d) \/ DestroyConfig(d)
      PROVE  ~SenderAlive(c)'
  <2>1. UNCHANGED <<filter, owner>>
    BY <1>1 DEF ParseConfig, Constructor, SpawnWorker, FailFile, ConfigReady, DestroyConfig
  <2>2. config'[c] \notin {"new", "ready"}
    BY <1>1 DEF ParseConfig, Constructor, SpawnWorker, FailFile, ConfigReady, DestroyConfig
  <2> QED
    BY <2>1, <2>2
<1>2. ASSUME NEW f \in Filters, NEW d \in Configs, new_http_filter(f, d) PROVE ~SenderAlive(c)'
  <2>1. d # c /\ config' = config
    BY <1>2 DEF new_http_filter
  <2>2. filter' = [filter EXCEPT ![f] = "live"] /\ owner' = [owner EXCEPT ![f] = d]
    BY <1>2 DEF new_http_filter
  <2> QED
    BY <2>1, <2>2
<1>3. ASSUME NEW f \in Filters,
             \/ \E part \in {"request", "response"} : OnHeaders(f, part)
             \/ Send(f) \/ DropFields(f)
      PROVE  ~SenderAlive(c)'
  <2>1. UNCHANGED <<config, owner>>
    BY <1>3 DEF OnHeaders, Send, DropFields
  <2>2. \A g \in Filters : filter'[g] \in {"live", "dropping"} => filter[g] \in {"live", "dropping"}
    BY <1>3 DEF OnHeaders, Send, DropFields
  <2> QED
    BY <2>1, <2>2
<1>4. ASSUME NEW w \in Workers, Loop(w) PROVE ~SenderAlive(c)'
  BY <1>4 DEF Loop, Lock, Recv, Disconnect, WriteLine, WriteError
<1>5. CASE UNCHANGED vars
  BY <1>5 DEF vars
<1> QED
  BY <1>1, <1>2, <1>3, <1>4, <1>5 DEF Next

(* A channel that is empty and has no sender stays empty. *)
LEMMA ChannelQuiet ==
  ASSUME TypeOK, Ownership, [Next]_vars,
         NEW c \in Configs, channel[c] = <<>>, ~SenderAlive(c)
  PROVE  channel'[c] = <<>>
<1> USE DEF TypeOK, filterVars, workerVars
<1>1. ASSUME NEW f \in Filters, Send(f) PROVE channel'[c] = <<>>
  <2>1. owner[f] # c
    BY <1>1 DEF Send, SenderAlive
  <2> QED
    BY <1>1, <2>1 DEF Send
<1>2. ASSUME NEW w \in Workers, Recv(w) PROVE channel'[c] = <<>>
  <2>1. w[1] # c
    BY <1>2 DEF Recv
  <2> QED
    BY <1>2, <2>1 DEF Recv
<1>3. ASSUME NEW w \in Workers, Lock(w) \/ Disconnect(w) \/ WriteLine(w) \/ WriteError(w)
      PROVE  channel'[c] = <<>>
  BY <1>3 DEF Lock, Disconnect, WriteLine, WriteError
<1>4. ASSUME NEW d \in Configs, ParseConfig(d) \/ Constructor(d) \/ DestroyConfig(d)
      PROVE  channel'[c] = <<>>
  BY <1>4 DEF ParseConfig, Constructor, SpawnWorker, FailFile, ConfigReady, DestroyConfig
<1>5. ASSUME NEW f \in Filters,
             \/ \E d \in Configs : new_http_filter(f, d)
             \/ \E part \in {"request", "response"} : OnHeaders(f, part)
             \/ DropFields(f)
      PROVE  channel'[c] = <<>>
  BY <1>5 DEF new_http_filter, OnHeaders, DropFields
<1>6. CASE UNCHANGED vars
  BY <1>6 DEF vars
<1> QED
  BY <1>1, <1>2, <1>3, <1>4, <1>5, <1>6 DEF Next, Loop

(* A worker exits when the channel is empty and has lost its last sender,  *)
(* and it stays so.                                                        *)
LEMMA DrainedStep ==
  TypeOK /\ Construction /\ Ownership /\ ExitDrained /\ [Next]_vars => ExitDrained'
<1> SUFFICES ASSUME TypeOK, Construction, Ownership, ExitDrained, [Next]_vars,
                    NEW w \in Workers, worker'[w] = "exited"
             PROVE  channel'[w[1]] = <<>> /\ ~SenderAlive(w[1])'
  BY DEF ExitDrained
<1>1. w[1] \in Configs
  BY WorkerPair
<1>2. CASE worker[w] = "exited"
  <2>1. config[w[1]] # "none"
    BY <1>1, <1>2, WorkerPair DEF Construction
  <2> QED
    BY <1>1, <1>2, <2>1, SendersGone, ChannelQuiet DEF ExitDrained
<1>3. CASE worker[w] # "exited"
  <2>1. Disconnect(w)
    <3> USE DEF TypeOK, filterVars, workerVars
    <3>1. ASSUME NEW d \in Configs, ParseConfig(d) \/ Constructor(d) \/ DestroyConfig(d)
          PROVE  FALSE
      BY <1>3, <3>1 DEF ParseConfig, Constructor, SpawnWorker, FailFile, ConfigReady, DestroyConfig
    <3>2. ASSUME NEW f \in Filters,
                 \/ \E d \in Configs : new_http_filter(f, d)
                 \/ \E part \in {"request", "response"} : OnHeaders(f, part)
                 \/ Send(f) \/ DropFields(f)
          PROVE  FALSE
      BY <1>3, <3>2 DEF new_http_filter, OnHeaders, Send, DropFields
    <3>3. ASSUME NEW v \in Workers, Lock(v) \/ Recv(v) \/ WriteLine(v) \/ WriteError(v)
          PROVE  FALSE
      BY <1>3, <3>3 DEF Lock, Recv, WriteLine, WriteError
    <3>4. ASSUME NEW v \in Workers, Disconnect(v) PROVE v = w
      BY <1>3, <3>4 DEF Disconnect
    <3>5. CASE UNCHANGED vars
      BY <1>3, <3>5 DEF vars
    <3> QED
      BY <3>1, <3>2, <3>3, <3>4, <3>5 DEF Next, Loop
  <2>2. UNCHANGED <<channel, config, filter, owner>>
    BY <2>1 DEF Disconnect, filterVars
  <2> QED
    BY <2>1, <2>2 DEF Disconnect, SenderAlive
<1> QED
  BY <1>2, <1>3

(* The receiver of a filter's channel lives as long as the filter does: a  *)
(* worker was spawned, and the filter's own sender keeps it from exiting.  *)
LEMMA ReceiverStays ==
  ASSUME IInv, NEW f \in Filters, filter[f] = "live", num_workers[owner[f]] > 0
  PROVE  ReceiverAlive(owner[f])
<1> DEFINE c == owner[f]  w == <<c, 0>>
<1>1. c \in Configs /\ config[c] \in {"ready", "destroyed"} /\ SenderAlive(c)
  BY DEF IInv, Ownership, SenderAlive
<1>2. w \in Workers
  BY <1>1, PairWorker
<1>3. worker[w] # "none"
  <2>1. w[1] = c /\ w[2] = 0
    OBVIOUS
  <2>2. spawned[c] = num_workers[c] /\ num_workers[c] \in Nat
    BY <1>1, WorkersAssumption DEF IInv, Construction
  <2>3. worker[w] = "none" <=> w[2] >= spawned[c]
    BY <1>1, <1>2, <2>1 DEF IInv, Construction
  <2> QED
    BY <2>1, <2>2, <2>3
<1>4. worker[w] # "exited"
  BY <1>1, <1>2 DEF IInv, ExitDrained
<1> QED
  BY <1>2, <1>3, <1>4 DEF ReceiverAlive, Running

(* A message that was accepted stays in the history, and the next one is   *)
(* accepted because the receiver lives.                                    *)
LEMMA SendStep == IInv /\ [Next]_vars => SendSucceeds'
<1> SUFFICES ASSUME IInv, [Next]_vars,
                    NEW g \in Filters, Sending(g)', num_workers[owner'[g]] > 0
             PROVE  \E i \in DOMAIN sent'[owner'[g]] : sent'[owner'[g]][i] = g
  BY DEF SendSucceeds
<1> USE DEF IInv, TypeOK, filterVars, workerVars, Sending
<1>1. ASSUME NEW f \in Filters, Send(f)
      PROVE  \E i \in DOMAIN sent'[owner'[g]] : sent'[owner'[g]][i] = g
  <2>1. owner' = owner /\ owner[f] \in Configs /\ owner[g] \in Configs
    BY <1>1 DEF Send, Ownership
  <2>2. CASE g = f
    <3>1. ReceiverAlive(owner[f])
      BY <1>1, <2>1, <2>2, ReceiverStays DEF Send
    <3>2. sent'[owner[f]] = Append(sent[owner[f]], f) /\ sent[owner[f]] \in Seq(Filters)
      BY <1>1, <2>1, <3>1 DEF Send
    <3>3. /\ Len(sent[owner[f]]) + 1 \in DOMAIN sent'[owner[f]]
          /\ sent'[owner[f]][Len(sent[owner[f]]) + 1] = f
      BY <3>2, AppendProperties
    <3> QED
      BY <2>1, <2>2, <3>2, <3>3
  <2>3. CASE g # f
    <3>1. Sending(g)
      BY <1>1, <2>3 DEF Send
    <3>2. PICK i \in DOMAIN sent[owner[g]] : sent[owner[g]][i] = g
      BY <2>1, <3>1 DEF SendSucceeds
    <3>3. sent'[owner[g]] \in {sent[owner[g]], Append(sent[owner[g]], f)}
      BY <1>1, <2>1 DEF Send
    <3>4. sent[owner[g]] \in Seq(Filters)
      BY <2>1
    <3>5. i \in DOMAIN sent'[owner[g]] /\ sent'[owner[g]][i] = g
      <4>1. CASE sent'[owner[g]] = sent[owner[g]]
        BY <3>2, <4>1
      <4>2. CASE sent'[owner[g]] = Append(sent[owner[g]], f)
        BY <3>2, <3>4, <4>2, AppendProperties
      <4> QED
        BY <3>3, <4>1, <4>2
    <3> QED
      BY <2>1, <3>5
  <2> QED
    BY <2>2, <2>3
<1>2. ASSUME NEW f \in Filters, NEW c \in Configs, new_http_filter(f, c)
      PROVE  \E i \in DOMAIN sent'[owner'[g]] : sent'[owner'[g]][i] = g
  <2>1. g # f /\ Sending(g) /\ owner'[g] = owner[g] /\ sent' = sent
    BY <1>2 DEF new_http_filter
  <2> QED
    BY <2>1 DEF SendSucceeds
<1>3. ASSUME UNCHANGED <<sent, owner>>, Sending(g)
      PROVE  \E i \in DOMAIN sent'[owner'[g]] : sent'[owner'[g]][i] = g
  BY <1>3 DEF SendSucceeds
<1>4. ASSUME NEW f \in Filters, (\E part \in {"request", "response"} : OnHeaders(f, part)) \/ DropFields(f)
      PROVE  UNCHANGED <<sent, owner>> /\ Sending(g)
  BY <1>4 DEF OnHeaders, DropFields
<1>5. ASSUME NEW d \in Configs, ParseConfig(d) \/ Constructor(d) \/ DestroyConfig(d)
      PROVE  UNCHANGED <<sent, owner>> /\ Sending(g)
  BY <1>5 DEF ParseConfig, Constructor, SpawnWorker, FailFile, ConfigReady, DestroyConfig
<1>6. ASSUME NEW w \in Workers, Loop(w) PROVE UNCHANGED <<sent, owner>> /\ Sending(g)
  BY <1>6 DEF Loop, Lock, Recv, Disconnect, WriteLine, WriteError
<1>7. CASE UNCHANGED vars
  BY <1>3, <1>7 DEF vars
<1> QED
  BY <1>1, <1>2, <1>3, <1>4, <1>5, <1>6, <1>7 DEF Next

-----------------------------------------------------------------------------
(* Nothing is configured, sent or spawned at first. *)
LEMMA InitIInv == Init => IInv
<1> SUFFICES ASSUME Init PROVE IInv
  OBVIOUS
<1> USE DEF Init
<1>1. TypeOK
  BY DEF TypeOK
<1>2. Construction
  <2>1. ASSUME NEW w \in Workers PROVE w[2] >= 0 /\ w[1] \in Configs
    BY WorkerPair
  <2>2. \A c \in Configs : config[c] = "none" /\ spawned[c] = 0
    OBVIOUS
  <2>3. \A w \in Workers : worker[w] = "none"
    OBVIOUS
  <2> QED
    BY <2>1, <2>2, <2>3 DEF Construction
<1>3. Ownership /\ Holding /\ ExitDrained /\ SendSucceeds
  BY DEF Ownership, Holding, ExitDrained, SendSucceeds, Sending
<1> QED
  BY <1>1, <1>2, <1>3 DEF IInv

(* Every step of the constructor, of a filter and of a worker keeps IInv.  *)
LEMMA StepIInv == IInv /\ [Next]_vars => IInv'
<1> SUFFICES ASSUME IInv, [Next]_vars PROVE IInv'
  OBVIOUS
<1>1. TypeOK' /\ Construction' /\ Ownership' /\ Holding'
  BY TypeStep, ConstructionStep, OwnershipStep, HoldingStep DEF IInv
<1>2. ExitDrained' /\ SendSucceeds'
  BY DrainedStep, SendStep DEF IInv
<1> QED
  BY <1>1, <1>2 DEF IInv

(* In every interleaving of constructors, filters and workers the parts of *)
(* IInv hold together.                                                     *)
THEOREM Inductive == SafetySpec => []IInv
BY InitIInv, StepIInv, PTL DEF SafetySpec

(* Only messages of filters are in the channels, the files and on stderr.  *)
THEOREM TypeCorrect == SafetySpec => []TypeOK
<1>1. IInv => TypeOK
  BY DEF IInv
<1> QED
  BY <1>1, Inductive, PTL

(* A worker leaves its loop only when nothing is left to write and nothing *)
(* can come.                                                               *)
THEOREM WorkersDrain == SafetySpec => []ExitDrained
<1>1. IInv => ExitDrained
  BY DEF IInv
<1> QED
  BY <1>1, Inductive, PTL

(* The send in Drop for Filter does not fail if there is a worker at all.  *)
THEOREM SendsSucceed == SafetySpec => []SendSucceeds
<1>1. IInv => SendSucceeds
  BY DEF IInv
<1> QED
  BY <1>1, Inductive, PTL
=============================================================================
