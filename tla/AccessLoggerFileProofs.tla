----------------------- MODULE AccessLoggerFileProofs -----------------------
(***************************************************************************)
(* Proofs about the messages and the files of AccessLogger, for            *)
(* configurations that have a directory each. Without that two workers may *)
(* have the same file open, and none of these theorems holds: the run on   *)
(* the shared directory shows how.                                         *)
(***************************************************************************)
EXTENDS AccessLoggerProofs

DirsApart == \A c, d \in Configs : dirname[c] = dirname[d] => c = d

(* What a file holds: nothing before its worker is spawned, and nothing at *)
(* or beyond the offset of its worker.                                     *)
Offsets ==
  /\ \A w \in Workers : worker[w] # "write" => message[w] = nil
  /\ \A w \in Workers : worker[w] = "none" => disk[file_path(w)] = {}
  /\ \A w \in Workers : \A l \in disk[file_path(w)] : l[1] < offset[w]

Queued(f)  == \E c \in Configs : \E i \in DOMAIN channel[c] : channel[c][i] = f
Held(f)    == \E w \in Workers : message[w] = f
Written(f) == \E p \in Files : \E l \in disk[p] : l[2] = f

(* A message is at one place, told without counting the places.            *)
Once ==
  /\ \A c, d \in Configs : \A i \in DOMAIN channel[c], j \in DOMAIN channel[d] :
        channel[c][i] = channel[d][j] => c = d /\ i = j
  /\ \A v, w \in Workers : message[v] = message[w] /\ message[v] # nil => v = w
  /\ \A p, q \in Files : \A l \in disk[p], m \in disk[q] : l[2] = m[2] => p = q /\ l = m
  /\ \A f \in Filters :
        /\ Sending(f) <=> Queued(f) \/ Held(f) \/ Written(f) \/ f \in errors
        /\ Queued(f) => ~Held(f) /\ ~Written(f) /\ f \notin errors
        /\ Held(f) => ~Written(f) /\ f \notin errors
        /\ Written(f) => f \notin errors

(* How many messages of channel c have been received.                      *)
received(c) == Len(sent[c]) - Len(channel[c])

(* The sequence q is the end of the sequence s.                            *)
Ends(q, s) ==
  /\ Len(q) <= Len(s)
  /\ \A i \in 1..Len(q) : q[i] = s[Len(s) - Len(q) + i]

(* Channel c has delivered f, and it has delivered f before g.             *)
Received(c, f) == \E i \in 1..received(c) : sent[c][i] = f
ReceivedBefore(c, f, g) ==
  \E i, j \in 1..received(c) : i < j /\ sent[c][i] = f /\ sent[c][j] = g

(* What waits in a channel is the end of what was sent; what a worker has  *)
(* in its hand was received after the lines of its file.                   *)
Waiting == \A c \in Configs : Ends(channel[c], sent[c])

Hands ==
  \A w \in Workers :
     /\ message[w] # nil => Received(w[1], message[w])
     /\ \A l \in disk[file_path(w)] : Received(w[1], l[2])
     /\ \A l \in disk[file_path(w)] :
           message[w] # nil => ReceivedBefore(w[1], l[2], message[w])

Ordered == Waiting /\ Hands /\ FileOrder

FileInv ==
  /\ IInv
  /\ Offsets
  /\ Once
  /\ Ordered
-----------------------------------------------------------------------------
(* Workers of configurations with directories of their own have files of   *)
(* their own.                                                              *)
LEMMA FilesApart ==
  ASSUME DirsApart, NEW v \in Workers, NEW w \in Workers, file_path(v) = file_path(w)
  PROVE  v = w
<1>1. dirname[v[1]] = dirname[w[1]] /\ v[2] = w[2]
  BY DEF file_path
<1>2. v[1] = w[1]
  BY <1>1, WorkerPair DEF DirsApart
<1> QED
  BY <1>1, <1>2, WorkerPair

(* A step that moves no message.                                           *)
Quiet ==
  /\ UNCHANGED <<channel, message, disk, offset, errors, sent>>
  /\ \A f \in Filters : Sending(f)' <=> Sending(f)
  /\ \A w \in Workers : /\ worker'[w] = "none" => worker[w] = "none"
                        /\ worker'[w] = "write" <=> worker[w] = "write"

(* Only a send, a receive and a write move messages: opening a file does   *)
(* not truncate anything that was written.                                 *)
LEMMA Kinds ==
  ASSUME DirsApart, IInv, Offsets, [Next]_vars
  PROVE  \/ Quiet
         \/ \E f \in Filters : Send(f)
         \/ \E w \in Workers : Recv(w) \/ WriteLine(w) \/ WriteError(w)
<1> USE DEF IInv, TypeOK, filterVars, workerVars, Quiet, Sending
<1>1. ASSUME NEW c \in Configs, SpawnWorker(c) PROVE Quiet
  <2> DEFINE w == <<c, spawned[c]>>
  <2>1. w \in Workers /\ worker[w] = "none"
    <3>1. w \in Workers /\ w[1] = c /\ w[2] = spawned[c] /\ spawned[c] \in Nat
      BY <1>1 DEF SpawnWorker
    <3>2. worker[w] = "none" <=> w[2] >= spawned[c]
      BY <3>1 DEF Construction
    <3> QED
      BY <3>1, <3>2
  <2>2. disk[file_path(w)] = {} /\ file_path(w) \in Files
    BY <2>1, WorkerFile DEF Offsets
  <2>3. disk' = disk
    BY <1>1, <2>2 DEF SpawnWorker
  <2> QED
    BY <1>1, <2>1, <2>3 DEF SpawnWorker
<1>2. ASSUME NEW c \in Configs, ParseConfig(c) \/ FailFile(c) \/ ConfigReady(c) \/ DestroyConfig(c)
      PROVE  Quiet
  BY <1>2 DEF ParseConfig, FailFile, ConfigReady, DestroyConfig
<1>3. ASSUME NEW f \in Filters,
             \/ \E c \in Configs : new_http_filter(f, c)
             \/ \E part \in {"request", "response"} : OnHeaders(f, part)
             \/ DropFields(f)
      PROVE  Quiet
  BY <1>3 DEF new_http_filter, OnHeaders, DropFields
<1>4. ASSUME NEW w \in Workers, Lock(w) \/ Disconnect(w) PROVE Quiet
  BY <1>4 DEF Lock, Disconnect
<1>5. CASE UNCHANGED vars
  BY <1>5 DEF vars
<1> QED
  BY <1>1, <1>2, <1>3, <1>4, <1>5 DEF Next, Constructor, Loop

(* A line goes to the end of the file, where nothing is overwritten.       *)
LEMMA LineAppended ==
  ASSUME IInv, Offsets, NEW w \in Workers, WriteLine(w)
  PROVE  /\ worker[w] = "write" /\ message[w] \in Filters /\ file_path(w) \in Files
         /\ disk' = [disk EXCEPT ![file_path(w)] = @ \cup {<<offset[w], message[w]>>}]
         /\ offset' = [offset EXCEPT ![w] = @ + 1] /\ offset[w] \in Nat
         /\ message' = [message EXCEPT ![w] = nil]
         /\ worker' = [worker EXCEPT ![w] = "lock"]
         /\ UNCHANGED <<channel, filter, errors, sent>>
<1> DEFINE p == file_path(w)
<1>1. worker[w] = "write" /\ message[w] \in Filters /\ p \in Files
  BY WorkerFile DEF WriteLine, IInv, Holding
<1>2. offset[w] \in Nat /\ disk[p] \in SUBSET (Nat \X Filters)
  BY <1>1 DEF IInv, TypeOK
<1>3. \A l \in disk[p] : l[1] # offset[w]
  <2>1. \A l \in disk[p] : l[1] \in Nat /\ l[1] < offset[w]
    BY <1>2 DEF Offsets
  <2> QED
    BY <1>2, <2>1
<1>4. {l \in disk[p] : l[1] # offset[w]} = disk[p]
  BY <1>3
<1> QED
  BY <1>1, <1>2, <1>4 DEF WriteLine, filterVars

(* A send appends the message to the channel and to the history, or        *)
(* reports it.                                                             *)
LEMMA SendEffect ==
  ASSUME IInv, NEW f \in Filters, Send(f)
  PROVE  /\ ~Sending(f)
         /\ \A g \in Filters : Sending(g)' <=> Sending(g) \/ g = f
         /\ UNCHANGED <<message, disk, offset, worker>>
         /\ \/ /\ owner[f] \in Configs
               /\ channel' = [channel EXCEPT ![owner[f]] = Append(@, f)]
               /\ sent' = [sent EXCEPT ![owner[f]] = Append(@, f)]
               /\ errors' = errors
            \/ /\ errors' = errors \cup {f}
               /\ UNCHANGED <<channel, sent>>
BY DEF IInv, TypeOK, Ownership, Send, Sending, workerVars

(* A receive takes the first message of the channel.                       *)
LEMMA RecvEffect ==
  ASSUME IInv, Offsets, NEW w \in Workers, Recv(w)
  PROVE  /\ w[1] \in Configs /\ channel[w[1]] \in Seq(Filters) /\ channel[w[1]] # <<>>
         /\ Head(channel[w[1]]) \in Filters
         /\ message[w] = nil
         /\ message' = [message EXCEPT ![w] = Head(channel[w[1]])]
         /\ channel' = [channel EXCEPT ![w[1]] = Tail(@)]
         /\ worker' = [worker EXCEPT ![w] = "write"]
         /\ UNCHANGED <<filter, disk, offset, errors, sent>>
<1>1. w[1] \in Configs
  BY WorkerPair
<1>2. channel[w[1]] \in Seq(Filters) /\ channel[w[1]] # <<>>
  BY <1>1 DEF IInv, TypeOK, Recv
<1>3. Head(channel[w[1]]) \in Filters
  BY <1>2
<1> QED
  BY <1>1, <1>2, <1>3 DEF Recv, Offsets, filterVars

(* Only the worker that has opened a file writes to it, and it goes on     *)
(* after its last line.                                                    *)
LEMMA OffsetsStep ==
  ASSUME DirsApart, IInv, Offsets, [Next]_vars
  PROVE  Offsets'
<1> USE DEF IInv, TypeOK
<1>1. CASE Quiet
  <2>1. UNCHANGED <<message, disk, offset>>
    BY <1>1 DEF Quiet
  <2>2. \A w \in Workers : /\ worker'[w] = "none" => worker[w] = "none"
                           /\ worker'[w] = "write" <=> worker[w] = "write"
    BY <1>1 DEF Quiet
  <2> QED
    BY <2>1, <2>2 DEF Offsets, file_path
<1>2. ASSUME NEW f \in Filters, Send(f) PROVE Offsets'
  BY <1>2, SendEffect DEF Offsets, file_path
<1>3. ASSUME NEW w \in Workers, Recv(w) PROVE Offsets'
  <2>1. /\ UNCHANGED <<disk, offset>>
        /\ \A v \in Workers : v # w => message'[v] = message[v] /\ worker'[v] = worker[v]
        /\ worker'[w] = "write"
    BY <1>3, RecvEffect
  <2> QED
    BY <2>1 DEF Offsets, file_path
<1>4. ASSUME NEW w \in Workers, WriteLine(w) PROVE Offsets'
  <2> HIDE DEF IInv
  <2>1. ASSUME NEW v \in Workers
        PROVE  /\ worker'[v] # "write" => message'[v] = nil
               /\ worker'[v] = "none" => disk'[file_path(v)] = {}
               /\ \A l \in disk'[file_path(v)] : l[1] < offset'[v]
    <3>1. CASE v = w
      <4>1. disk'[file_path(w)] = disk[file_path(w)] \cup {<<offset[w], message[w]>>}
        BY <1>4, LineAppended DEF IInv
      <4>2. \A l \in disk[file_path(w)] : l[1] \in Nat /\ l[1] < offset[w]
        BY <1>4, LineAppended DEF IInv, Offsets
      <4>3. offset'[w] = offset[w] + 1 /\ offset[w] \in Nat /\ message'[w] = nil /\ worker'[w] = "lock"
        BY <1>4, LineAppended DEF IInv
      <4> QED
        BY <3>1, <4>1, <4>2, <4>3
    <3>2. CASE v # w
      <4>1. file_path(v) # file_path(w) /\ file_path(v) \in Files
        BY <3>2, FilesApart, WorkerFile
      <4>2. /\ disk'[file_path(v)] = disk[file_path(v)] /\ offset'[v] = offset[v]
            /\ message'[v] = message[v] /\ worker'[v] = worker[v]
        BY <1>4, <3>2, <4>1, LineAppended DEF IInv
      <4> QED
        BY <4>2 DEF Offsets
    <3> QED
      BY <3>1, <3>2
  <2> QED
    BY <2>1 DEF Offsets, file_path
<1>5. ASSUME NEW w \in Workers, WriteError(w) PROVE Offsets'
  BY <1>5 DEF WriteError, Offsets, file_path
<1> QED
  BY <1>1, <1>2, <1>3, <1>4, <1>5, Kinds

(* What a step that moves no message leaves in place.                      *)
LEMMA PlacesQuiet ==
  ASSUME Once, Quiet
  PROVE  Once'
<1>1. UNCHANGED <<channel, message, disk, errors>> /\ \A f \in Filters : Sending(f)' <=> Sending(f)
  BY DEF Quiet
<1> QED
  BY <1>1 DEF Once, Queued, Held, Written

(* The message that is sent was at no place before, and is at one after.   *)
LEMMA PlacesSend ==
  ASSUME IInv, Once, NEW f \in Filters, Send(f)
  PROVE  Once'
<1> USE DEF Queued, Held, Written
<1>1. /\ ~Sending(f) /\ UNCHANGED <<message, disk>>
      /\ \A g \in Filters : Sending(g)' <=> Sending(g) \/ g = f
  BY SendEffect
<1>2. ~Queued(f) /\ ~Held(f) /\ ~Written(f) /\ f \notin errors
  BY <1>1 DEF Once
<1>3. CASE /\ owner[f] \in Configs
           /\ channel' = [channel EXCEPT ![owner[f]] = Append(@, f)]
           /\ errors' = errors
  <2> DEFINE o == owner[f]  n == Len(channel[o]) + 1
  <2>1. /\ channel[o] \in Seq(Filters) /\ DOMAIN channel[o] = 1..Len(channel[o])
        /\ Len(channel[o]) \in Nat
    BY <1>3, LenProperties DEF IInv, TypeOK
  <2>2. channel'[o] = Append(channel[o], f) /\ channel'[o] \in Seq(Filters)
    BY <1>3, <2>1, AppendProperties DEF IInv, TypeOK
  <2>3. /\ DOMAIN channel'[o] = 1..n /\ channel'[o][n] = f
        /\ \A i \in 1..Len(channel[o]) : channel'[o][i] = channel[o][i]
    BY <2>1, <2>2, AppendProperties, LenProperties
  <2>4. \A c \in Configs : c # o => channel'[c] = channel[c]
    BY <1>3 DEF IInv, TypeOK
  <2>5. ASSUME NEW c \in Configs, NEW i \in DOMAIN channel'[c]
        PROVE  \/ i \in DOMAIN channel[c] /\ channel'[c][i] = channel[c][i] /\ channel[c][i] # f
               \/ c = o /\ i = n /\ channel'[c][i] = f
    BY <1>2, <2>1, <2>3, <2>4, <2>5
  <2>6. \A c \in Configs : \A i \in DOMAIN channel[c] :
           i \in DOMAIN channel'[c] /\ channel'[c][i] = channel[c][i]
    BY <2>1, <2>3, <2>4
  <2>7. n \in DOMAIN channel'[o] /\ channel'[o][n] = f
    BY <2>1, <2>3
  <2>8. \A c, d \in Configs : \A i \in DOMAIN channel'[c], j \in DOMAIN channel'[d] :
           channel'[c][i] = channel'[d][j] => c = d /\ i = j
    BY <2>5 DEF Once
  <2>9. \A g \in Filters : Queued(g)' <=> Queued(g) \/ g = f
    BY <1>3, <2>5, <2>6, <2>7
  <2> QED
    BY <1>1, <1>2, <1>3, <2>8, <2>9 DEF Once
<1>4. CASE errors' = errors \cup {f} /\ UNCHANGED channel
  BY <1>1, <1>2, <1>4 DEF Once
<1> QED
  BY <1>3, <1>4, SendEffect

(* The message that is received leaves the channel for the worker's hand.  *)
LEMMA PlacesRecv ==
  ASSUME IInv, Offsets, Once, NEW w \in Workers, Recv(w)
  PROVE  Once'
<1> DEFINE c == w[1]  f == Head(channel[c])
<1>1. /\ c \in Configs /\ channel[c] \in Seq(Filters) /\ channel[c] # <<>> /\ f \in Filters
      /\ message[w] = nil /\ message' = [message EXCEPT ![w] = f]
      /\ channel' = [channel EXCEPT ![c] = Tail(@)]
      /\ UNCHANGED <<filter, disk, errors>>
  BY RecvEffect
<1>2. /\ Len(channel[c]) \in Nat /\ DOMAIN channel[c] = 1..Len(channel[c]) /\ 1 \in DOMAIN channel[c]
      /\ channel[c][1] = f
  <2>1. Len(channel[c]) \in Nat \ {0} /\ DOMAIN channel[c] = 1..Len(channel[c])
    BY <1>1, LenProperties, EmptySeq
  <2> QED
    BY <1>1, <2>1
<1>3. /\ DOMAIN channel'[c] = 1..(Len(channel[c]) - 1)
      /\ \A i \in DOMAIN channel'[c] : channel'[c][i] = channel[c][i + 1]
  <2>1. channel'[c] = Tail(channel[c])
    BY <1>1 DEF IInv, TypeOK
  <2>2. DOMAIN Tail(channel[c]) = 1..Len(Tail(channel[c]))
    BY <1>1, HeadTailProperties, LenProperties
  <2> QED
    BY <1>1, <2>1, <2>2, HeadTailProperties
<1>4. \A d \in Configs : d # c => channel'[d] = channel[d]
  BY <1>1 DEF IInv, TypeOK
<1>5. Queued(f) /\ ~Held(f)
  <2>1. Queued(f)
    BY <1>1, <1>2 DEF Queued
  <2> QED
    BY <1>1, <2>1 DEF Once
<1>6. \A d \in Configs : \A i \in DOMAIN channel'[d] :
         \/ d = c /\ i + 1 \in DOMAIN channel[c] /\ i \in Nat /\ channel'[c][i] = channel[c][i + 1] /\ i + 1 # 1
         \/ d # c /\ i \in DOMAIN channel[d] /\ channel'[d][i] = channel[d][i]
  BY <1>2, <1>3, <1>4
<1>7. \A a, b \in Configs : \A i \in DOMAIN channel'[a], j \in DOMAIN channel'[b] :
         channel'[a][i] = channel'[b][j] => a = b /\ i = j
  <2>1. ASSUME NEW a \in Configs, NEW b \in Configs, NEW i \in DOMAIN channel'[a],
               NEW j \in DOMAIN channel'[b], channel'[a][i] = channel'[b][j]
        PROVE  a = b /\ i = j
    <3>1. CASE a = c /\ b = c
      <4>1. i + 1 \in DOMAIN channel[c] /\ j + 1 \in DOMAIN channel[c] /\ i \in Nat /\ j \in Nat
        BY <1>6, <2>1, <3>1
      <4>2. channel[c][i + 1] = channel[c][j + 1]
        BY <1>6, <2>1, <3>1
      <4>3. i + 1 = j + 1
        BY <1>1, <4>1, <4>2 DEF Once
      <4> QED
        BY <3>1, <4>1, <4>3
    <3>2. CASE a = c /\ b # c
      <4>1. i + 1 \in DOMAIN channel[c] /\ j \in DOMAIN channel[b]
            /\ channel[c][i + 1] = channel[b][j]
        BY <1>6, <2>1, <3>2
      <4> QED
        BY <1>1, <3>2, <4>1 DEF Once
    <3>3. CASE a # c /\ b = c
      <4>1. i \in DOMAIN channel[a] /\ j + 1 \in DOMAIN channel[c]
            /\ channel[a][i] = channel[c][j + 1]
        BY <1>6, <2>1, <3>3
      <4> QED
        BY <1>1, <3>3, <4>1 DEF Once
    <3>4. CASE a # c /\ b # c
      BY <1>6, <2>1, <3>4 DEF Once
    <3> QED
      BY <3>1, <3>2, <3>3, <3>4
  <2> QED
    BY <2>1
<1>8. \A g \in Filters : Queued(g)' <=> Queued(g) /\ g # f
  <2>1. ASSUME NEW g \in Filters, Queued(g)' PROVE Queued(g) /\ g # f
    <3>1. PICK d \in Configs : \E i \in DOMAIN channel'[d] : channel'[d][i] = g
      BY <2>1 DEF Queued
    <3>2. PICK i \in DOMAIN channel'[d] : channel'[d][i] = g
      BY <3>1
    <3>3. CASE d = c
      <4>1. i + 1 \in DOMAIN channel[c] /\ i + 1 # 1 /\ channel[c][i + 1] = g
        BY <1>6, <3>2, <3>3
      <4>2. g # f
        BY <1>1, <1>2, <4>1 DEF Once
      <4> QED
        BY <1>1, <4>1, <4>2 DEF Queued
    <3>4. CASE d # c
      <4>1. i \in DOMAIN channel[d] /\ channel[d][i] = g
        BY <1>6, <3>2, <3>4
      <4>2. g # f
        BY <1>1, <1>2, <3>4, <4>1 DEF Once
      <4> QED
        BY <4>1, <4>2 DEF Queued
    <3> QED
      BY <3>3, <3>4
  <2>2. ASSUME NEW g \in Filters, Queued(g), g # f PROVE Queued(g)'
    <3>1. PICK d \in Configs : \E i \in DOMAIN channel[d] : channel[d][i] = g
      BY <2>2 DEF Queued
    <3>2. PICK i \in DOMAIN channel[d] : channel[d][i] = g
      BY <3>1
    <3>3. CASE d = c
      <4>1. i \in 1..Len(channel[c]) /\ i # 1
        BY <1>2, <2>2, <3>2, <3>3
      <4>2. i - 1 \in 1..(Len(channel[c]) - 1) /\ (i - 1) + 1 = i
        BY <1>2, <4>1
      <4>3. i - 1 \in DOMAIN channel'[c] /\ channel'[c][i - 1] = g
        BY <1>3, <3>2, <3>3, <4>2
      <4> QED
        BY <1>1, <4>3 DEF Queued
    <3>4. CASE d # c
      BY <1>4, <3>2, <3>4 DEF Queued
    <3> QED
      BY <3>3, <3>4
  <2> QED
    BY <2>1, <2>2
<1>9. \A g \in Filters : Held(g)' <=> Held(g) \/ g = f
  BY <1>1, NilAssumption DEF IInv, TypeOK, Held
<1>10. \A u, v \in Workers : message'[u] = message'[v] /\ message'[u] # nil => u = v
  <2>1. \A v \in Workers : message'[v] = IF v = w THEN f ELSE message[v]
    BY <1>1 DEF IInv, TypeOK
  <2>2. \A v \in Workers : message[v] # f
    BY <1>5 DEF Held
  <2> QED
    BY <2>1, <2>2 DEF Once
<1>11. \A g \in Filters : (Written(g)' <=> Written(g)) /\ (Sending(g)' <=> Sending(g))
  BY <1>1 DEF Written, Sending
<1>12. disk' = disk /\ errors' = errors
  BY <1>1
<1> HIDE DEF f, c
<1> QED
  BY <1>5, <1>7, <1>8, <1>9, <1>10, <1>11, <1>12, <1>1 DEF Once

(* The message that is written, or whose loss is reported, leaves the      *)
(* worker's hand.                                                          *)
LEMMA PlacesHand ==
  ASSUME IInv, Once, NEW w \in Workers, message[w] \in Filters,
         message' = [message EXCEPT ![w] = nil]
  PROVE  /\ \A g \in Filters : Held(g)' <=> Held(g) /\ g # message[w]
         /\ \A u, v \in Workers : message'[u] = message'[v] /\ message'[u] # nil => u = v
<1>1. \A v \in Workers : message'[v] = IF v = w THEN nil ELSE message[v]
  BY DEF IInv, TypeOK
<1> QED
  BY <1>1, NilAssumption DEF Once, Held

(* The line that is written adds its message to those that are written.    *)
LEMMA LineWritten ==
  ASSUME IInv, Offsets, NEW w \in Workers, WriteLine(w), NEW g \in Filters
  PROVE  Written(g)' <=> Written(g) \/ g = message[w]
<1> DEFINE p == file_path(w)  f == message[w]
<1>1. p \in Files /\ disk' = [disk EXCEPT ![p] = @ \cup {<<offset[w], f>>}]
  BY LineAppended
<1>2. /\ disk'[p] = disk[p] \cup {<<offset[w], f>>}
      /\ \A q \in Files : q # p => disk'[q] = disk[q]
  BY <1>1 DEF IInv, TypeOK
<1>3. ASSUME Written(g)' PROVE Written(g) \/ g = f
  BY <1>2, <1>3 DEF Written
<1>4. ASSUME g = f PROVE Written(g)'
  <2>1. <<offset[w], g>> \in disk'[p] /\ <<offset[w], g>>[2] = g
    BY <1>2, <1>4
  <2> QED
    BY <1>1, <2>1 DEF Written
<1>5. ASSUME Written(g) PROVE Written(g)'
  <2>1. PICK q \in Files : \E l \in disk[q] : l[2] = g
    BY <1>5 DEF Written
  <2>2. disk[q] \subseteq disk'[q]
    BY <1>2, <2>1
  <2> QED
    BY <2>1, <2>2 DEF Written
<1> QED
  BY <1>3, <1>4, <1>5

(* It is in one line of one file then.                                     *)
LEMMA PlacesLine ==
  ASSUME IInv, Offsets, Once, NEW w \in Workers, WriteLine(w)
  PROVE  Once'
<1> DEFINE p == file_path(w)  f == message[w]
<1>1. /\ f \in Filters /\ p \in Files /\ message' = [message EXCEPT ![w] = nil]
      /\ disk' = [disk EXCEPT ![p] = @ \cup {<<offset[w], f>>}]
      /\ UNCHANGED <<channel, filter, errors>>
  BY LineAppended
<1>2. Held(f) /\ ~Written(f)
  BY <1>1 DEF Once, Held
<1>3. /\ disk'[p] = disk[p] \cup {<<offset[w], f>>}
      /\ \A q \in Files : q # p => disk'[q] = disk[q]
  BY <1>1 DEF IInv, TypeOK
<1>4. \A q \in Files : \A l \in disk[q] : l[2] # f
  BY <1>2 DEF Written
<1>5. \A q \in Files : \A l \in disk'[q] :
         \/ l \in disk[q] /\ l[2] # f
         \/ q = p /\ l = <<offset[w], f>> /\ l[2] = f
  BY <1>3, <1>4
<1>6. \A q, r \in Files : \A l \in disk'[q], k \in disk'[r] : l[2] = k[2] => q = r /\ l = k
  BY <1>5 DEF Once
<1>7. \A g \in Filters : Written(g)' <=> Written(g) \/ g = f
  BY LineWritten
<1>8. \A g \in Filters : (Queued(g)' <=> Queued(g)) /\ (Sending(g)' <=> Sending(g))
  BY <1>1 DEF Queued, Sending
<1>9. /\ \A g \in Filters : Held(g)' <=> Held(g) /\ g # f
      /\ \A u, v \in Workers : message'[u] = message'[v] /\ message'[u] # nil => u = v
  BY <1>1, PlacesHand
<1> QED
  BY <1>1, <1>2, <1>6, <1>7, <1>8, <1>9 DEF Once

(* Or it is reported.                                                      *)
LEMMA PlacesError ==
  ASSUME IInv, Once, NEW w \in Workers, WriteError(w)
  PROVE  Once'
<1> DEFINE f == message[w]
<1>1. /\ f \in Filters /\ message' = [message EXCEPT ![w] = nil]
      /\ errors' = errors \cup {f}
      /\ UNCHANGED <<channel, filter, disk>>
  BY DEF WriteError, IInv, Holding, filterVars
<1>2. Held(f)
  BY <1>1 DEF Held
<1>3. /\ \A g \in Filters : Held(g)' <=> Held(g) /\ g # f
      /\ \A u, v \in Workers : message'[u] = message'[v] /\ message'[u] # nil => u = v
  BY <1>1, PlacesHand
<1>4. \A g \in Filters : /\ Queued(g)' <=> Queued(g)
                         /\ Written(g)' <=> Written(g)
                         /\ Sending(g)' <=> Sending(g)
  BY <1>1 DEF Queued, Written, Sending
<1> QED
  BY <1>1, <1>2, <1>3, <1>4 DEF Once

-----------------------------------------------------------------------------
(* What is appended to both goes to the end of both.                       *)
LEMMA EndsAppend ==
  ASSUME NEW q \in Seq(Filters), NEW s \in Seq(Filters), NEW f \in Filters, Ends(q, s)
  PROVE  /\ Ends(Append(q, f), Append(s, f))
         /\ Len(Append(s, f)) - Len(Append(q, f)) = Len(s) - Len(q)
<1>1. Len(q) \in Nat /\ Len(s) \in Nat /\ Len(q) <= Len(s)
  BY LenProperties DEF Ends
<1>2. /\ Len(Append(q, f)) = Len(q) + 1 /\ Append(q, f)[Len(q) + 1] = f
      /\ \A i \in 1..Len(q) : Append(q, f)[i] = q[i]
  BY AppendProperties
<1>3. /\ Len(Append(s, f)) = Len(s) + 1 /\ Append(s, f)[Len(s) + 1] = f
      /\ \A i \in 1..Len(s) : Append(s, f)[i] = s[i]
  BY AppendProperties
<1>4. ASSUME NEW i \in 1..(Len(q) + 1)
      PROVE  Append(q, f)[i] = Append(s, f)[Len(s) - Len(q) + i]
  <2>1. CASE i = Len(q) + 1
    <3>1. Len(s) - Len(q) + i = Len(s) + 1
      BY <1>1, <2>1
    <3> QED
      BY <1>2, <1>3, <2>1, <3>1
  <2>2. CASE i \in 1..Len(q)
    <3>1. Len(s) - Len(q) + i \in 1..Len(s)
      BY <1>1, <2>2
    <3> QED
      BY <1>2, <1>3, <2>2, <3>1 DEF Ends
  <2> QED
    BY <1>1, <2>1, <2>2
<1>5. (Len(s) + 1) - (Len(q) + 1) = Len(s) - Len(q)
  BY <1>1
<1> QED
  BY <1>1, <1>2, <1>3, <1>4, <1>5 DEF Ends

(* The tail of an end is an end, and its head comes before it.             *)
LEMMA EndsTail ==
  ASSUME NEW q \in Seq(Filters), NEW s \in Seq(Filters), q # <<>>, Ends(q, s)
  PROVE  /\ Ends(Tail(q), s)
         /\ Len(s) - Len(Tail(q)) = (Len(s) - Len(q)) + 1
         /\ s[(Len(s) - Len(q)) + 1] = Head(q)
<1>1. Len(q) \in Nat \ {0} /\ Len(s) \in Nat /\ Len(q) <= Len(s)
  BY LenProperties, EmptySeq DEF Ends
<1>2. Len(Tail(q)) = Len(q) - 1 /\ \A i \in 1..(Len(q) - 1) : Tail(q)[i] = q[i + 1]
  BY HeadTailProperties
<1>3. Len(s) - (Len(q) - 1) = (Len(s) - Len(q)) + 1
  BY <1>1
<1>4. ASSUME NEW i \in 1..(Len(q) - 1)
      PROVE  Tail(q)[i] = s[(Len(s) - (Len(q) - 1)) + i]
  <2>1. i + 1 \in 1..Len(q) /\ Len(s) - Len(q) + (i + 1) = (Len(s) - (Len(q) - 1)) + i
    BY <1>1
  <2> QED
    BY <1>2, <2>1 DEF Ends
<1>5. q[1] = Head(q) /\ 1 \in 1..Len(q)
  BY <1>1
<1> QED
  BY <1>1, <1>2, <1>3, <1>4, <1>5 DEF Ends

(* The sequences of a state, and how many messages were received.          *)
LEMMA Lengths ==
  ASSUME IInv, Waiting, NEW c \in Configs
  PROVE  /\ channel[c] \in Seq(Filters) /\ sent[c] \in Seq(Filters)
         /\ Len(channel[c]) \in Nat /\ Len(sent[c]) \in Nat
         /\ DOMAIN sent[c] = 1..Len(sent[c])
         /\ received(c) \in Nat /\ received(c) <= Len(sent[c])
<1>1. channel[c] \in Seq(Filters) /\ sent[c] \in Seq(Filters)
  BY DEF IInv, TypeOK
<1>2. Len(channel[c]) \in Nat /\ Len(sent[c]) \in Nat /\ DOMAIN sent[c] = 1..Len(sent[c])
  BY <1>1, LenProperties
<1>3. Len(channel[c]) <= Len(sent[c])
  BY DEF Waiting, Ends
<1>4. \A m, n \in Nat : m <= n => n - m \in Nat /\ n - m <= n
  OBVIOUS
<1>5. received(c) = Len(sent[c]) - Len(channel[c])
  BY DEF received
<1> QED
  BY <1>1, <1>2, <1>3, <1>4, <1>5

(* A history only grows, and so does its part that was received.           *)
Grows ==
  \A c \in Configs :
     /\ received(c) <= received(c)'
     /\ Len(sent[c]) <= Len(sent'[c])
     /\ DOMAIN sent'[c] = 1..Len(sent'[c]) /\ Len(sent'[c]) \in Nat
     /\ received(c)' \in Nat
     /\ \A i \in 1..Len(sent[c]) : sent'[c][i] = sent[c][i]

(* Sends and receives keep what waits at the end of what was sent.         *)
LEMMA WaitingStep ==
  ASSUME DirsApart, IInv, Offsets, Waiting, [Next]_vars
  PROVE  Waiting' /\ Grows
<1>1. CASE UNCHANGED <<channel, sent>>
  <2>1. Waiting'
    BY <1>1 DEF Waiting
  <2>2. ASSUME NEW c \in Configs PROVE received(c)' = received(c)
    BY <1>1 DEF received
  <2>3. Grows
    BY <1>1, <2>2, Lengths DEF Grows
  <2> QED
    BY <2>1, <2>3
<1>2. ASSUME NEW f \in Filters, Send(f) PROVE Waiting' /\ Grows
  <2> DEFINE o == owner[f]
  <2>1. CASE /\ o \in Configs
             /\ channel' = [channel EXCEPT ![o] = Append(@, f)]
             /\ sent' = [sent EXCEPT ![o] = Append(@, f)]
    <3>1. /\ channel'[o] = Append(channel[o], f) /\ sent'[o] = Append(sent[o], f)
          /\ \A c \in Configs : c # o => channel'[c] = channel[c] /\ sent'[c] = sent[c]
      BY <2>1 DEF IInv, TypeOK
    <3>2. channel[o] \in Seq(Filters) /\ sent[o] \in Seq(Filters) /\ Ends(channel[o], sent[o])
      BY <2>1, Lengths DEF Waiting
    <3>3. Ends(channel'[o], sent'[o]) /\ Len(sent'[o]) - Len(channel'[o]) = received(o)
      <4>1. /\ Ends(Append(channel[o], f), Append(sent[o], f))
            /\ Len(Append(sent[o], f)) - Len(Append(channel[o], f)) = Len(sent[o]) - Len(channel[o])
        BY <3>2, EndsAppend
      <4> QED
        BY <3>1, <4>1 DEF received
    <3>4. /\ Len(sent'[o]) = Len(sent[o]) + 1 /\ DOMAIN sent'[o] = 1..Len(sent'[o])
          /\ \A i \in 1..Len(sent[o]) : sent'[o][i] = sent[o][i]
      BY <3>1, <3>2, AppendProperties, LenProperties
    <3>5. Waiting'
      BY <3>1, <3>3 DEF Waiting
    <3>6. ASSUME NEW c \in Configs PROVE received(c)' = received(c)
      <4>1. CASE c = o
        BY <3>3, <4>1 DEF received
      <4>2. CASE c # o
        BY <3>1, <4>2 DEF received
      <4> QED
        BY <4>1, <4>2
    <3>7. ASSUME NEW c \in Configs
          PROVE  /\ Len(sent[c]) <= Len(sent'[c]) /\ Len(sent'[c]) \in Nat
                 /\ DOMAIN sent'[c] = 1..Len(sent'[c])
                 /\ \A i \in 1..Len(sent[c]) : sent'[c][i] = sent[c][i]
      <4>1. CASE c = o
        BY <3>4, <4>1, Lengths
      <4>2. CASE c # o
        BY <3>1, <4>2, Lengths
      <4> QED
        BY <4>1, <4>2
    <3>8. \A c \in Configs : received(c) \in Nat
      BY Lengths
    <3>9. Grows
      BY <3>6, <3>7, <3>8 DEF Grows
    <3> QED
      BY <3>5, <3>9
  <2> QED
    BY <1>1, <1>2, <2>1, SendEffect
<1>3. ASSUME NEW w \in Workers, Recv(w) PROVE Waiting' /\ Grows
  <2> DEFINE c == w[1]
  <2>1. /\ c \in Configs /\ channel[c] # <<>> /\ sent' = sent
        /\ channel' = [channel EXCEPT ![c] = Tail(@)]
    BY <1>3, RecvEffect
  <2>2. /\ channel'[c] = Tail(channel[c])
        /\ \A d \in Configs : d # c => channel'[d] = channel[d]
    BY <2>1 DEF IInv, TypeOK
  <2>3. channel[c] \in Seq(Filters) /\ sent[c] \in Seq(Filters) /\ Ends(channel[c], sent[c])
    BY <2>1, Lengths DEF Waiting
  <2>4. Ends(channel'[c], sent[c]) /\ Len(sent[c]) - Len(channel'[c]) = received(c) + 1
    BY <2>1, <2>2, <2>3, EndsTail DEF received
  <2>5. Waiting'
    BY <2>1, <2>2, <2>4 DEF Waiting
  <2>6. ASSUME NEW d \in Configs PROVE received(d)' = received(d) \/ received(d)' = received(d) + 1
    <3>1. CASE d = c
      BY <2>1, <2>4, <3>1 DEF received
    <3>2. CASE d # c
      BY <2>1, <2>2, <3>2 DEF received
    <3> QED
      BY <3>1, <3>2
  <2>7. Grows
    BY <2>1, <2>6, Lengths DEF Grows
  <2> QED
    BY <2>5, <2>7
<1>4. ASSUME NEW w \in Workers, WriteLine(w) \/ WriteError(w) PROVE UNCHANGED <<channel, sent>>
  BY <1>4 DEF WriteLine, WriteError
<1>5. Quiet => UNCHANGED <<channel, sent>>
  BY DEF Quiet
<1> QED
  BY <1>1, <1>2, <1>3, <1>4, <1>5, Kinds

(* What was received, and in which order, never changes.                   *)
LEMMA ReceivedStays ==
  ASSUME IInv, Waiting, Grows, NEW c \in Configs, NEW f, NEW g
  PROVE  /\ Received(c, f) => Received(c, f)'
         /\ ReceivedBefore(c, f, g) => ReceivedBefore(c, f, g)'
<1>1. received(c) \in Nat /\ received(c) <= Len(sent[c]) /\ Len(sent[c]) \in Nat
  BY Lengths
<1>2. received(c)' \in Nat /\ received(c) <= received(c)'
  BY DEF Grows
<1>3. \A i \in 1..received(c) : i \in 1..received(c)' /\ sent'[c][i] = sent[c][i]
  <2>1. ASSUME NEW i \in 1..received(c) PROVE i \in 1..received(c)' /\ i \in 1..Len(sent[c])
    BY <1>1, <1>2
  <2> QED
    BY <2>1 DEF Grows
<1> QED
  BY <1>3 DEF Received, ReceivedBefore

(* Nor does the order in which messages were sent.                         *)
LEMMA SentStays ==
  ASSUME IInv, Waiting, Grows, NEW f, NEW g, SentBefore(f, g)
  PROVE  SentBefore(f, g)'
<1>1. PICK c \in Configs : \E i, j \in DOMAIN sent[c] : i < j /\ sent[c][i] = f /\ sent[c][j] = g
  BY DEF SentBefore
<1>2. PICK i \in DOMAIN sent[c], j \in DOMAIN sent[c] : i < j /\ sent[c][i] = f /\ sent[c][j] = g
  BY <1>1
<1>3. i \in 1..Len(sent[c]) /\ j \in 1..Len(sent[c]) /\ Len(sent[c]) \in Nat
  BY <1>2, Lengths
<1>4. /\ Len(sent[c]) <= Len(sent'[c]) /\ Len(sent'[c]) \in Nat /\ DOMAIN sent'[c] = 1..Len(sent'[c])
      /\ sent'[c][i] = f /\ sent'[c][j] = g
  BY <1>2, <1>3 DEF Grows
<1>5. i \in DOMAIN sent'[c] /\ j \in DOMAIN sent'[c]
  BY <1>3, <1>4
<1> QED
  BY <1>2, <1>4, <1>5 DEF SentBefore

(* What was received in an order was sent in it.                           *)
LEMMA ReceivedSent ==
  ASSUME IInv, Waiting, NEW c \in Configs, NEW f, NEW g, ReceivedBefore(c, f, g)
  PROVE  SentBefore(f, g)
<1>1. PICK i \in 1..received(c), j \in 1..received(c) : i < j /\ sent[c][i] = f /\ sent[c][j] = g
  BY DEF ReceivedBefore
<1>2. i \in DOMAIN sent[c] /\ j \in DOMAIN sent[c]
  BY Lengths
<1> QED
  BY <1>1, <1>2 DEF SentBefore

(* A worker that takes nothing into its hand, and whose file stays as it   *)
(* is, has received what its file holds.                                   *)
LEMMA HandKept ==
  ASSUME IInv, Waiting, Hands, Grows, NEW w \in Workers, NEW g,
         g # nil => g = message[w]
  PROVE  /\ g # nil => Received(w[1], g)'
         /\ \A l \in disk[file_path(w)] : Received(w[1], l[2])'
         /\ \A l \in disk[file_path(w)] : g # nil => ReceivedBefore(w[1], l[2], g)'
<1>1. w[1] \in Configs
  BY WorkerPair
<1>2. ASSUME g # nil PROVE Received(w[1], g)'
  <2>1. Received(w[1], g)
    BY <1>2 DEF Hands
  <2> QED
    BY <1>1, <2>1, ReceivedStays
<1>3. ASSUME NEW l \in disk[file_path(w)] PROVE Received(w[1], l[2])'
  <2> DEFINE h == l[2]
  <2>1. Received(w[1], h)
    BY DEF Hands
  <2> QED
    BY <1>1, <2>1, ReceivedStays DEF Received
<1>4. ASSUME NEW l \in disk[file_path(w)], g # nil PROVE ReceivedBefore(w[1], l[2], g)'
  <2>1. ReceivedBefore(w[1], l[2], g)
    BY <1>4 DEF Hands
  <2> QED
    BY <1>1, <2>1, ReceivedStays
<1> QED
  BY <1>2, <1>3, <1>4

(* The message that is received was sent after all that were received      *)
(* before it, the lines of the worker's file among them.                   *)
LEMMA HandTaken ==
  ASSUME IInv, Offsets, Waiting, Hands, Grows, NEW w \in Workers, Recv(w),
         NEW f, f = Head(channel[w[1]])
  PROVE  /\ message' = [message EXCEPT ![w] = f]
         /\ disk' = disk
         /\ Received(w[1], f)'
         /\ \A l \in disk[file_path(w)] : ReceivedBefore(w[1], l[2], f)'
<1> DEFINE c == w[1]  n == received(c) + 1
<1>1. /\ c \in Configs /\ channel[c] \in Seq(Filters) /\ channel[c] # <<>>
      /\ message' = [message EXCEPT ![w] = f]
      /\ channel' = [channel EXCEPT ![c] = Tail(@)]
      /\ UNCHANGED <<disk, sent>>
  BY RecvEffect
<1>2. sent[c] \in Seq(Filters) /\ Ends(channel[c], sent[c]) /\ received(c) \in Nat
  BY <1>1, Lengths DEF Waiting
<1>3. /\ Len(sent[c]) - Len(Tail(channel[c])) = n
      /\ sent[c][n] = f
  BY <1>1, <1>2, EndsTail DEF received
<1>4. received(c)' = n
  <2>1. channel'[c] = Tail(channel[c])
    BY <1>1 DEF IInv, TypeOK
  <2> QED
    BY <1>1, <1>3, <2>1 DEF received
<1>5. n \in 1..n /\ sent'[c][n] = f /\ \A i \in 1..received(c) : i \in 1..n /\ i < n
  BY <1>1, <1>2, <1>3
<1> HIDE DEF n
<1>6. ASSUME NEW l \in disk[file_path(w)]
      PROVE  \E i, j \in 1..n : i < j /\ sent'[c][i] = l[2] /\ sent'[c][j] = f
  <2>1. PICK i \in 1..received(c) : sent[c][i] = l[2]
    BY DEF Hands, Received
  <2> QED
    BY <1>1, <1>5, <2>1
<1>7. \E i \in 1..n : sent'[c][i] = f
  BY <1>5
<1>8. Received(c, f)'
  BY <1>4, <1>7 DEF Received
<1>9. \A l \in disk[file_path(w)] : ReceivedBefore(c, l[2], f)'
  BY <1>4, <1>6 DEF ReceivedBefore
<1> QED
  BY <1>1, <1>8, <1>9

(* What a worker holds in its hand stays after the lines of its file.      *)
LEMMA HandsStep ==
  ASSUME DirsApart, IInv, Offsets, Waiting, Hands, Grows, [Next]_vars
  PROVE  Hands'
<1>1. ASSUME UNCHANGED disk,
             \A w \in Workers : message'[w] = message[w] \/ message'[w] = nil
      PROVE  Hands'
  <2>1. ASSUME NEW w \in Workers, NEW g, g = message'[w]
        PROVE  /\ g # nil => Received(w[1], g)'
               /\ \A l \in disk[file_path(w)] : Received(w[1], l[2])'
               /\ \A l \in disk[file_path(w)] : g # nil => ReceivedBefore(w[1], l[2], g)'
    <3>1. g # nil => g = message[w]
      BY <1>1, <2>1
    <3> QED
      BY <3>1, HandKept
  <2> QED
    BY <1>1, <2>1 DEF Hands, file_path, Received, ReceivedBefore
<1>2. ASSUME NEW w \in Workers, Recv(w) PROVE Hands'
  <2>1. PICK f : f = Head(channel[w[1]])
    OBVIOUS
  <2>2. /\ message' = [message EXCEPT ![w] = f] /\ disk' = disk
        /\ Received(w[1], f)'
        /\ \A l \in disk[file_path(w)] : ReceivedBefore(w[1], l[2], f)'
    BY <1>2, <2>1, HandTaken
  <2>3. ASSUME NEW v \in Workers, NEW g, g = message'[v]
        PROVE  /\ g # nil => Received(v[1], g)'
               /\ \A l \in disk[file_path(v)] : Received(v[1], l[2])'
               /\ \A l \in disk[file_path(v)] : g # nil => ReceivedBefore(v[1], l[2], g)'
    <3>1. CASE v = w
      <4>1. g = f
        BY <2>2, <2>3, <3>1 DEF IInv, TypeOK
      <4>2. \A l \in disk[file_path(w)] : Received(w[1], l[2])'
        BY HandKept
      <4> QED
        BY <2>2, <3>1, <4>1, <4>2
    <3>2. CASE v # w
      <4>1. g = message[v]
        BY <2>2, <2>3, <3>2 DEF IInv, TypeOK
      <4> QED
        BY <4>1, HandKept
    <3> QED
      BY <3>1, <3>2
  <2> QED
    BY <2>2, <2>3 DEF Hands, file_path, Received, ReceivedBefore
<1>3. ASSUME NEW w \in Workers, WriteLine(w) PROVE Hands'
  <2> DEFINE p == file_path(w)
  <2>1. PICK f : f = message[w]
    OBVIOUS
  <2>2. /\ f \in Filters /\ p \in Files /\ message' = [message EXCEPT ![w] = nil]
        /\ disk' = [disk EXCEPT ![p] = @ \cup {<<offset[w], f>>}]
    BY <1>3, <2>1, LineAppended
  <2>3. Received(w[1], f)'
    BY <2>1, <2>2, NilAssumption, HandKept
  <2>4. ASSUME NEW v \in Workers, NEW g, g = message'[v]
        PROVE  /\ g # nil => Received(v[1], g)'
               /\ \A l \in disk'[file_path(v)] : Received(v[1], l[2])'
               /\ \A l \in disk'[file_path(v)] : g # nil => ReceivedBefore(v[1], l[2], g)'
    <3>1. CASE v = w
      <4>1. g = nil
        BY <2>2, <2>4, <3>1 DEF IInv, TypeOK
      <4>2. ASSUME NEW l \in disk'[p] PROVE Received(w[1], l[2])'
        <5>1. l \in disk[p] \/ l[2] = f
          BY <2>2 DEF IInv, TypeOK
        <5>2. \A k \in disk[p] : Received(w[1], k[2])'
          BY HandKept
        <5> QED
          BY <2>3, <5>1, <5>2 DEF Received
      <4> QED
        BY <3>1, <4>1, <4>2
    <3>2. CASE v # w
      <4>1. g = message[v]
        BY <2>2, <2>4, <3>2 DEF IInv, TypeOK
      <4>2. disk'[file_path(v)] = disk[file_path(v)]
        BY <2>2, <3>2, FilesApart, WorkerFile DEF IInv, TypeOK
      <4> QED
        BY <4>1, <4>2, HandKept
    <3> QED
      BY <3>1, <3>2
  <2> QED
    BY <2>4 DEF Hands, file_path, Received, ReceivedBefore
<1>4. ASSUME NEW w \in Workers, WriteError(w) PROVE Hands'
  BY <1>1, <1>4 DEF WriteError, IInv, TypeOK
<1>5. ASSUME NEW f \in Filters, Send(f) PROVE Hands'
  BY <1>1, <1>5, SendEffect
<1>6. CASE Quiet
  BY <1>1, <1>6 DEF Quiet
<1> QED
  BY <1>2, <1>3, <1>4, <1>5, <1>6, Kinds

(* The line that is written comes after the lines of its file, in the file *)
(* and in the history.                                                     *)
LEMMA FileOrderStep ==
  ASSUME DirsApart, IInv, Offsets, Ordered, Grows, [Next]_vars
  PROVE  FileOrder'
<1>1. ASSUME UNCHANGED disk PROVE FileOrder'
  <2>1. ASSUME NEW p \in Files, NEW l \in disk[p], NEW m \in disk[p], l[1] < m[1]
        PROVE  SentBefore(l[2], m[2])'
    <3>1. SentBefore(l[2], m[2])
      BY <2>1 DEF Ordered, FileOrder
    <3> QED
      BY <3>1, SentStays DEF Ordered
  <2> QED
    BY <1>1, <2>1 DEF FileOrder, SentBefore, Files, file_path
<1>2. ASSUME NEW w \in Workers, WriteLine(w) PROVE FileOrder'
  <2>1. PICK f, n, p : f = message[w] /\ n = offset[w] /\ p = file_path(w)
    OBVIOUS
  <2>2. /\ f \in Filters /\ p \in Files /\ disk' = [disk EXCEPT ![p] = @ \cup {<<n, f>>}]
        /\ n \in Nat /\ w[1] \in Configs
    BY <1>2, <2>1, LineAppended, WorkerPair
  <2>3. ASSUME NEW l \in disk[p] PROVE l[1] \in Nat /\ l[1] < n /\ SentBefore(l[2], f)
    <3>1. ReceivedBefore(w[1], l[2], f)
      BY <2>1, <2>2, NilAssumption DEF Ordered, Hands
    <3>2. SentBefore(l[2], f)
      BY <2>2, <3>1, ReceivedSent DEF Ordered
    <3>3. l[1] \in Nat
      BY <2>2 DEF IInv, TypeOK
    <3> QED
      BY <2>1, <3>2, <3>3 DEF Offsets
  <2>4. ASSUME NEW q \in Files, NEW l \in disk'[q], NEW m \in disk'[q], l[1] < m[1]
        PROVE  SentBefore(l[2], m[2])
    <3>1. q = p \/ disk'[q] = disk[q]
      BY <2>2 DEF IInv, TypeOK
    <3>2. disk'[p] = disk[p] \cup {<<n, f>>}
      BY <2>2 DEF IInv, TypeOK
    <3>3. CASE l \in disk[q] /\ m \in disk[q]
      BY <2>4, <3>3 DEF Ordered, FileOrder
    <3>4. CASE q = p /\ l \in disk[p] /\ m = <<n, f>>
      BY <2>3, <3>4
    <3>5. CASE q = p /\ l = <<n, f>>
      <4>1. l[1] = n /\ (m[1] < n \/ m[1] = n)
        BY <2>3, <2>4, <3>2, <3>5
      <4>2. m[1] \in Nat
        BY <2>2, <2>3, <2>4, <3>2, <3>5
      <4> QED
        BY <2>2, <2>4, <4>1, <4>2
    <3> QED
      BY <2>4, <3>1, <3>2, <3>3, <3>4, <3>5
  <2>5. ASSUME NEW q \in Files, NEW l \in disk'[q], NEW m \in disk'[q], l[1] < m[1]
        PROVE  SentBefore(l[2], m[2])'
    <3>1. SentBefore(l[2], m[2])
      BY <2>4, <2>5
    <3> QED
      BY <3>1, SentStays DEF Ordered
  <2> QED
    BY <2>5 DEF FileOrder, SentBefore, Files, file_path
<1>3. ASSUME NEW w \in Workers, WriteError(w) \/ Recv(w) PROVE UNCHANGED disk
  BY <1>3 DEF WriteError, Recv
<1>4. ASSUME NEW f \in Filters, Send(f) PROVE UNCHANGED disk
  BY <1>4, SendEffect
<1>5. Quiet => UNCHANGED disk
  BY DEF Quiet
<1> QED
  BY <1>1, <1>2, <1>3, <1>4, <1>5, Kinds

-----------------------------------------------------------------------------
(* Nothing is anywhere at the start.                                       *)
LEMMA InitFileInv == Init => FileInv
<1> SUFFICES ASSUME Init PROVE FileInv
  OBVIOUS
<1>1. /\ \A c \in Configs : channel[c] = <<>> /\ sent[c] = <<>>
      /\ \A w \in Workers : message[w] = nil /\ disk[file_path(w)] = {}
      /\ \A p \in Files : disk[p] = {}
      /\ \A f \in Filters : filter[f] = "none"
      /\ errors = {}
  BY WorkerFile DEF Init
<1>2. Offsets
  BY <1>1 DEF Offsets
<1>3. \A f \in Filters : ~Sending(f) /\ ~Queued(f) /\ ~Held(f) /\ ~Written(f)
  BY <1>1, NilAssumption DEF Sending, Queued, Held, Written
<1>4. Once
  BY <1>1, <1>3 DEF Once
<1>5. Waiting
  <2>1. Ends(<<>>, <<>>)
    BY DEF Ends
  <2> QED
    BY <1>1, <2>1 DEF Waiting
<1>6. Hands /\ FileOrder
  BY <1>1 DEF Hands, FileOrder
<1> QED
  BY <1>2, <1>4, <1>5, <1>6, InitIInv DEF FileInv, Ordered

(* A message moves from place to place, and is never in two.               *)
LEMMA OnceStep ==
  ASSUME DirsApart, IInv, Offsets, Once, [Next]_vars
  PROVE  Once'
BY Kinds, PlacesQuiet, PlacesSend, PlacesRecv, PlacesLine, PlacesError

(* Every step keeps the invariant of the files.                            *)
LEMMA StepFileInv ==
  ASSUME DirsApart, FileInv, [Next]_vars
  PROVE  FileInv'
<1>1. IInv /\ Offsets /\ Once /\ Ordered /\ Waiting /\ Hands
  BY DEF FileInv, Ordered
<1>2. IInv'
  BY <1>1, StepIInv
<1>3. Offsets' /\ Once'
  BY <1>1, OffsetsStep, OnceStep
<1>4. Waiting' /\ Grows
  BY <1>1, WaitingStep
<1>5. Hands' /\ FileOrder'
  BY <1>1, <1>4, HandsStep, FileOrderStep
<1> QED
  BY <1>2, <1>3, <1>4, <1>5 DEF FileInv, Ordered

(* With a directory for each configuration, the invariant of the files     *)
(* holds in every state.                                                   *)
THEOREM FilesInductive == DirsApart => (SafetySpec => []FileInv)
<1> SUFFICES ASSUME DirsApart PROVE SafetySpec => []FileInv
  OBVIOUS
<1>1. FileInv /\ [Next]_vars => FileInv'
  BY StepFileInv
<1> QED
  BY <1>1, InitFileInv, PTL DEF SafetySpec

(* The places of a message, one disjunct for each kind.                    *)
LEMMA PlacesOf ==
  ASSUME NEW f \in Filters, NEW place
  PROVE  place \in Places(f) <=>
           \/ \E c \in Configs : \E i \in DOMAIN channel[c] :
                 channel[c][i] = f /\ place = <<"queue", c, i>>
           \/ \E w \in Workers : message[w] = f /\ place = <<"hand", w>>
           \/ \E p \in Files : \E l \in disk[p] : l[2] = f /\ place = <<"line", p, l>>
           \/ f \in errors /\ place = <<"stderr">>
<1> DEFINE queue == UNION {{<<"queue", c, i>> : i \in {j \in DOMAIN channel[c] : channel[c][j] = f}} : c \in Configs}
           hand  == {<<"hand", w>> : w \in {v \in Workers : message[v] = f}}
           line  == UNION {{<<"line", p, l>> : l \in {k \in disk[p] : k[2] = f}} : p \in Files}
           err   == {<<"stderr">> : e \in errors \cap {f}}
<1>1. place \in queue <=> \E c \in Configs : \E i \in DOMAIN channel[c] :
                             channel[c][i] = f /\ place = <<"queue", c, i>>
  <2>1. place \in queue <=> \E c \in Configs :
           place \in {<<"queue", c, i>> : i \in {j \in DOMAIN channel[c] : channel[c][j] = f}}
    BY Zenon
  <2>2. ASSUME NEW c \in Configs
        PROVE  place \in {<<"queue", c, i>> : i \in {j \in DOMAIN channel[c] : channel[c][j] = f}}
                 <=> \E i \in DOMAIN channel[c] : channel[c][i] = f /\ place = <<"queue", c, i>>
    BY Zenon
  <2> HIDE DEF queue
  <2> QED
    BY <2>1, <2>2
<1>2. place \in hand <=> \E w \in Workers : message[w] = f /\ place = <<"hand", w>>
  OBVIOUS
<1>3. place \in line <=> \E p \in Files : \E l \in disk[p] : l[2] = f /\ place = <<"line", p, l>>
  OBVIOUS
<1>4. place \in err <=> f \in errors /\ place = <<"stderr">>
  OBVIOUS
<1>5. Places(f) = queue \cup hand \cup line \cup err
  BY DEF Places
<1> HIDE DEF queue, hand, line, err
<1> QED
  BY <1>1, <1>2, <1>3, <1>4, <1>5

(* A message that is told to be at one place is at one place.              *)
LEMMA PlaceUnique ==
  ASSUME Once, NEW f \in Filters
  PROVE  /\ Sending(f) <=> Places(f) # {}
         /\ \A a, b \in Places(f) : a = b
<1>1. /\ Sending(f) <=> Queued(f) \/ Held(f) \/ Written(f) \/ f \in errors
      /\ Queued(f) => ~Held(f) /\ ~Written(f) /\ f \notin errors
      /\ Held(f) => ~Written(f) /\ f \notin errors
      /\ Written(f) => f \notin errors
  BY DEF Once
<1>2. Places(f) # {} <=> Queued(f) \/ Held(f) \/ Written(f) \/ f \in errors
  <2>1. ASSUME NEW place \in Places(f) PROVE Queued(f) \/ Held(f) \/ Written(f) \/ f \in errors
    BY PlacesOf DEF Queued, Held, Written
  <2>2. ASSUME Queued(f) PROVE Places(f) # {}
    BY <2>2, PlacesOf DEF Queued
  <2>3. ASSUME Held(f) PROVE Places(f) # {}
    BY <2>3, PlacesOf DEF Held
  <2>4. ASSUME Written(f) PROVE Places(f) # {}
    <3>1. PICK p \in Files : \E l \in disk[p] : l[2] = f
      BY <2>4 DEF Written
    <3>2. PICK l \in disk[p] : l[2] = f
      BY <3>1
    <3>3. <<"line", p, l>> \in Places(f)
      BY <3>2, PlacesOf
    <3> QED
      BY <3>3
  <2>5. ASSUME f \in errors PROVE Places(f) # {}
    BY <2>5, PlacesOf
  <2> QED
    BY <2>1, <2>2, <2>3, <2>4, <2>5
<1>3. ASSUME NEW a \in Places(f), NEW b \in Places(f) PROVE a = b
  <2>1. CASE Queued(f)
    <3>1. ASSUME NEW place \in Places(f)
          PROVE  \E c \in Configs : \E i \in DOMAIN channel[c] :
                    channel[c][i] = f /\ place = <<"queue", c, i>>
      BY <1>1, <2>1, PlacesOf DEF Held, Written
    <3>2. PICK c \in Configs : \E i \in DOMAIN channel[c] :
               channel[c][i] = f /\ a = <<"queue", c, i>>
      BY <3>1
    <3>3. PICK i \in DOMAIN channel[c] : channel[c][i] = f /\ a = <<"queue", c, i>>
      BY <3>2
    <3>4. PICK d \in Configs : \E j \in DOMAIN channel[d] :
               channel[d][j] = f /\ b = <<"queue", d, j>>
      BY <3>1
    <3>5. PICK j \in DOMAIN channel[d] : channel[d][j] = f /\ b = <<"queue", d, j>>
      BY <3>4
    <3> QED
      BY <3>3, <3>5 DEF Once
  <2>2. CASE Held(f)
    <3>1. ASSUME NEW place \in Places(f)
          PROVE  \E w \in Workers : message[w] = f /\ place = <<"hand", w>>
      BY <1>1, <2>2, PlacesOf DEF Queued, Written
    <3> QED
      BY <3>1, NilAssumption DEF Once
  <2>3. CASE Written(f)
    <3>1. ASSUME NEW place \in Places(f)
          PROVE  \E p \in Files : \E l \in disk[p] : l[2] = f /\ place = <<"line", p, l>>
      BY <1>1, <2>3, PlacesOf DEF Queued, Held
    <3> QED
      BY <3>1 DEF Once
  <2>4. CASE f \in errors
    <3>1. ASSUME NEW place \in Places(f) PROVE place = <<"stderr">>
      BY <1>1, <2>4, PlacesOf DEF Queued, Held, Written
    <3> QED
      BY <3>1
  <2> QED
    BY <1>2, <2>1, <2>2, <2>3, <2>4
<1> QED
  BY <1>1, <1>2, <1>3

(* No message is received by two workers, written twice or forgotten, when *)
(* no two configurations share a directory.                                *)
THEOREM LoggedOnce == DirsApart => (SafetySpec => []ExactlyOnce)
<1> SUFFICES ASSUME DirsApart PROVE SafetySpec => []ExactlyOnce
  OBVIOUS
<1>1. FileInv => ExactlyOnce
  <2> SUFFICES ASSUME Once, NEW f \in Filters
               PROVE  IF Sending(f) THEN \E place \in Places(f) : Places(f) = {place}
                                    ELSE Places(f) = {}
    BY DEF FileInv, ExactlyOnce
  <2> QED
    BY PlaceUnique
<1> QED
  BY <1>1, FilesInductive, PTL

(* The lines of a file are in the order of the sends, although workers     *)
(* write after they have released the lock.                                *)
THEOREM LinesOrdered == DirsApart => (SafetySpec => []FileOrder)
<1> SUFFICES ASSUME DirsApart PROVE SafetySpec => []FileOrder
  OBVIOUS
<1>1. FileInv => FileOrder
  BY DEF FileInv, Ordered
<1> QED
  BY <1>1, FilesInductive, PTL

(* No line is overwritten, and no file truncated once it has a line.       *)
THEOREM LinesKept == DirsApart => (SafetySpec => LinesStay)
<1> SUFFICES ASSUME DirsApart PROVE SafetySpec => LinesStay
  OBVIOUS
<1>1. FileInv /\ [Next]_vars => (\A p \in Files : disk[p] \subseteq disk'[p])
  <2> SUFFICES ASSUME FileInv, [Next]_vars PROVE \A p \in Files : disk[p] \subseteq disk'[p]
    OBVIOUS
  <2>1. IInv /\ Offsets
    BY DEF FileInv
  <2>2. CASE disk' = disk
    BY <2>2
  <2>3. ASSUME NEW w \in Workers, WriteLine(w) PROVE \A p \in Files : disk[p] \subseteq disk'[p]
    <3>1. PICK q, n : q = file_path(w) /\ n = <<offset[w], message[w]>>
      OBVIOUS
    <3>2. disk' = [disk EXCEPT ![q] = @ \cup {n}]
      BY <2>1, <2>3, <3>1, LineAppended
    <3> QED
      BY <2>1, <3>2 DEF IInv, TypeOK
  <2>4. ASSUME NEW w \in Workers, WriteError(w) \/ Recv(w) PROVE disk' = disk
    BY <2>4 DEF WriteError, Recv
  <2>5. ASSUME NEW f \in Filters, Send(f) PROVE disk' = disk
    BY <2>1, <2>5, SendEffect
  <2>6. Quiet => disk' = disk
    BY DEF Quiet
  <2> QED
    BY <2>1, <2>2, <2>3, <2>4, <2>5, <2>6, Kinds
<1> QED
  BY <1>1, FilesInductive, PTL DEF SafetySpec, LinesStay

-----------------------------------------------------------------------------
(* What the promise says of a message, by its place.                       *)
LEMMA StageOf ==
  ASSUME Once, NEW f \in Filters
  PROVE  /\ Status(f) = "unsent" <=> ~Sending(f)
         /\ Status(f) = "accepted" <=> Sending(f) /\ ~Written(f) /\ f \notin errors
         /\ Status(f) = "reported" <=> f \in errors
         /\ Status(f) = "written" <=> Written(f)
         /\ Held(f) => Status(f) = "accepted"
<1>1. /\ Written(f) \/ f \in errors \/ Held(f) => Sending(f)
      /\ Written(f) => f \notin errors
      /\ Held(f) => ~Written(f) /\ f \notin errors
  BY DEF Once
<1>2. Status(f) = IF Written(f) THEN "written" ELSE IF f \in errors THEN "reported"
                  ELSE IF Sending(f) THEN "accepted" ELSE "unsent"
  BY DEF Status, Written
<1> QED
  BY <1>1, <1>2

(* The moves of the promise. *)
Moves == {<<"unsent", "accepted">>, <<"unsent", "reported">>,
          <<"accepted", "written">>, <<"accepted", "reported">>}

(* A step leaves every message at its stage, or moves one to the next.     *)
LEMMA StageStep ==
  ASSUME DirsApart, FileInv, FileInv', [Next]_vars
  PROVE  \/ \A g \in Filters : Status(g)' = Status(g)
         \/ \E f \in Filters : /\ <<Status(f), Status(f)'>> \in Moves
                              /\ \A g \in Filters \ {f} : Status(g)' = Status(g)
<1>0. IInv /\ Offsets /\ Once /\ Once'
  BY DEF FileInv
<1>1. ASSUME NEW g \in Filters,
             Sending(g)' <=> Sending(g), Written(g)' <=> Written(g), g \in errors' <=> g \in errors
      PROVE  Status(g)' = Status(g)
  <2>1. Status(g) = IF Written(g) THEN "written" ELSE IF g \in errors THEN "reported"
                    ELSE IF Sending(g) THEN "accepted" ELSE "unsent"
    BY DEF Status, Written
  <2>2. Status(g)' = IF Written(g)' THEN "written" ELSE IF g \in errors' THEN "reported"
                     ELSE IF Sending(g)' THEN "accepted" ELSE "unsent"
    BY DEF Status, Written
  <2> QED
    BY <1>1, <2>1, <2>2
<1>2. CASE Quiet \/ \E w \in Workers : Recv(w)
  <2>1. disk' = disk /\ errors' = errors /\ \A g \in Filters : Sending(g)' <=> Sending(g)
    BY <1>0, <1>2, RecvEffect DEF Quiet, Sending
  <2>2. \A g \in Filters : Written(g)' <=> Written(g)
    BY <2>1 DEF Written
  <2> QED
    BY <1>1, <2>1, <2>2
<1>3. ASSUME NEW f \in Filters, Send(f)
      PROVE  /\ <<Status(f), Status(f)'>> \in Moves
             /\ \A g \in Filters \ {f} : Status(g)' = Status(g)
  <2>1. /\ ~Sending(f) /\ disk' = disk
        /\ \A g \in Filters : Sending(g)' <=> Sending(g) \/ g = f
        /\ errors' = errors \/ errors' = errors \cup {f}
    BY <1>0, <1>3, SendEffect
  <2>2. \A g \in Filters : Written(g)' <=> Written(g)
    BY <2>1 DEF Written
  <2>3. Status(f) = "unsent" /\ ~Written(f)
    BY <1>0, <2>1, StageOf DEF Once
  <2>4. Status(f)' = IF Written(f)' THEN "written" ELSE IF f \in errors' THEN "reported"
                     ELSE IF Sending(f)' THEN "accepted" ELSE "unsent"
    BY DEF Status, Written
  <2>5. Status(f)' \in {"accepted", "reported"}
    BY <2>1, <2>2, <2>3, <2>4
  <2> QED
    BY <1>1, <2>1, <2>2, <2>3, <2>5 DEF Moves
<1>4. ASSUME NEW w \in Workers, WriteLine(w) \/ WriteError(w)
      PROVE  \E f \in Filters : /\ <<Status(f), Status(f)'>> \in Moves
                              /\ \A g \in Filters \ {f} : Status(g)' = Status(g)
  <2>0. PICK f : f = message[w]
    OBVIOUS
  <2>1. /\ f \in Filters /\ filter' = filter
        /\ \/ WriteLine(w) /\ errors' = errors
           \/ ~WriteLine(w) /\ disk' = disk /\ errors' = errors \cup {f}
    BY <1>0, <1>4, <2>0, LineAppended DEF WriteError, IInv, Holding, filterVars
  <2>2. Status(f) = "accepted"
    <3>1. Held(f)
      BY <2>0, <2>1 DEF Held
    <3> QED
      BY <1>0, <2>1, <3>1, StageOf
  <2>3. \A g \in Filters : Sending(g)' <=> Sending(g)
    BY <2>1 DEF Sending
  <2>4. \A g \in Filters :
           /\ Written(g)' <=> Written(g) \/ (g = f /\ WriteLine(w))
           /\ g \in errors' <=> g \in errors \/ (g = f /\ ~WriteLine(w))
    <3>1. CASE WriteLine(w)
      BY <1>0, <2>0, <2>1, <3>1, LineWritten
    <3>2. CASE ~WriteLine(w)
      BY <2>1, <3>2 DEF Written
    <3> QED
      BY <3>1, <3>2
  <2>5. Status(f)' \in {"written", "reported"}
    <3>1. Written(f)' \/ f \in errors'
      BY <2>1, <2>4
    <3>2. Status(f)' = IF Written(f)' THEN "written" ELSE IF f \in errors' THEN "reported"
                       ELSE IF Sending(f)' THEN "accepted" ELSE "unsent"
      BY DEF Status, Written
    <3> QED
      BY <3>1, <3>2
  <2>6. \A g \in Filters \ {f} : Status(g)' = Status(g)
    BY <1>1, <2>3, <2>4
  <2> QED
    BY <2>1, <2>2, <2>5, <2>6 DEF Moves
<1> QED
  BY <1>0, <1>2, <1>3, <1>4, Kinds

(* The access logger implements the life of a message in LogService when   *)
(* no two configurations share a directory: a message is accepted at most  *)
(* once, and written once or reported as lost, and that is final.          *)
THEOREM Refinement == DirsApart => (SafetySpec => Promise!SafetySpec)
<1> SUFFICES ASSUME DirsApart PROVE SafetySpec => Promise!SafetySpec
  OBVIOUS
<1> DEFINE st == [f \in Filters |-> Status(f)]
<1>1. Init => Promise!Init
  <2> SUFFICES ASSUME Init, NEW f \in Filters PROVE Status(f) = "unsent"
    BY DEF Promise!Init
  <2>1. Once /\ ~Sending(f)
    BY InitFileInv DEF FileInv, Init, Sending
  <2> QED
    BY <2>1, StageOf
<1>2. FileInv /\ FileInv' /\ [Next]_vars => Promise!Next \/ UNCHANGED st
  <2> SUFFICES ASSUME FileInv, FileInv', [Next]_vars PROVE Promise!Next \/ UNCHANGED st
    OBVIOUS
  <2>1. CASE \A g \in Filters : Status(g)' = Status(g)
    BY <2>1
  <2>2. ASSUME NEW f \in Filters, NEW from, NEW to, Status(f) \in from, Status(f)' = to,
               \A g \in Filters \ {f} : Status(g)' = Status(g)
        PROVE  Promise!Move(f, from, to)
    <3>1. st[f] \in from
      BY <2>2
    <3>2. st' = [st EXCEPT ![f] = to]
      BY <2>2
    <3> QED
      BY <3>1, <3>2 DEF Promise!Move
  <2>3. CASE \E f \in Filters : /\ <<Status(f), Status(f)'>> \in Moves
                               /\ \A g \in Filters \ {f} : Status(g)' = Status(g)
    BY <2>2, <2>3 DEF Moves, Promise!Next, Promise!Accept, Promise!Write, Promise!Report
  <2> QED
    BY <2>1, <2>3, StageStep
<1> QED
  BY <1>1, <1>2, FilesInductive, PTL DEF SafetySpec, Promise!SafetySpec
=============================================================================
