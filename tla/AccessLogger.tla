---------------------------- MODULE AccessLogger ----------------------------
(***************************************************************************)
(* The access logger of the Rust module (rust/src/http_access_logger.rs).  *)
(* A filter configuration owns the sending half of a channel and spawns    *)
(* worker threads that share the receiving half behind a mutex; each       *)
(* worker has opened a file of its own. A filter clones the sender, and    *)
(* sends one message, the headers it has seen, when it is dropped.         *)
(*                                                                         *)
(* A message is named after its filter. A line of a file is one cell at an *)
(* offset, so that two descriptors on one file overwrite each other as     *)
(* they do on disk: the files are not opened for appending.                *)
(***************************************************************************)
EXTENDS Naturals, Sequences

CONSTANTS
  Configs,      \* the filter configurations that Envoy creates
  Filters,      \* the http filters that Envoy creates
  Dirs,         \* directories
  num_workers,  \* the number of workers of each configuration
  dirname,      \* the directory of each configuration
  nil

ASSUME WorkersAssumption == num_workers \in [Configs -> Nat]
ASSUME DirAssumption     == dirname \in [Configs -> Dirs]

(* Worker <<c, i>> writes to the file access_log_i.log of c's directory.   *)
Workers == UNION {{c} \X {i \in 0..num_workers[c] : i < num_workers[c]} : c \in Configs}

file_path(w) == <<dirname[w[1]], w[2]>>

Files == {file_path(w) : w \in Workers}

ASSUME NilAssumption == nil \notin Configs \cup Workers \cup Filters

VARIABLES
  config,     \* the life of each configuration
  spawned,    \* how many workers its constructor has spawned so far
  filter,     \* the life of each filter
  owner,      \* the configuration that created it
  headers,    \* whose headers it has collected
  channel,    \* the filters whose message is sent and not yet received
  rx_lock,    \* the worker that holds the mutex of the receiver
  worker,     \* where each worker is in its loop
  message,    \* the message a worker has received and not yet written
  offset,     \* the offset of each worker's file descriptor
  disk,       \* the lines of each file: a set of <<offset, filter>>
  errors,     \* the messages whose loss was reported on stderr
  sent        \* history: the messages accepted by each channel, in order

filterVars == <<filter, owner, headers>>
workerVars == <<worker, message, offset, disk>>
vars == <<config, spawned, filterVars, channel, rx_lock, workerVars, errors, sent>>

TypeOK ==
  /\ config \in [Configs -> {"none", "new", "ready", "failed", "destroyed"}]
  /\ spawned \in [Configs -> Nat]
  /\ filter \in [Filters -> {"none", "live", "dropping", "dropped"}]
  /\ owner \in [Filters -> Configs \cup {nil}]
  /\ headers \in [Filters -> SUBSET {"request", "response"}]
  /\ channel \in [Configs -> Seq(Filters)]
  /\ rx_lock \in [Configs -> Workers \cup {nil}]
  /\ worker \in [Workers -> {"none", "lock", "recv", "write", "exited"}]
  /\ message \in [Workers -> Filters \cup {nil}]
  /\ offset \in [Workers -> Nat]
  /\ disk \in [Files -> SUBSET (Nat \X Filters)]
  /\ errors \in SUBSET Filters
  /\ sent \in [Configs -> Seq(Filters)]

Init ==
  /\ config = [c \in Configs |-> "none"]
  /\ spawned = [c \in Configs |-> 0]
  /\ filter = [f \in Filters |-> "none"]
  /\ owner = [f \in Filters |-> nil]
  /\ headers = [f \in Filters |-> {}]
  /\ channel = [c \in Configs |-> <<>>]
  /\ rx_lock = [c \in Configs |-> nil]
  /\ worker = [w \in Workers |-> "none"]
  /\ message = [w \in Workers |-> nil]
  /\ offset = [w \in Workers |-> 0]
  /\ disk = [p \in Files |-> {}]
  /\ errors = {}
  /\ sent = [c \in Configs |-> <<>>]

-----------------------------------------------------------------------------
(* FilterConfig::new: the channel is created, then the workers are spawned *)
(* one by one, each as soon as its file has been opened.                   *)
ParseConfig(c) ==
  /\ config[c] = "none"
  /\ \E parsed \in {"new", "failed"} : config' = [config EXCEPT ![c] = parsed]
  /\ UNCHANGED <<spawned, filterVars, channel, rx_lock, workerVars, errors, sent>>

(* File::create truncates the file that may exist. *)
SpawnWorker(c) ==
  LET w == <<c, spawned[c]>>
  IN  /\ config[c] = "new"
      /\ w \in Workers
      /\ spawned' = [spawned EXCEPT ![c] = @ + 1]
      /\ disk' = [disk EXCEPT ![file_path(w)] = {}]
      /\ worker' = [worker EXCEPT ![w] = "lock"]
      /\ UNCHANGED <<config, filterVars, channel, rx_lock, message, offset, errors, sent>>

(* File::create fails: the constructor returns None and drops the sender   *)
(* that it holds. The workers that it has spawned are left to themselves.  *)
FailFile(c) ==
  /\ config[c] = "new"
  /\ spawned[c] < num_workers[c]
  /\ config' = [config EXCEPT ![c] = "failed"]
  /\ UNCHANGED <<spawned, filterVars, channel, rx_lock, workerVars, errors, sent>>

ConfigReady(c) ==
  /\ config[c] = "new"
  /\ spawned[c] = num_workers[c]
  /\ config' = [config EXCEPT ![c] = "ready"]
  /\ UNCHANGED <<spawned, filterVars, channel, rx_lock, workerVars, errors, sent>>

(* Envoy drops the configuration, and with it the sender of its own. *)
DestroyConfig(c) ==
  /\ config[c] = "ready"
  /\ config' = [config EXCEPT ![c] = "destroyed"]
  /\ UNCHANGED <<spawned, filterVars, channel, rx_lock, workerVars, errors, sent>>

-----------------------------------------------------------------------------
new_http_filter(f, c) ==
  /\ filter[f] = "none"
  /\ config[c] = "ready"
  /\ filter' = [filter EXCEPT ![f] = "live"]
  /\ owner' = [owner EXCEPT ![f] = c]
  /\ UNCHANGED <<config, spawned, headers, channel, rx_lock, workerVars, errors, sent>>

(* on_request_headers and on_response_headers. *)
OnHeaders(f, part) ==
  /\ filter[f] = "live"
  /\ part \notin headers[f]
  /\ headers' = [headers EXCEPT ![f] = @ \cup {part}]
  /\ UNCHANGED <<config, spawned, filter, owner, channel, rx_lock, workerVars, errors, sent>>

(* The worker has been spawned and is in its loop. *)
Running(w) == worker[w] \notin {"none", "exited"}

(* The receiver lives while the constructor or a worker has a reference.   *)
ReceiverAlive(c) ==
  \/ config[c] = "new"
  \/ \E w \in Workers : w[1] = c /\ Running(w)

(* Mutation of Send: the message overtakes those that wait. *)
SendFirst(f) ==
  LET c == owner[f]
  IN  /\ filter[f] = "live"
      /\ ReceiverAlive(c)
      /\ filter' = [filter EXCEPT ![f] = "dropping"]
      /\ channel' = [channel EXCEPT ![c] = <<f>> \o @]
      /\ sent' = [sent EXCEPT ![c] = Append(@, f)]
      /\ UNCHANGED <<config, spawned, owner, headers, rx_lock, workerVars, errors>>

(* Drop for Filter sends the message; the fields, the headers and the      *)
(* sender, are dropped after it.                                           *)
Send(f) ==
  LET c == owner[f]
  IN  /\ filter[f] = "live"
      /\ filter' = [filter EXCEPT ![f] = "dropping"]
      /\ \/ /\ ReceiverAlive(c)
            /\ channel' = [channel EXCEPT ![c] = Append(@, f)]
            /\ sent' = [sent EXCEPT ![c] = Append(@, f)]
            /\ UNCHANGED errors
         \/ /\ ~ReceiverAlive(c)
            /\ errors' = errors \cup {f}
            /\ UNCHANGED <<channel, sent>>
      /\ UNCHANGED <<config, spawned, owner, headers, rx_lock, workerVars>>

DropFields(f) ==
  /\ filter[f] = "dropping"
  /\ filter' = [filter EXCEPT ![f] = "dropped"]
  /\ headers' = [headers EXCEPT ![f] = {}]
  /\ UNCHANGED <<config, spawned, owner, channel, rx_lock, workerVars, errors, sent>>

-----------------------------------------------------------------------------
(* The loop of a worker. *)
Lock(w) ==
  /\ worker[w] = "lock"
  /\ rx_lock[w[1]] = nil
  /\ rx_lock' = [rx_lock EXCEPT ![w[1]] = w]
  /\ worker' = [worker EXCEPT ![w] = "recv"]
  /\ UNCHANGED <<config, spawned, filterVars, channel, message, offset, disk, errors, sent>>

(* Mutation of Recv: the message stays in the channel. *)
RecvPeek(w) ==
  /\ worker[w] = "recv"
  /\ channel[w[1]] # <<>>
  /\ message' = [message EXCEPT ![w] = Head(channel[w[1]])]
  /\ rx_lock' = [rx_lock EXCEPT ![w[1]] = nil]
  /\ worker' = [worker EXCEPT ![w] = "write"]
  /\ UNCHANGED <<config, spawned, filterVars, channel, offset, disk, errors, sent>>

(* recv waits, with the mutex held, for a message or for the last sender   *)
(* to go. The lock is released at the end of the block.                    *)
Recv(w) ==
  LET c == w[1]
  IN  /\ worker[w] = "recv"
      /\ channel[c] # <<>>
      /\ message' = [message EXCEPT ![w] = Head(channel[c])]
      /\ channel' = [channel EXCEPT ![c] = Tail(@)]
      /\ rx_lock' = [rx_lock EXCEPT ![c] = nil]
      /\ worker' = [worker EXCEPT ![w] = "write"]
      /\ UNCHANGED <<config, spawned, filterVars, offset, disk, errors, sent>>

SenderAlive(c) ==
  \/ config[c] \in {"new", "ready"}
  \/ \E f \in Filters : owner[f] = c /\ filter[f] \in {"live", "dropping"}

(* Mutation of Disconnect: the worker leaves what is still queued. *)
DisconnectEarly(w) ==
  /\ worker[w] = "recv"
  /\ ~SenderAlive(w[1])
  /\ rx_lock' = [rx_lock EXCEPT ![w[1]] = nil]
  /\ worker' = [worker EXCEPT ![w] = "exited"]
  /\ UNCHANGED <<config, spawned, filterVars, channel, message, offset, disk, errors, sent>>

(* Mutation of Disconnect: the worker does not wait for a message. *)
DisconnectIdle(w) ==
  /\ worker[w] = "recv"
  /\ channel[w[1]] = <<>>
  /\ rx_lock' = [rx_lock EXCEPT ![w[1]] = nil]
  /\ worker' = [worker EXCEPT ![w] = "exited"]
  /\ UNCHANGED <<config, spawned, filterVars, channel, message, offset, disk, errors, sent>>

(* Mutation of Disconnect: the worker exits with the mutex held. *)
DisconnectLocked(w) ==
  /\ worker[w] = "recv"
  /\ channel[w[1]] = <<>>
  /\ ~SenderAlive(w[1])
  /\ worker' = [worker EXCEPT ![w] = "exited"]
  /\ UNCHANGED <<config, spawned, filterVars, channel, rx_lock, message, offset, disk, errors, sent>>

Disconnect(w) ==
  LET c == w[1]
  IN  /\ worker[w] = "recv"
      /\ channel[c] = <<>>
      /\ ~SenderAlive(c)
      /\ rx_lock' = [rx_lock EXCEPT ![c] = nil]
      /\ worker' = [worker EXCEPT ![w] = "exited"]
      /\ UNCHANGED <<config, spawned, filterVars, channel, message, offset, disk, errors, sent>>

(* Mutation of WriteLine: every line is written at the start of the file. *)
WriteLineRewound(w) ==
  LET p == file_path(w)
  IN  /\ worker[w] = "write"
      /\ disk' = [disk EXCEPT ![p] = {l \in @ : l[1] # offset[w]} \cup {<<offset[w], message[w]>>}]
      /\ message' = [message EXCEPT ![w] = nil]
      /\ worker' = [worker EXCEPT ![w] = "lock"]
      /\ UNCHANGED <<config, spawned, filterVars, channel, rx_lock, offset, errors, sent>>

(* writeln!: the line replaces what the file has at the offset. *)
WriteLine(w) ==
  LET p == file_path(w)
  IN  /\ worker[w] = "write"
      /\ disk' = [disk EXCEPT ![p] = {l \in @ : l[1] # offset[w]} \cup {<<offset[w], message[w]>>}]
      /\ offset' = [offset EXCEPT ![w] = @ + 1]
      /\ message' = [message EXCEPT ![w] = nil]
      /\ worker' = [worker EXCEPT ![w] = "lock"]
      /\ UNCHANGED <<config, spawned, filterVars, channel, rx_lock, errors, sent>>

(* Mutation of WriteError: the loss is not reported. *)
WriteErrorSilent(w) ==
  /\ worker[w] = "write"
  /\ message' = [message EXCEPT ![w] = nil]
  /\ worker' = [worker EXCEPT ![w] = "lock"]
  /\ UNCHANGED <<config, spawned, filterVars, channel, rx_lock, offset, disk, errors, sent>>

(* Mutation of WriteError: the message is gone before it is reported. *)
WriteErrorLate(w) ==
  /\ worker[w] = "write"
  /\ message' = [message EXCEPT ![w] = nil]
  /\ errors' = errors \cup {message'[w]}
  /\ worker' = [worker EXCEPT ![w] = "lock"]
  /\ UNCHANGED <<config, spawned, filterVars, channel, rx_lock, offset, disk, sent>>

WriteError(w) ==
  /\ worker[w] = "write"
  /\ errors' = errors \cup {message[w]}
  /\ message' = [message EXCEPT ![w] = nil]
  /\ worker' = [worker EXCEPT ![w] = "lock"]
  /\ UNCHANGED <<config, spawned, filterVars, channel, rx_lock, offset, disk, sent>>

-----------------------------------------------------------------------------
Constructor(c) == SpawnWorker(c) \/ FailFile(c) \/ ConfigReady(c)
Loop(w) == Lock(w) \/ Recv(w) \/ Disconnect(w) \/ WriteLine(w) \/ WriteError(w)

Next ==
  \/ \E c \in Configs : ParseConfig(c) \/ Constructor(c) \/ DestroyConfig(c)
  \/ \E f \in Filters :
        \/ \E c \in Configs : new_http_filter(f, c)
        \/ \E part \in {"request", "response"} : OnHeaders(f, part)
        \/ Send(f)
        \/ DropFields(f)
  \/ \E w \in Workers : Loop(w)

(* The constructor and the drop of a filter run to their end, and each     *)
(* worker thread is scheduled. The mutex is not assumed to be fair: which  *)
(* of the waiting workers gets it does not matter. Envoy owes nothing.     *)
Fairness ==
  /\ \A c \in Configs : WF_vars(Constructor(c))
  /\ \A f \in Filters : WF_vars(DropFields(f))
  /\ \A w \in Workers : WF_vars(Loop(w))

SafetySpec == Init /\ [][Next]_vars
Spec == SafetySpec /\ Fairness

-----------------------------------------------------------------------------
(* Where the message of filter f is: at a place of a channel, in the hand  *)
(* of a worker, in a line of a file, or on stderr, where its loss was      *)
(* reported.                                                               *)
Places(f) ==
  (UNION {{<<"queue", c, i>> : i \in {j \in DOMAIN channel[c] : channel[c][j] = f}} : c \in Configs})
  \cup {<<"hand", w>> : w \in {v \in Workers : message[v] = f}}
  \cup (UNION {{<<"line", p, l>> : l \in {k \in disk[p] : k[2] = f}} : p \in Files})
  \cup {<<"stderr">> : e \in errors \cap {f}}

Sending(f) == filter[f] \in {"dropping", "dropped"}

(* Exactly once: the message of a filter that was dropped is in one place, *)
(* whatever the workers do; none is received by two workers, written       *)
(* twice, or forgotten without a report.                                   *)
ExactlyOnce ==
  \A f \in Filters :
     IF Sending(f) THEN \E place \in Places(f) : Places(f) = {place}
                   ELSE Places(f) = {}

(* The lines of a file are in the order in which the messages were sent,   *)
(* although the workers write after they have released the lock.           *)
SentBefore(f, g) ==
  \E c \in Configs : \E i, j \in DOMAIN sent[c] : i < j /\ sent[c][i] = f /\ sent[c][j] = g

FileOrder ==
  \A p \in Files : \A l, m \in disk[p] : l[1] < m[1] => SentBefore(l[2], m[2])

(* No send fails as long as the configuration has been given a worker: a   *)
(* worker survives its write errors and waits for the last sender.         *)
SendSucceeds ==
  \A f \in Filters :
     Sending(f) /\ num_workers[owner[f]] > 0 =>
        \E i \in DOMAIN sent[owner[f]] : sent[owner[f]][i] = f

(* A worker exits only when nothing is left to write and nothing can come. *)
ExitDrained ==
  \A w \in Workers : worker[w] = "exited" => channel[w[1]] = <<>> /\ ~SenderAlive(w[1])

(* What http_access_logger.rs:12 says, "Each worker thread writes to a     *)
(* separate file": two workers that run have not opened the same file.     *)
SeparateFiles ==
  \A v, w \in Workers :
     v # w /\ Running(v) /\ Running(w) => file_path(v) # file_path(w)

(* What has been written to a file stays there. *)
LinesStay == [][\A p \in Files : disk[p] \subseteq disk'[p]]_vars

(* When the configuration is gone, or its construction has failed halfway, *)
(* and its filters are gone, every worker thread that was spawned exits.   *)
Abandoned(c) ==
  /\ config[c] \in {"failed", "destroyed"}
  /\ \A f \in Filters : owner[f] = c => filter[f] = "dropped"

WorkersExit ==
  \A w \in Workers :
     worker[w] # "none" /\ Abandoned(w[1]) ~> worker[w] = "exited"

-----------------------------------------------------------------------------
Status(f) ==
  IF \E p \in Files : \E l \in disk[p] : l[2] = f THEN "written"
  ELSE IF f \in errors THEN "reported"
  ELSE IF Sending(f) THEN "accepted"
  ELSE "unsent"

Promise == INSTANCE LogService WITH Messages <- Filters, status <- [f \in Filters |-> Status(f)]

(* Every message that the channel accepts is written once or reported, and *)
(* a written message is never written again nor lost.                      *)
ImplementsLogService == Promise!Spec
=============================================================================
