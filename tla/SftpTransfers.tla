--------------------------- MODULE SftpTransfers ---------------------------
(***************************************************************************)
(* The SFTP tab of crates/sftp_view/src/lib.rs: its transfer queue, the     *)
(* pool of connections that the transfers use, and how the tab connects     *)
(* and closes.                                                              *)
(*                                                                          *)
(* The queue lives on the UI thread.  A started task runs on the tokio      *)
(* runtime (its worker) and its result is applied by a callback on the UI   *)
(* thread, in any order.  Browsing uses a connection of its own, sftp.      *)
(*                                                                          *)
(* next_task_id only grows, so tasks enter the queue in the order of their  *)
(* numbers and the VecDeque `pending` is the set of the numbers in it.  The *)
(* client that task i connects is client i.                                 *)
(***************************************************************************)
EXTENDS Naturals, FiniteSets

CONSTANTS
  MaxConcurrent,  \* MAX_CONCURRENT_TRANSFERS: of the queue and of the pool
  MaxTasks        \* bound: tasks enqueued in one behaviour

ASSUME TransfersAssumption ==
  /\ MaxConcurrent \in Nat \ {0}
  /\ MaxTasks \in Nat \ {0}

Tasks == 1 .. MaxTasks
None == 0

VARIABLES
  enqueued,   \* tasks enqueued so far
  kind,       \* TransferOperation: upload or download, delete, local delete
  state,      \* TransferTaskState of each task
  pending,    \* TransferQueue.pending
  flagged,    \* tasks whose `cancelled` flag is set
  worker,     \* the tokio task of each task, up to the callback with its result
  client,     \* the transfer client each worker holds
  available,  \* TransferClientPool.available
  created,    \* TransferClientPool.total_created
  tab,        \* the tab: try_close's dialog, its end, the entity's release
  conn,       \* connection_state
  sftp,       \* sftp_client
  held,       \* the client try_close has taken
  check       \* an upload that first lists the remote directory for conflicts

queue == <<enqueued, kind, state, pending, flagged>>
pool  == <<client, available, created>>
view  == <<tab, conn, sftp, held>>
vars  == <<enqueued, kind, state, pending, flagged, worker, client, available,
           created, tab, conn, sftp, held, check>>

Kinds == {"transfer", "delete", "localDelete"}
Results == {"ok", "error", "cancelled"}
Final == {"completed", "failed", "cancelled"}
TaskStates == {"none", "pending", "running"} \cup Final
WorkerStates == {"none", "started", "connecting", "working", "over"} \cup Results

TypeOK ==
  /\ enqueued \in 0 .. MaxTasks
  /\ kind \in [Tasks -> Kinds]
  /\ state \in [Tasks -> TaskStates]
  /\ pending \subseteq Tasks
  /\ flagged \subseteq Tasks
  /\ worker \in [Tasks -> WorkerStates]
  /\ client \in [Tasks -> Tasks \cup {None}]
  /\ available \subseteq Tasks
  /\ created \in Nat
  /\ tab \in {"open", "asking", "cancelling", "closing", "closed", "gone"}
  /\ conn \in {"connecting", "connected", "disconnected"}
  /\ sftp \in {"none", "live", "dead"}
  /\ held \in {"none", "live", "dead"}
  /\ check \in {"no", "listing", "listed"}

Init ==
  /\ enqueued = 0
  /\ kind = [i \in Tasks |-> "transfer"]
  /\ state = [i \in Tasks |-> "none"]
  /\ pending = {}
  /\ flagged = {}
  /\ worker = [i \in Tasks |-> "none"]
  /\ client = [i \in Tasks |-> None]
  /\ available = {}
  /\ created = 0
  /\ tab = "open"
  /\ conn = "connecting"
  /\ sftp = "none"
  /\ held = "none"
  /\ check = "no"

-----------------------------------------------------------------------------
(* Scheduling, on the UI thread *)

Running(s) == {i \in Tasks : s[i] = "running"}

\* What next_startable pops off q: it stops when no slot is left, and passes
\* over tasks that were cancelled while they waited.
Popped(s, q) ==
  {i \in q : Cardinality({j \in q : j < i /\ s[j] = "pending"})
               + Cardinality(Running(s)) < MaxConcurrent}

\* schedule_transfers, from task states s, queue q and workers w.
\* Mutants: the newest tasks start first; nothing is scheduled.
Schedule_newest(s, q, w) ==
  LET starts == {i \in q : s[i] = "pending"
                   /\ Cardinality({j \in q : j > i /\ s[j] = "pending"})
                        + Cardinality(Running(s)) < MaxConcurrent}
  IN /\ state' = [i \in Tasks |-> IF i \in starts THEN "running" ELSE s[i]]
     /\ worker' = [i \in Tasks |-> IF i \in starts THEN "started" ELSE w[i]]
     /\ pending' = q \ starts
Schedule_nothing(s, q, w) ==
  /\ state' = s
  /\ worker' = w
  /\ pending' = q
Schedule(s, q, w) ==
  LET starts == {i \in Popped(s, q) : s[i] = "pending"}
  IN /\ state' = [i \in Tasks |-> IF i \in starts THEN "running" ELSE s[i]]
     /\ worker' = [i \in Tasks |-> IF i \in starts THEN "started" ELSE w[i]]
     /\ pending' = q \ Popped(s, q)

\* execute_uploads, execute_downloads, execute_*_delete: n tasks of one kind.
Enqueue(k, n) ==
  LET new == enqueued + 1 .. enqueued + n
  IN /\ enqueued + n <= MaxTasks
     /\ enqueued' = enqueued + n
     /\ kind' = [i \in Tasks |-> IF i \in new THEN k ELSE kind[i]]
     /\ Schedule([i \in Tasks |-> IF i \in new THEN "pending" ELSE state[i]],
                 pending \cup new, worker)
     /\ UNCHANGED <<flagged, pool, view>>

Download(n) ==
  /\ tab = "open"
  /\ sftp # "none"
  /\ Enqueue("transfer", n)
  /\ UNCHANGED check

Delete ==
  /\ tab = "open"
  /\ sftp # "none"
  /\ Enqueue("delete", 1)
  /\ UNCHANGED check

\* Needs no client, and is offered until the tab is removed.
Usable == tab \in {"open", "cancelling", "closing"}

DeleteLocal ==
  /\ Usable
  /\ Enqueue("localDelete", 1)
  /\ UNCHANGED check

\* upload_selected: the remote directory is listed first, over sftp.
RequestUpload ==
  /\ tab = "open"
  /\ sftp # "none"
  /\ check = "no"
  /\ check' = "listing"
  /\ UNCHANGED <<queue, worker, pool, view>>

Listed ==
  /\ check = "listing"
  /\ "live" \in {sftp, held}
  /\ check' = "listed"
  /\ UNCHANGED <<queue, worker, pool, view>>

\* The listing failed, or the user declined to overwrite.
DropUpload ==
  /\ check # "no"
  /\ check' = "no"
  /\ UNCHANGED <<queue, worker, pool, view>>

\* The callback holds the view strongly and does not look at the tab.
Upload(n) ==
  /\ check = "listed"
  /\ check' = "no"
  /\ Enqueue("transfer", n)

\* cancel_transfer, which does not look at the tab either.
\* Mutant: a running task is marked as cancelled at once.
CancelTransfer_atOnce(i) ==
  /\ Usable
  /\ state[i] \in {"pending", "running"}
  /\ flagged' = IF state[i] = "running" THEN flagged \cup {i} ELSE flagged
  /\ Schedule([state EXCEPT ![i] = "cancelled"], pending, worker)
  /\ UNCHANGED <<enqueued, kind, pool, view, check>>
CancelTransfer(i) ==
  /\ Usable
  /\ state[i] \in {"pending", "running"}
  /\ flagged' = IF state[i] = "running" THEN flagged \cup {i} ELSE flagged
  /\ Schedule([state EXCEPT ![i] = IF @ = "pending" THEN "cancelled" ELSE @],
              pending, worker)
  /\ UNCHANGED <<enqueued, kind, pool, view, check>>

-----------------------------------------------------------------------------
(* The worker of a task, on the tokio runtime *)

BeginLocal(i) ==
  /\ worker[i] = "started"
  /\ kind[i] = "localDelete"
  /\ worker' = [worker EXCEPT ![i] = "working"]
  /\ UNCHANGED <<queue, pool, view, check>>

\* acquire_transfer_client, under the pool's lock.
\* Mutant: an available client is used but stays available.
Acquire_keepsAvailable(i) ==
  /\ worker[i] = "started"
  /\ kind[i] # "localDelete"
  /\ IF available # {}
     THEN \E c \in available :
            /\ client' = [client EXCEPT ![i] = c]
            /\ worker' = [worker EXCEPT ![i] = "working"]
            /\ UNCHANGED <<available, created>>
     ELSE /\ created' = created + 1
          /\ worker' = [worker EXCEPT ![i] = "connecting"]
          /\ UNCHANGED <<client, available>>
  /\ UNCHANGED <<queue, view, check>>
Acquire(i) ==
  /\ worker[i] = "started"
  /\ kind[i] # "localDelete"
  /\ IF available # {}
     THEN \E c \in available :
            /\ available' = available \ {c}
            /\ client' = [client EXCEPT ![i] = c]
            /\ worker' = [worker EXCEPT ![i] = "working"]
            /\ UNCHANGED created
     ELSE /\ UNCHANGED <<client, available>>
          /\ IF created < MaxConcurrent
             THEN /\ created' = created + 1
                  /\ worker' = [worker EXCEPT ![i] = "connecting"]
             ELSE /\ worker' = [worker EXCEPT ![i] = "error"]  \* "pool exhausted"
                  /\ UNCHANGED created
  /\ UNCHANGED <<queue, view, check>>

ConnectOk(i) ==
  /\ worker[i] = "connecting"
  /\ worker' = [worker EXCEPT ![i] = "working"]
  /\ client' = [client EXCEPT ![i] = i]
  /\ UNCHANGED <<queue, available, created, view, check>>

ConnectErr(i) ==
  /\ worker[i] = "connecting"
  /\ worker' = [worker EXCEPT ![i] = "error"]
  /\ created' = created - 1
  /\ UNCHANGED <<queue, client, available, view, check>>

\* release_transfer_client, on every way out of the work.
\* Mutant: a cancelled task keeps its client.
Release_notWhenCancelled(i) ==
  IF client[i] = None \/ i \in flagged
  THEN UNCHANGED <<client, available>>
  ELSE /\ available' = available \cup {client[i]}
       /\ client' = [client EXCEPT ![i] = None]
Release(i) ==
  IF client[i] = None
  THEN UNCHANGED <<client, available>>
  ELSE /\ available' = available \cup {client[i]}
       /\ client' = [client EXCEPT ![i] = None]

Finish(i, result) ==
  /\ worker[i] = "working"
  /\ worker' = [worker EXCEPT ![i] = result]
  /\ Release(i)
  /\ UNCHANGED <<queue, created, view, check>>

Succeed(i) == Finish(i, "ok")
Fail(i) == Finish(i, "error")

\* The work looks at the flag before every chunk and every entry.
\* Mutant: only the local delete does.
Abandon_localOnly(i) == kind[i] = "localDelete" /\ i \in flagged /\ Finish(i, "cancelled")
Abandon(i) == i \in flagged /\ Finish(i, "cancelled")

-----------------------------------------------------------------------------
(* The result of a worker, on the UI thread *)

\* update_task_state_from_result.
Outcome(result) ==
  CASE result = "ok" -> "completed"
    [] result = "error" -> "failed"
    [] result = "cancelled" -> "cancelled"

\* The callback, which always schedules again.
\* Mutant: it does not.
Deliver_schedulesNothing(i) ==
  /\ worker[i] \in Results
  /\ tab # "gone"
  /\ Schedule_nothing([state EXCEPT ![i] = Outcome(worker[i])], pending,
                      [worker EXCEPT ![i] = "over"])
  /\ UNCHANGED <<enqueued, kind, flagged, pool, view, check>>
Deliver(i) ==
  /\ worker[i] \in Results
  /\ tab # "gone"
  /\ Schedule([state EXCEPT ![i] = Outcome(worker[i])], pending,
              [worker EXCEPT ![i] = "over"])
  /\ UNCHANGED <<enqueued, kind, flagged, pool, view, check>>

-----------------------------------------------------------------------------
(* Connecting and closing the tab *)

Connected ==
  /\ conn = "connecting"
  /\ tab # "gone"
  /\ conn' = "connected"
  /\ sftp' = "live"
  /\ UNCHANGED <<queue, worker, pool, tab, held, check>>

ConnectFailed ==
  /\ conn = "connecting"
  /\ tab # "gone"
  /\ conn' = "disconnected"
  /\ UNCHANGED <<queue, worker, pool, tab, sftp, held, check>>

\* The button is shown while the tab is disconnected.  The pool is a new one.
Reconnect ==
  /\ tab = "open"
  /\ conn = "disconnected"
  /\ conn' = "connecting"
  /\ sftp' = "none"
  /\ available' = {}
  /\ created' = 0
  /\ UNCHANGED <<queue, worker, client, tab, held, check>>

Active == {i \in Tasks : state[i] \in {"pending", "running"}}

\* try_close: the client is taken in any case, and a tokio task that will
\* disconnect it is spawned; a dialog asks if tasks are active.
TryClose ==
  /\ tab = "open"
  /\ tab' = IF Active = {} THEN "closing" ELSE "asking"
  /\ held' = sftp
  /\ sftp' = "none"
  /\ UNCHANGED <<queue, worker, pool, conn, check>>

DisconnectTaken ==
  /\ tab \in {"asking", "cancelling", "closing"}
  /\ held = "live"
  /\ held' = "dead"
  /\ UNCHANGED <<queue, worker, pool, tab, conn, sftp, check>>

\* Closing is confirmed: cancel_all_transfers.
ConfirmClose ==
  /\ tab = "asking"
  /\ tab' = "cancelling"
  /\ pending' = {}
  /\ state' = [i \in Tasks |-> IF state[i] = "pending" THEN "cancelled" ELSE state[i]]
  /\ flagged' = flagged \cup Running(state)
  /\ UNCHANGED <<enqueued, kind, worker, pool, conn, sftp, held, check>>

DeclineClose ==
  /\ tab = "asking"
  /\ tab' = "open"
  /\ sftp' = held
  /\ held' = "none"
  /\ UNCHANGED <<queue, worker, pool, conn, check>>

\* The disconnect has been awaited, and the tab is removed.
Closed ==
  /\ tab \in {"cancelling", "closing"}
  /\ held # "live"
  /\ tab' = "closed"
  /\ held' = "none"
  /\ UNCHANGED <<queue, worker, pool, conn, sftp, check>>

\* The entity is released.  The callbacks of uploads that are being checked
\* and of deletes hold it strongly, those of transfers do not.
Gone ==
  /\ tab = "closed"
  /\ check = "no"
  /\ \A i \in Tasks : worker[i] \in {"none", "over"} \/ kind[i] = "transfer"
  /\ tab' = "gone"
  /\ UNCHANGED <<queue, worker, pool, conn, sftp, held, check>>

-----------------------------------------------------------------------------
ConnectEnds(i) == ConnectOk(i) \/ ConnectErr(i)

Next ==
  \/ \E n \in Tasks : Download(n) \/ Upload(n)
  \/ Delete \/ DeleteLocal \/ RequestUpload \/ Listed \/ DropUpload
  \/ \E i \in Tasks :
       \/ CancelTransfer(i)
       \/ BeginLocal(i) \/ Acquire(i) \/ ConnectOk(i) \/ ConnectErr(i)
       \/ Succeed(i) \/ Fail(i) \/ Abandon(i)
       \/ Deliver(i)
  \/ Connected \/ ConnectFailed \/ Reconnect
  \/ TryClose \/ DisconnectTaken \/ ConfirmClose \/ DeclineClose \/ Closed \/ Gone

Spec == Init /\ [][Next]_vars

\* The executors poll every task, connecting is assumed to end, and the work
\* reaches its next look at the flag.  A transfer that nobody cancels need not
\* end, and a dialog need not be answered.
FairSpec ==
  /\ Spec
  /\ \A i \in Tasks :
       /\ WF_vars(BeginLocal(i) \/ Acquire(i))
       /\ WF_vars(ConnectEnds(i))
       /\ WF_vars(Abandon(i))
       /\ WF_vars(Deliver(i))

-----------------------------------------------------------------------------
(* What the queue promises *)

InState(states) == {i \in Tasks : state[i] \in states}

Queue == INSTANCE TransferQueue WITH
  Limit <- MaxConcurrent,
  arrived <- enqueued,
  waiting <- InState({"pending"}),
  running <- InState({"running"}),
  told <- flagged,
  over <- InState(Final)

-----------------------------------------------------------------------------
(* Properties *)

\* Seen through the states of its tasks, the tab is a queue with a limited
\* number of slots: whatever workers, results and closing do, no task overtakes
\* an older one, none runs without a slot, none waits beside a free one, and
\* none that is over comes back.
ImplementsTransferQueue == Queue!Spec

\* Every place of the pool is an available client, a client in the hands of
\* one worker, or a connect under way: no error, cancellation or late callback
\* leaks a connection or hands one to two transfers.
PoolAccounted ==
  /\ created = Cardinality(available)
               + Cardinality({i \in Tasks : worker[i] = "connecting"})
               + Cardinality({i \in Tasks : client[i] # None})
  /\ \A i \in Tasks : client[i] # None =>
       /\ client[i] \notin available
       /\ \A j \in Tasks : client[j] = client[i] => j = i

\* A task the queue has started never fails with "Transfer client pool
\* exhausted" (lib.rs:277): the queue and the pool have the same limit.
NeverExhausted ==
  \A i \in Tasks : worker[i] = "started" /\ kind[i] # "localDelete" =>
    available # {} \/ created < MaxConcurrent

\* No slot is left idle while a task waits in the queue.
WorkConserving ==
  (\E i \in Tasks : state[i] = "pending") => Cardinality(Running(state)) = MaxConcurrent

\* No task overtakes one that was enqueued before it.
StartsInOrder ==
  [][\A i, j \in Tasks :
       i < j /\ state'[i] = "pending" => (state'[j] = "running" => state[j] = "running")]_vars

\* A task that has ended, or was cancelled while it waited, stays as it is,
\* whatever results and cancellations still arrive.
EndedStaysEnded ==
  [][\A i \in Tasks : state[i] \in Final => state'[i] = state[i]]_vars

\* A running task the user cancels comes to an end, even if it would never
\* end by itself, unless the view is released first.  (Neither a flag nor an end
\* is taken back, so that it holds again and again says that it leads to it.)
CancelEnds ==
  \A i \in Tasks : []<>(i \in flagged => state[i] \in Final \/ tab = "gone")

\* If the work of every transfer ends, no task waits or runs for ever.
EveryTaskEnds ==
  (\A i \in Tasks : []<>(worker[i] # "working"))
    => \A i \in Tasks : []<>(i \notin Active \/ tab = "gone")

\* A close that the user declined gives the tab back the client it had, not a
\* disconnected one: the task that disconnects is "created in advance but not
\* executed yet", and the client is "restored" (lib.rs:4849 and 4875).
DeclinedCloseKeepsClient == tab = "open" => sftp # "dead"

\* "Closing now will cancel all operations" (locales/sftp_view.yml:425): once
\* the user has confirmed, every upload and download that is not over yet has been
\* told to stop.  (A local delete may still be started, but only by the user.)
ClosingCancelsAll ==
  tab = "cancelling" => \A i \in Active : kind[i] = "transfer" => i \in flagged

=============================================================================
