# Two-phase commit for the laptop ordering service: a TLA+ verification project

The program is a small distributed order service in C++. Clients read the last
order numbers of customers from a resource manager (RM), build a transaction of
new orders, and hand it to a transaction manager (TM). The TM runs two-phase
commit over all RM clusters. Each RM validates the reads (optimistic
concurrency), logs, applies and persists; each RM may have a backup.

## 1. The system

| Component | State | Operations | Interacts through |
|---|---|---|---|
| Client (`ClientMain.cpp`, `ClientThread.cpp`) | records read, orders to write | read loop, writer threads, submit | a session to one RM, one connection to the TM |
| TM (`TransactionManager.cpp`) | `transaction_id` (memory only), one transaction's locals | accept, connect, prepare and vote loop, decision loop, reply | one new session per RM and transaction |
| RM handlers (`ServerThread.cpp`) | `customer_record`, `txn_log` | `TMPrepare`, `TMCommit`, `TMAbort`, `ReadEngineerFlow` | a thread per session, shared maps, `arq` |
| RM persistence | `logFile.txt`, `custRecFile.txt` | append, rewrite, recovery at start | files |
| RM admin queue | `arq`, `smr_log`, `last_index`, `committed_index` | `CreateRegularLaptop` pushes and waits, `AdminThread` pops and applies | mutex, condition variable, promise |
| RM replication | `primary_id`, `peerNodes`, `livePeers` | PFA and IFA flows, `sendAllRequests`, `PeerPrepare` | sessions between primary and backup |
| Sockets, stubs, messages | file descriptors, byte buffers | `Send`, `Recv`, `Marshal`, `Unmarshal` | TCP |
| Experiment driver (`Experimental.cpp`) | as a client, for one random customer | one read, one order | as a client |
| Server main (`ServerMain.cpp`) | the factory, its threads | start from the files, one admin thread, a thread per connection | all of an RM's threads |

What is hard here:

* **Order of steps of several actors.** Validation, iteration over `txn_log`, and
  `txn_log = new_txn_log` are not locked. What keeps them apart is only that the
  TM serves one client at a time and waits for every reply.
* **Crashes.** A process can die between any two of: two reads, two connects, two
  votes, two decisions, log append, truncating open, file write. A broken session
  gives the caller 0, -1, an uninitialized buffer, or SIGPIPE, depending on the call.
* **Restarts.** RMs recover from two files written at different times. The TM
  recovers nothing: its ids start over.
* **One socket, two users.** The handler's thread (`PrPrepare`) and the admin thread
  (`PFA`) open and use the same `peerNodes[i]`; the other end serves one kind of session.
* **Two logs, one index.** `committed_index` counts the primary's log and is used in the
  backup's, which grows with every reconnection.
* **Pieces.** TCP may deliver a transaction in pieces; the receiver calls `recv` once.
* **Missing keys.** A customer that does not exist yet has no value to validate.

What makes each component correct: a client is told the truth (TM); a commit
happens on unchanged reads, everywhere or nowhere (handlers); committed orders and
only these reach the disk (persistence); an applied record was logged before
(handlers and persistence); every order placed with the admin thread is served once, in
order, and its caller returns (queue); a backup's log follows its primary's and a node
that takes over has applied what it logged (replication); a message is decoded to what
was sent (wire); everybody gets an answer (all).

## 2. Modules

| Module | Role |
|---|---|
| `TxnData` | the data, and pure operators: validation, write sets, log entries, log file, recovery |
| `Wire` | the bytes of a transaction: `Marshal`, `Unmarshal`, one `recv` of any length |
| `TwoPhaseCommit` | clients, experiment threads, TM and RMs with crashes and restarts |
| `AtomicCommit` | what two-phase commit promises, with the answer given to the client |
| `OrderQueue` | `arq`, its lock, condition variable and promises: handlers and the admin thread |
| `OrderService` | what the queue promises: each order is logged once, then its call returns |
| `Replication` | one cluster of a primary and a backup, and the TM that is served by it |
| `MCTwoPhaseCommit`, `MCOrderQueue`, `MCReplication` | constants for TLC |
| `TxnData_proofs` | lemmas about the operators of `TxnData`: types, which records a log holds afterwards, how orders are counted and numbered |
| `TwoPhaseCommit_proofs` | type correctness and handler exclusion |
| `Persistence_proofs` | the files of an RM: written ahead, and nothing but committed orders on disk |
| `Decisions_proofs` | one decision per transaction, and what a client was told is true of the logs |
| `Commits_proofs` | without RM crashes: `AtomicCommit`, Success, current reads, replicas, order numbers |
| `OrderQueue_proofs` | the queue's invariants, and that its steps are steps of `OrderService` |
| `Replication_proofs` | type correctness, indices, and how a backup's log follows its primary's |
| `Wire_proofs` | decoding a whole transaction and any piece of one, and that RMs decode what was sent |

How they fit: `CreateRegularLaptop` with the admin thread is one step in `TwoPhaseCommit`
(an RM without peers). `OrderQueue` opens that step up towards the queue, with what the
admin thread does to serve a request left as one step; `Replication` opens up that one:
the admin thread's loop with a peer, driven by the TM's calls. `Wire` feeds no action:
`TMPrepare` validates and logs the transaction as it was sent, and `DecodesAsSent` says, of
every request on its way, that the code's bytes would give the RM just that.

### How the state corresponds

* `conn[t][r]` is the session the TM opened to RM `r` for transaction `t`, with the
  RM thread that serves it: `none`, `idle` (the thread waits for an id message), a
  request on its way (`prepare`, `commit`, `abort`), a point inside `TMPrepare`
  (`prelog`: entered into `txn_log`, the lock given back, not yet in the file) or `TMCommit`
  (`apply`, `log`, `trunc`, `store`), a reply on its way (`Ok`, `No`, `Done`), or
  `broken` (the RM died). A session whose TM has died is recognised by `tmTxn # t`: its
  thread finishes the request it has, and its answer goes nowhere.
* `tmPc` is where `transaction_manager` is; `tmRM` is the loop index `i`; `backlog`
  is the listen queue (never more than its 8 places with the clients we use).
* `customer_record` and `txn_log` are maps with an `Absent` value for missing keys.
  `found` and `applied` are the locals of `TMCommit`: the vector `it->second` it iterates
  over, as it was at the look-up, and how far it has come. The code iterates over the live
  vector. `freed` is true from the moment another handler replaces `txn_log` or lets that
  vector grow; from then on `FreedMemory` may put anything for the next record, or end the
  process.
* `custFile` and `logFile` are the two files. The log file is kept as one list of
  lines per id: recovery groups lines by id and nothing else depends on their order
  across ids.
* `last_index` and `committed_index` are `Len(smr_log) - 1` in an RM without peers and
  are not kept.
* `Chosen[t]` tells which customer `t` reads and orders for if it is a thread of the
  experiment. Such a thread reads once, into `readRecords[0]`, and looks its base up at
  `readRecords[customer]`, as the code does.
* `by` in log lines and operations is a history field: whose write it is. No guard
  reads it.

In `OrderQueue`, `hpc[h]` and `apc` are the places of a handler and of the admin thread
between two accesses to shared state; `arq_lock` is the holder of the mutex; `pushed` is
history.

In `Replication`:

* `sock[n]` is node `n`'s only `peerNodes[0]` together with the thread that serves its
  session at the other node; the values are listed at the head of the module. `off` means
  `is_initialized_` is false; `dead` means that it is true and the other end is gone.
* `orphans[n]` are the threads at `n` that serve a session whose other end has crashed:
  with a copied transaction or a last request still to take, or about to see the end, upon
  which `IFAFlow` resets `primary_id`. They do so at any later time.
* `pc` is one thread of control: the TM waits for the handler, the handler for the admin
  thread, the admin thread for the backup. `at` is the node the TM is connected to.
* Order numbers grow with the transactions, as those of clients that read before they
  write. Log files are kept as the set of (transaction, operation) lines.

### What is one step

In `TwoPhaseCommit` the code of `TMPrepare` is two steps: validate and insert under the
lock (`TMPrepare`), then append to the file and reply (`LogPrepare`). In `Replication` it
is one, and the copy to the backup follows it in steps of its own. `TMAbort` is one step: it
also gives its lock back before it appends, but a crash between the two leaves the same
files as one before, and no property reads a line of an abort from `txn_log`.
`CreateRegularLaptop` is one step with the `AdminThread` iteration that serves it: the
caller waits for the promise, and `OrderQueue` shows that this is a fair picture.
The parts of `TMCommit` between which a crash matters, or between which a client can
read, are steps of their own. A `logFile.txt` append is one step; `custRecFile.txt` is
truncated by one step and written by another (`TwoPhaseCommit`), or both are the last
step of the commit (`Replication`, where recovery is not the subject). `BecomePrimary`
is one step although it connects to the peer between setting `primary_id` and the loop that
catches up: an orphan at the node that would run during the `connect` runs before or after
it. Its connection is taken to fail or succeed at once.

### Undefined and environment-dependent behaviour

* `recv` failing in `SendTxnPrepareRequest` leaves the vote in an uninitialized buffer:
  `ReadsAsNo` allows any reading of it.
* `SendTxnId` and `ReceiveTxnRequest` can end without returning a value. In the TM this
  may end the process (`TMSigPipe`, which also stands for the second write to a closed
  session). In an RM the request is dropped, or is a commit of an id nobody knows, which
  empties `txn_log` (`TornRequest`). An abort of such an id adds a record under an id that no
  transaction has, to `txn_log` and to `logFile.txt`; the maps of the model have no place for
  it and nothing looks it up. A crash of the RM is covered by `RMCrash`.
* `TMCommit` iterates over a vector that a second handler may free or move (`Free`): the
  next record is then any (`Leftover`), or the process ends (`FreedMemory`). `OneHandler` says
  that this takes a restart of the TM; run `tm_restart` is where it happens.
* A TM whose node dies while it is being served by it may die too, as above, or take the
  broken session for an answer: `Dies` in `Replication` leaves `tmUp` open. Nothing restarts
  the TM there.
* A client's lost read yields the default record or a buffer of zeros (`ReadLost`).
* The receiver's buffer is a fresh mapping of 200000 bytes, never freed, so it is zero
  past what was received (`Recv` in `Wire`). `PieceDecodes` says what this makes of a piece.
* `smr_log.at` past the end throws and nothing catches it: the process ends (`Dies`).
* Two writes to a session whose peer is gone raise SIGPIPE and end the primary; in
  `Replication` this is one of its crashes, so the runs allow two.
* The end of an id message that never arrives is compared as an uninitialized buffer;
  we take it to match no id.

## 3. Runs

The runs of `TwoPhaseCommit` have two RMs and two customers: two of each are what it
takes to disagree and to see half of a transaction.

| Run | Instance | Shows |
|---|---|---|
| `commit` | 2 clients and an experiment thread (customer 0), no crash, every customer has an order | reads are still current at commit, order numbers are 1, 2, 3, ..., RMs converge, Success means applied, RMs decode what was sent, `AtomicCommit` is implemented, prepared is decided, all are answered |
| `tm_crash` | 2 clients and an experiment thread (customer 0), the TM crashes once, stays down | one handler at a time, `AtomicCommit`, all are answered |
| `rm_crash` | a client and an experiment thread (customer 1), one RM crash (restart possible), one TM crash | one handler at a time, log files agree, Failed is final, nothing is applied before it is logged, only committed data in the customer file, all are answered |
| `tm_restart` | the same with one TM restart and one customer unknown | types only: ids are used twice, handlers overlap, and a commit iterates over freed memory |
| `order_queue` | 3 handlers, 4 orders, 2 spurious wake-ups | no order lost, doubled or overtaken; no lost wake-up; `OrderService` is implemented, liveness included |
| `cluster` | 3 transactions of 2, 1 and 2 orders, 2 crashes of either node, the backup may return | indices stay in the log, `smr_log.at` never throws, a connected backup has the primary's log, it never runs ahead, the TM never waits for ever |
| `absent_read` | 2 clients, no customer known | a stale read is committed (finding) |
| `lost_vote` | one RM crash | commit without every vote (finding) |
| `recovery` | one RM crash | committed orders are lost (finding) |
| `id_reuse` | one TM crash and restart | Success for orders nobody applied (finding) |
| `backup_sync` | 3 transactions of one order, no crash | the backup gets no order (finding) |
| `takeover` | 3 transactions, one crash | a new primary never applies an order it has logged (finding) |

Three clients suffice in `commit` for a transaction that reads before, during and
after the commit of another, with a third in the queue. One crash can fall at every
point of a transaction; two clients leave one transaction before and one after it. The
experiment thread of `commit` chooses customer 0, for which its index is right; with
customer 1 `OrderNumbersConsecutive` and `CommitsOnCurrentReads`' purpose are lost, since
old numbers are written again (see the hazard at `ClientThread.cpp:57`), so the runs with
customer 1 check what holds regardless.

`order_queue`: a handler that comes back while another waits, and two handlers that wait
at once, need three handlers and one repeated call; two spurious wake-ups let one fall
on an empty and one on a full queue. `cluster`: the first order of a run reaches a backup
that expects an identification, the second reconnects and sends all, the third is
replicated live, and each of the two crashes can fall in any of these; the return of the
backup makes the reconnection start from an empty log. The primary does not return in
`cluster`: if it does, with its log gone, its own small `committed_index` or the backup's
larger one meets a log of another length, and `smr_log.at` throws. That is listed as a
hazard (`ServerThread.cpp:455`) and is visible with `Returns = {0, 1}`.

Bounds, all in guards: `MaxRMCrashes`, `MaxTMCrashes`, `MaxTMRestarts`, `MaxSpurious`,
`MaxCrashes` and `MaxTxnId` (at least the number of accepted transactions, so `Accept` is
never held back in any of the runs). `Calls` and `Work` are the work there is to do.
Deadlock is checked in every run: `Terminating`, or `Finished` in `Replication`, is the
only way to stop.

**Fairness.** Weak fairness of every client, of the TM, of every RM thread, of every
handler and the admin thread, and of the threads that serve a peer: a runnable thread of
the operating system runs, and `recv`, `accept`, mutexes and futures return when they can.
Crashes, restarts and spurious wake-ups are not fair: nothing makes them happen.
`AllAnswered` therefore says that no crash, even without a restart, leaves a client
waiting, and `EveryTxnEnds` that no crash of a node leaves the TM waiting: it gets through
its transactions, unless its own process has ended with the node that was serving it
(SIGPIPE at its second write, or `SendTxnId` without a value to return).
`PreparedIsDecided` is checked without crashes only: an RM whose TM has died stays in
doubt for ever, by design of the code. In `OrderQueue` weak fairness is enough for the
mutex because every handler places a bounded number of orders.

## 4. Proofs

Every safety property of a passing run is also a theorem, for every value of the
constants that satisfies the named `ASSUME`s and the hypotheses below.

| Theorem | Property | Hypotheses |
|---|---|---|
| `TypeCorrect` | `TypeOK` | none |
| `HandlersNeverRace` | `OneHandler` | no TM restart |
| `LoggedBeforeApplied` | `WriteAhead` | no TM restart |
| `DiskHoldsCommitted` | `OnlyCommittedOnDisk` | no TM restart |
| `NoSplitDecision` | `Agreement` | no TM restart |
| `FailedIsFinal` | `FailedNeverCommitted` | no TM restart |
| `SuccessIsApplied` | `SuccessMeansApplied` | no TM restart, no RM crash |
| `CommitIsAtomic` | `ImplementsAtomicCommit` | no TM restart, no RM crash |
| `ReplicasAgree` | `ReplicasConverge` | no TM restart, no RM crash |
| `CommitReadsCurrent` | `CommitsOnCurrentReads` | the same, and `AllSeeded` |
| `OrdersConsecutive` | `OrderNumbersConsecutive` | the same, and `AllSeeded`, `OrdersRead` |
| `PreparesDecode` | `DecodesAsSent` | `ShapesFit`, and `NumbersFit` of the state |
| `QueueLosesNothing` | `NothingLost` | none |
| `QueueLosesNoWakeup` | `NoLostWakeup` | none |
| `QueueImplementsService` | safety part of `ImplementsOrderService` | none |
| `ReplicationTypeCorrect` | (`TypeInv`) | none |
| `ReplicationCommitsItsLog` | `CommittedInLog` | none |
| `IndexNeverThrows` | `IndexInRange` | the primary does not return |
| `BackupFollows` | `BackupInStep` | the primary does not return |
| `BackupNeverAhead` | `BackupNotAhead` | the primary does not return |
| `WholeTransaction`, `PieceOfTransaction` | (of the operators of `Wire`) | none |

"No TM restart" (`MaxTMRestarts = 0`) leaves all crashes of the TM and of RMs possible,
and the orphans they leave behind; "no RM crash" (`MaxRMCrashes = 0`) leaves the crashes of
the TM. These hypotheses are not for the prover's sake. With a TM restart ids are used
twice (run `id_reuse`) and an orphan of the old TM runs beside a session of the new one,
where a commit can come between `TMPrepare`'s insert and its append, or over freed memory.
With a crash of an RM a lost vote is an agreement (`lost_vote`), `smr_log` and the customers
in memory are gone (`recovery`), and nothing after that can be expected of "Success".
`AllSeeded` says that every customer anybody reads exists: one that does not is never
validated (`absent_read`). `OrdersRead` says that clients order only for customers they read,
and that a thread of the experiment has customer 0, for which its index is right.

**Types.** `TypeOK` is not inductive: a commit step keeps the types only if the record it
takes exists, a read only if a customer is left, a TM step only if the TM has a
transaction. `Bookkeeping` adds these three; the inductive invariant is `TypeInv`. One
lemma per actor, one step per action.

**One handler.** `HandlerInv`: while the TM lives, a running handler is the one the TM
waits for at this moment (`tmTxn`, `tmRM`, at `vote` or `ack`); once it is dead no step
starts a handler. This is `Exclusion`; from it follows the second part, `NoneFreed`: no
commit iterates over a vector that was freed, so `FreedMemory` is a step that cannot be taken
unless a second TM runs.

**Files** (`Persistence_proofs`). What an RM applies or commits comes from `txn_log` through
the local `found`, so write-ahead needs `AheadInv`: both hold only writes that the file
already has as prepare or abort lines, also after `recovery_txn_log`; only `txn_log` is ahead,
by what a `TMPrepare` has inserted and not yet appended (`Inserted`), and `HandlerInv` says that
no commit looks an id up in this gap. (The module extends `Decisions_proofs` for it.) For the customer file
the value in memory has to be committed at the moment `StoreCust` writes it: `DiskInv` says that
a value in memory has its commit line or is a record that a handler between `apply` and `log`
is about to commit. `OneHandler` is what excludes that such a handler exists while another
one stores.

**Decisions** (`Decisions_proofs`). A line of a log says whose it is only through the id.
`IdInv` says that an id belongs to one transaction: whatever an RM holds under the id of a live
transaction is that transaction's, ids in use are below `transaction_id`, and a client
is either in line or served. On top of it `DecisionInv`: a commit (on its way, in a
handler, or logged) and an abort of one transaction never exist together, the TM's `allOk`
agrees with both from `decide` on, and what the client was told agrees too. The
handler that outlives the TM is in the invariant, so a late commit cannot contradict a "Failed".

**Commits** (`Commits_proofs`). `CommitInv` follows the loops of the TM: for each place `tmPc`
and each RM before, at and after `tmRM` it says what the session, `txn_log` and the log file
hold (`Voting`, `Deciding`, `Acking`, ...). From it come `SuccessIsApplied` and the
refinement: initial states map to initial states, and every step of `Next` to
a step of `AtomicCommit` or a stutter, with a commit of an orphan included. `ReadsInv` adds that
reads are of existing customers in order, which makes what `TMPrepare` validated equal
to what is read. `ReplicaInv` says that RMs differ at most by orders of the transaction
being applied (`Unwritten`, `Written`), and `NumberInv` that each RM's record of a customer is the number
of orders it has applied for it, which is where validation and numbering meet.

**Wire** (`Wire_proofs`). `WholeTransaction` and `PieceOfTransaction` are about the operators, for
every transaction that fits the buffer, and rest on the arithmetic of `htonl` and `ntohl` over
the 32-bit range. `PreparesDecode` says that transactions of the protocol are of that kind:
by `SentInv` a transaction that the TM knows, or an RM has a session for, was submitted, has not changed
since, and has the orders that `Submit` built. `ShapesFit` (the sizes fit the 200000 bytes,
customers and ids fit an `int`) and `NumbersFit` (above every number read there is room
for the transaction's orders) are what the code takes for granted and nowhere tests.

**Queue** (`OrderQueue_proofs`). `QueueInv` says who holds `arq_lock` (who is between lock
and unlock), and that each handler has at most one request under way, which is in exactly
one of `arq`, the admin thread's hand, or the log. Without the second part `Serve` could
not be mapped to `OrderService`'s step for the right handler; without the first, `Sleep`
could follow a `Test` that a push has overtaken.

**Replication** (`Replication_proofs`). `TypeInv` says how far the TM is in its transaction: a
promise is only given for an order that exists. `CommittedInLog` is inductive on top of it;
`Take` on a request whose index is beyond the backup's own log is why it is not
obvious. `StepInv` relates the two logs: for each place of the TM and state of the one socket
it says how much of the primary's log has been sent (`Sent`), that the backup's log ends with
that much of it (`EndsWith`; the backup's may be longer, as a reconnection sends everything
again), and that the request on its way carries the next entry with an index that is in
range. `OrphansFit` says the same of requests that outlive their primary. `AheadInv` adds that
order numbers grow and that what either log holds the primary shows. `0 \notin Returns` is
needed: a first node that returns with its log empty reconnects to a backup with
a longer one, and `smr_log.at` does throw (hazard at `ServerThread.cpp:455`; the invariant fails
with `Returns = {0, 1}`).

Assumptions: the named `ASSUME`s of each module, which only say that constants have their
kind and that stand-ins such as `Absent` and `Nobody` are not values; `AbsentAssumption` says so
of log entries.

Only model-checked:

* liveness: `AllAnswered`, `PreparedIsDecided`, `EveryTxnEnds`, and the liveness part of
  `ImplementsOrderService`. Fairness and `ENABLED` are out of the prover's reach;
* that the six properties of the violation runs are violated.

The invariants of the proofs were checked on the instances of the runs before they were proved.

## 5. Findings

1. A read of an unknown customer is never validated (`ServerThread.cpp:147`): run `absent_read`.
2. A lost vote counts as agreement (`TransactionManager.cpp:43`): run `lost_vote`.
3. Recovery does not redo committed log lines (`ServerThread.cpp:693`): run `recovery`.
4. Transaction ids restart from 0 (`TransactionManager.cpp:14`): run `id_reuse`.
5. A backup gets no order in a run of single orders: the session that copied the
   transaction log blocks the one that replicates (`ServerThread.cpp:122`): run `backup_sync`.
6. A new primary applies its last entry again and again instead of each one
   (`ServerThread.cpp:506`): run `takeover`. After `sendAllRequests` the last entry sent is
   uncommitted; the next order commits itself (line 455), not that entry; when the backup then
   takes over, the loop applies the newest entry and the one before it is lost to the
   customer records. `Takeover` restricts the property to the first order of a backup that has
   served no transaction yet and to which nothing of the late primary is on its way, so that
   the run shows this case and not what an orphaned request adds to the log afterwards.

## 6. Not modelled, and what is left to prove

To prove next: that restarts of the TM do no harm while ids are not reused (the theorems
of `Decisions_proofs` and `Commits_proofs` with the hypothesis that no id is given twice in
place of `MaxTMRestarts = 0`); that recovery restores every committed order while no crash
falls between the commit lines and the file of customers; and, of the cluster, that a new
primary which has logged one entry only applies it.

Not modelled:

* the composition of two replicated clusters under one TM: `TwoPhaseCommit` has RMs
  without peers and `Replication` one cluster, with `Decide` for the votes of the others.
  The TM's own crash and restart are in the former only; in the latter it may end with the
  node that serves it.
* two threads that write `smr_log` at the same time, a data race (see the hazards);
* integer ids and ten-byte texts that arrive in pieces, and what of a transaction's later
  pieces is read as the next message;
* a client that connects to the TM and never sends (it blocks the others for as long as it
  likes): clients of the model send when they connect;
* a partly flushed `custRecFile.txt` (the model has it empty or whole);
* 32-bit overflow of order numbers, which takes 2^31 orders of one customer;
* timers, printing, argument parsing, the build, `EngineerFlow`, `CreateCustomLaptop` and
  `empty_log_file`, which nothing calls.
