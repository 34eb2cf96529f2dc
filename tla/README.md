# Models and proofs for RDMA_Examples

This directory holds TLA+ models of the programs of this repository, the TLC
configurations that check them on small instances, and TLAPS proofs of the
results that matter for every size.  The reference is the code; every definition
that models code names its lines in `PROJECT.json` (`map`).

Checking a model: `tlc -config FcReads_rc.cfg FcReads.tla`; checking the proofs
of a module: `tlapm FcReads_proofs.tla`.

## 1. The system

The repository is a collection of independent RDMA programs.  Each is a pair of
processes (or one server and many clients) that talk over rdma_cm (connections)
and verbs (queue pairs, completion queues, registered memory).

| Part | Source | State it keeps | Operations |
|---|---|---|---|
| rdma_fc, read scheduler | `rdma_fc.c` 940-1004, 1102-1274 | `g_test.conns[].read_offset`, the schedule queue, `num_outstanding_reads`, `dci_outstanding`, `free_dci_bitmap`, `num_fin_recvd` | `do_rdma_reads`, `post_rdma_read`, `poll_cq`, `dc_send_completion` |
| rdma_fc, session | `rdma_fc.c` 338-940, 1007-1100, 1276-1359 | `conns`, `num_conns`, `num_established`, `num_disconnect`, the transport (CQ, SRQ, buffers) | `run_server`, `run_client`, `wait_and_process_one_event` and its handlers, `init_transport`, `send_control`, `disconnect`, `cleanup_test` |
| rcopy | `rcopy.c` | server: `fd`, `file_addr`, `bytes` (globals that outlive a connection); client: `ret` | `server_run`, `server_process`, `server_open/write/close`, `client_run`, `client_open/start_write/close`, `_recv` |
| multithreading | `multithreading/local.cc`, `remote.cc` | local: `local_mr`, `wc`, `rm_size`, keys; remote: `mr_arr`, `rm_size`, `recv_msg` | `reg_new_mr`, `send_comm_code`, `thread_do`; `get_comm_code`, `create_new_mr` |
| rdma_test, rdma_example | `rdma_test.c`, `rdma_example.c` | message buffers, the client's region, the key and address the server extracted | straight-line calls on both sides |
| apm | `apm.c` | `alt_dlid`, `alt_srcport`, `my_alt_dlid`, the loop counter, the migration state and the paths of the queue pair | `get_alt_port_details`, the exchange of LIDs, `load_alt_path`, the lock-step send loop, migration, `async_event_thread` |
| new_examples/server, my_test, RDMA_RC_example, rdma_sandbox, common.h | | none of interest | fragments, an unfinished program, macros (not modelled, see 7) |

How they interact.  *rdma_fc*: the connection manager carries CONNECT_REQUEST,
ESTABLISHED, DISCONNECTED, ... events; the server reads the clients' registered
memory without their participation; the two-sided FIN messages say that a side is
done.  *rcopy*: requests and responses in two byte streams per connection.
*multithreading*: codes and keys as two-sided messages, and one-sided writes and
reads by several threads on one queue pair.  *rdma_test*: two-sided messages that
carry a key, one-sided operations with it.  *apm*: the LIDs of the alternate ports
as private data of connect request and reply, two-sided messages back and forth;
in each process the main thread and a thread that takes asynchronous events.

What is hard, and what makes each part correct:

- **Read scheduler.** Completions of reads and FINs share one CQ and come in any
  order; a post can be refused (full send queue, no initiator) and must be
  retried; the counters decide when the unsigned `while` loop ends.  Correct:
  every byte of every connection lands once per iteration, no iteration overlaps
  the one before, initiators carry one read, nobody starves, the phase ends.
- **Session.** Clients run ahead of the server, events of different connections
  interleave, processes die, sends are flushed.  Correct: memory stays registered
  until it was read, receives suffice, the array of connections holds, success
  means what it says, and everybody returns.
- **rcopy.** Globals survive a session; clients die in the middle of a message;
  files fail to open; a broken connection makes `_recv` report data that is not
  there.  Correct: a client that saw success has its whole file on the server,
  no open file is lost, messages stay framed, the server comes back.
- **multithreading.** Threads share the CQ, `wc` and `local_mr`; messages come
  before their receives are posted.  Correct: when the threads are joined all
  operations are complete; keys match requests; both programs end.
- **Key exchange.** The key crosses as bytes, moved by a string function.
  Correct: the server uses the key and address of the client's region, and the
  region outlives its use.
- **Path migration.** Two programs choose the two ends of a path from what each
  knows; a migration may fall between any two steps of an exchange, on either
  side; a cable may be pulled.  Correct: the two alternate paths are one path,
  sends are received in step, nobody migrates before the adapters are armed, a
  migration loses no message, both programs end.

`PROJECT.json` lists every hazard at its line, with the properties that cover it
or the reason why none does.

## 2. Modules

| Module | Models | Used by |
|---|---|---|
| `ReadService` | abstract: what `do_rdma_reads` promises | `FcReads` (refinement) |
| `FcReads` | the read scheduler with the adapter and the clients' FINs | `FcReads_proofs` |
| `FcReads_proofs` | theorems about `FcReads` | |
| `FcSession`, `MCFcSession` | server, clients, connection manager, adapters | `FcSession_proofs` |
| `FcSession_proofs` | theorems about `FcSession` | |
| `CopyService` | abstract: what rcopy promises a user | `Rcopy` (refinement) |
| `Rcopy` | rcopy's server, its clients, their streams and files | `Rcopy_proofs` |
| `Rcopy_proofs` | theorems about `Rcopy` | |
| `RcopyRecv`, `RcopyRecv_proofs` | `_recv` at the width of `size_t`, with its theorems | justifies `Rcopy`'s `Takes`, `AtEof`, `Stale` |
| `MsgQp` | external: two-sided messages over one queue pair, its error state | `MtNodes`, `KeyExchange`, `Apm` |
| `MsgQp_proofs` | lemmas about the operations of `MsgQp`: what each does to the messages on their way and to the receives | the three below |
| `MtNodes` | both programs of `multithreading/` | `MtNodes_proofs` |
| `KeyExchange`, `MCKeyExchange` | rdma_test and rdma_example | `KeyExchange_proofs` |
| `Apm`, `MCApm` | both sides of apm, their adapters and the fabric between them | `Apm_proofs` |
| `MtNodes_proofs`, `KeyExchange_proofs`, `Apm_proofs` | theorems about these three | |

An operator whose name ends in a suffix (`MayPost_Unbounded`, `Pack_AddrFirst`)
is a variant of the operator before the underscore with a plausible mistake in it;
nothing in a specification uses it.  It exists to show that a property notices
the mistake.

### FcReads

`pc` is where the single thread of the server is: `"iter"` at the head of the
`for`, `"loop"` at the head of the `while`, `"poll"` before `poll_cq`.  The
action `PostRead` is one pass through the posting half of the loop body: the head
of the schedule queue, `post_rdma_read`, the bookkeeping of DCIs, and the
reinsertion.  `PostNothing` is the same pass when `post_rdma_read` reports
`posted = 0`; `AbortDci` when its assertion fails; `SkipPost` when the limit of
`-o` is reached or nothing is scheduled.  The four `Poll` actions are the four
outcomes of `poll_cq`.  `CompleteRead` (in order per queue pair, successful or in
error) and `FinArrives` interleave with all of them.  `free_dci_bitmap` is the
set of bits that are 1, of all `BitmapBits`, because the code initialises it to
-1 whatever `NUM_DCI` is.

External: the adapter's order of execution, and that the clients send one FIN
each.  Left out: attributes of the verbs objects, the RC connection's own
parameters, logging.

`ReadService` has three variables: rounds started, bytes landed per connection,
status.  The refinement maps `landed[c]` to the bytes below `read_offset[c]`
without those of posted reads, so a byte has landed when its completion was
polled, and the round to the iteration under way.

### FcSession

Both roles run the same functions, so each variable is a function over the
processes; `pc` is the loop a process is in (`"setup"`, `"reading"`,
`"fin_wait"`, `"disc_wait"`).  Handlers of `wait_and_process_one_event` are
actions guarded by `TakeEvent`; an event outside of the loop's mask is
`UnexpectedEvent`, which returns an error as the code does.  `Exit` is the way
out through `cleanup_test`, and says what the connection manager tells the
others.  The read phase is reduced to one read per connection and iteration here,
with the iterations one after the other as `ReadService` promises; `FcReads` has
it in full.  A FIN needs room in a send queue: over RC in the one of its own
connection, over DC in that of an initiator picked at random, which may be the
same for all (`FinsFit`), so the order in which `run_server` scales the queue
matters (`TxLen`); without room the assertion of `send_control` ends the process.
Faults are a constant: `"crash"`, `"flush"` (a send still in the
queue is lost when the queue pair is torn down) and `"timewait"` (TIMEWAIT_EXIT
events may arrive while the process waits for disconnects).

### Rcopy and RcopyRecv

`spc` is the call in which the server blocks; each action is what it does from
there to the next blocking call.  `fd`, `file_addr` and the stale header `msg`
keep their values between sessions, as the globals (and the stack) do.  Streams
are sequences of message parts (a header, its path or size, pieces of data).
`RcopyRecv` models `_recv` itself: `rrecv`'s -1 stored in a `size_t` does not end
the loop but steps the offset back modulo 2^64; its contract is proved and is
what `Rcopy` builds in: the next part, 0 at the end of the stream, or "received"
with an old buffer after the connection failed.

Nobody looks at what `raccept` returned (`rcopy.c:383`).  When it fails
(`AcceptFails`), because the client died while it waited (the phase `"gone"`, whose
request stays in the backlog) or because the connection fails as it is accepted, the
server runs `server_process` on -1: the socket `Invalid`, on which nothing arrives and
nothing can be sent, and where every receive "succeeds" with an old buffer, as on a
connection that failed.  That `rrecv` and `rsend` fail on -1 is an assumption about
the library.

`CopyService` has the client that is served, the pieces stored for each client,
what each was told, and the clients whose connection was lost.  `Rcopy` maps these
to `cur`, `file`, `cpc` and `broken`; a server that runs on `Invalid` serves nobody.
The service forbids storing outside of a
client's session, or out of order, or taking anything away, so a client that was
told "ok" keeps its file whatever later sessions leave in the globals.

### MtNodes

`lpc`, `tpc` and `rpc` are the local node's main thread, its threads and the
remote node.  `local_mr` is one global for all threads, `Poll` takes whatever
completion is next.  `local_rm_size` and `rm_size` are the `-s` options of the two
programs; the remote node overwrites its own from the message (`CodeSize`), whose
size field the sender never writes.

### KeyExchange

Every program is a sequence of calls (`TestServer`, `TestClient`, ...), one step
each, since the code is straight-line; `Pack` is the `memccpy` of the key up to
its first zero byte followed by the address, `Extract` what the server cuts out.

### Apm

`pc`, `i` and `ret` are the main thread of each side, `athread` its event thread.
The fields of `ctx` that choose the path are variables; `PathUnset` is the test of
two of them that the code makes twice, before and after the private data is read.
A LID is a pair of host and port.  The adapter side is external: a queue pair has
the path it uses (`path`), the one that is loaded (`alt`) and a migration state;
both ends are armed by a packet between two queue pairs that have loaded a path,
an armed receiver follows a sender that has migrated, and a send that was retried
in vain migrates its queue pair or, if it is not armed, puts it in error.
`PullCable` cuts the original port of a host.  Which ports are active, which are
current and what the command lines give is free in `Init`.  The model has the code's
ends of the loop: a failing migration returns -1, the other breaks leave `ret` at 0,
the status of a completion is not looked at.  Paths given on a command line are part
of the model, but no property speaks of them: nothing makes the two sides agree.

## 3. Runs

| Run | Bounds | What it shows |
|---|---|---|
| `FcReads_rc` | 2 connections, 5 bytes in segments of at most 2, `-o 3`, send queue of 2, 2 iterations | types, `Accounting`, `Balanced`, `ReadAssertion`, refinement of `ReadService`, `Terminates` |
| `FcReads_dc` | 3 connections, 2 DCIs, `-o 3`, 2 iterations | `DciExclusive` up to the failing assertion, `CqNeverOverruns` |
| `FcReads_dci_exhausted` | 2 connections, 2 DCIs, `-o 3` | **violated**: `DciAssertion` |
| `FcSession_all` | clients with 2 and 1 connections, rc and dc, 2 iterations, queues of 2, no faults | `MemoryUntilRead`, `EnoughReceives`, `ReadsEstablished`, `EverybodyReturns` (with 0) |
| `FcSession_faults` | 2 clients, 2 iterations, crash, flush, timewait, rc and dc | `ClientSuccess` |
| `FcSession_array_overflow` | 2 clients, a server that expects 1 connection | **violated**: `ConnsInBounds` |
| `FcSession_fin_lost` | 1 client, flush | **violated**: `EverybodyReturns` |
| `Rcopy` | 2 clients, data in 2 pieces, backlog 1, all faults | refinement of `CopyService` (success means the whole file), `OneFile`, `Framing`, `BusyAfterFailure` (what can wedge the server), `ServerReturns` (it comes back for the next client, or handles one CLOSE or WRITE for ever without a working connection) |
| `RcopyRecv` | all messages of up to `MaxLen` bytes, `size_t` of a few values | `RecvContract`, `OffsetCounts`, `RecvReturns` |
| `MtNodes` | 3 threads, 2 regions, sizes 0 and 1, either program first | `JoinedMeansDone`, `KeysMatch`, `BothEnd` |
| `KeyExchange` | both programs, the 16 patterns of zero bytes in a key | `GoodKeyDelivered`, `RegionOutlivesUse`, `ReadBack`, `BothEnd` |
| `Apm` | 2 ports per host, 2 messages, every choice of ports and options; no migration by hand, one in the loop and one after it; a pulled cable, failing calls | `AlternatePaths`, `ReceivePosted`, `InStep`, `ArmedBeforeMigrating`, `MigrationLossless`, `BothEnd` |

Why the bounds suffice.  In `FcReads_rc` five bytes in pieces of two give a short
last segment; `-o 3` with a send queue of 2 makes both limits bind, so posting is
refused and retried; two iterations exercise the reset.  In `FcReads_dc` three
reads compete for two initiators.  Every invariant and every refinement of the
passing runs is also proved for all values of the constants (section 5, where a
theorem has a hypothesis the run's constants meet it), so what the bounds
limit is liveness; the runs also show that the cases the invariants speak of happen.  In
`FcSession_all` one client shares its buffer between two connections and the two
clients can be arbitrarily far apart; the server's array takes exactly what comes.
With two iterations a client whose FIN arrived in the first must still hold its
memory for the second, and queues of 2 for 3 connections make `run_server` scale
them while the client's 2 connections just fit.
Three connections are enough for one to be early, one late and one in between.
In `Rcopy` the second client meets everything a first one can leave behind, and
two pieces make a partial write visible.  In `MtNodes` three threads (the code
has two) let one be robbed of its completion by another which is robbed itself.
In `KeyExchange` only the positions of the zero bytes matter to `memccpy`.
In `Apm` two ports give every combination of hosts with and without a second active
port; the first exchange arms the adapters, the second may run over the other path,
and a cable may be pulled before, between and after.

Deadlock is checked in every run; the stuttering actions (`Stopped`, `AllExited`,
`Idle`, `Over`, `Returned`) are enabled only where the programs have ended, or
where one waits for a peer that is gone.

## 4. Fairness

- `FcReads`: weak fairness of the server, a thread that never blocks, and of the
  adapter, which completes every posted read with success or an error.  FINs are
  not fair: the phase must end without them.
- `FcSession`: weak fairness of every process, of the reads and of the fabric.
  rdma_cm and the reliable transports deliver eventually; the order is free.
- `Rcopy`: weak fairness of the server and of every client.  Crashes and breaks
  are not fair.
- `MtNodes`, `KeyExchange`: weak fairness of every thread or process and of the
  adapters.  In `MtNodes` also of starting both programs.
- `Apm`: weak fairness of each main thread, each event thread and each adapter:
  packets arrive or their retries run out.  Neither the pulled cable nor failing
  calls are fair.
- `RcopyRecv`: weak fairness of the loop.

## 5. Proofs

Every invariant of the passing runs and both refinements are theorems, for all
constants that meet the named assumptions of the module (`TransportAssumption`,
`SizesAssumption`, `DciAssumption`, `SessionAssumption`, `RcopyAssumption`, ...)
and, unless said otherwise, with every fault the model has.  Each follows from one
inductive invariant per module, whose parts are named; TLC checked these on small
instances before they were proved.

`FcReads_proofs`:

- `TypeCorrect`, `AccountingHolds`, `DciExclusiveHolds`, `BalancedHolds`,
  `CqNeverOverrunsHolds`, `ReadAssertionHolds` (with at least one iteration),
  `DciAssertionHolds` (DC with
  `-o` no larger than the number of initiators: the assertion never fails), and
  `ReadsRefineService`: with at least one iteration, the read phase implements
  `ReadService`, over RC, and over
  DC when the assertion cannot fail.
- The inductive invariant is `IInv`.  `Accounting` alone is not inductive: that
  the counter stays the size of `posted` needs that a new read differs from every
  posted one (`PostedOK`: a posted read lies below its connection's offset) and
  that the CQ holds each read at most once (`CqOK`).  `SchedOK` says that the queue
  holds exactly the unfinished connections, once each, which gives the assertion
  at the end and that nothing is pending between iterations.  `DciOK` ties the
  bitmap and the counters to the reads on the initiators.
- `BalancedHolds` adds `OrderOK`, which relates offsets to positions in the queue:
  whoever is nearer to the head has read no more than those behind it, and nobody
  is more than one segment ahead.
- `ReadsRefineService` adds `SegmentsOK` (posted segments of one connection are
  disjoint), then maps each action to a step of the service or a stutter.
- `CqNeverOverrunsHolds` adds `FinsOK` (each connection has one FIN, on its way, in
  the CQ or counted): the entries of the CQ are then mapped one to one to posted
  reads and connections.

`FcSession_proofs` (any number of clients and connections):

- `TypeCorrect` and `ClientSuccessHolds` with every fault.  The invariant is
  `SessionInv` (`SessionInvariant`): one message at a time opens a connection
  (`OneOpening`), a client has an established connection only if the server added it
  (`Accepted`), the phases of a client follow the FINs (`ClientPhases`), and any FIN of
  the server, unsent, received or counted, means that the last iteration has read
  everything (`FinMeansRead`).  The property alone says nothing of the FIN that is
  still on its way.
- `MemoryKept`: `MemoryUntilRead` if no process crashes and, over DC, no client has
  more connections than its send queue has entries.  Both are necessary: a client
  that dies takes its memory along, and one whose FINs do not fit is ended by the
  assertion of `send_control` (`rdma_fc.c:810`).  The invariant `NobodyLeaves` says
  that while the server reads no client has left and no connection is closed, so
  that only opening events are on their way.
- `ReadsOnlyEstablished`: `ReadsEstablished` if no more connections come than the
  server expects.  With more the server's array overflows (section 6), and its
  counter can be reached by others.  The invariant counts: the events the server has
  counted belong to different connections, all with nothing left to wait for
  (`CountedOnce`, from `OneReport`).
- `ReceivesSuffice`: `EnoughReceives` if the shared receive queue of each client is
  as long as its connections, and the server's, as `run_server` scales it, as the
  connections of all.  A client's is not scaled (`rdma_fc.c:1066`, section 6), so the
  hypothesis is the condition on the options.  A receive is posted, with a FIN in it,
  or counted (`Receives`), and as many FINs come as there are connections
  (`FinBounds`).

`Rcopy_proofs` (any number of clients and pieces, all faults, with every way for
`raccept` to fail that the model has): `TypeCorrect`,
`NoLostFile`, `FramingHolds`, `BusyOnlyAfterFailure`, and `CopiesRefineService`: rcopy
implements `CopyService`.  The invariant `IInv` says of the client that is served that
its stream holds exactly the items of a session between the one the server has taken
last and the one the client has sent last (`Session`), what a good answer to WRITE
means before the client has it (`AnswerOK`), and what the globals can be after any
failure (`ServerOK`).  Of the server that runs on after a failed `raccept` it says
that nothing ever arrives there, so that no client's file or stream is touched
(`InvalidRest`).  The model's assumption that no client is named like one of the
values of `fd` and `cur` that stand for no client only keeps these apart.

`RcopyRecv_proofs` (for every `MaxLen` and every width of `size_t` that can
represent it): `RecvTypeCorrect`, `RecvContractHolds`, `OffsetCountsHolds`, from
the invariant `Walk`: before an error the offset is the number of bytes stored,
after it the offset walks back to -1 while the buffer stays incomplete.

`MsgQp_proofs` states once what the operations of a queue pair do to three numbers:
the sends of a node (in the queue or completed), its receives (posted or completed),
and the messages on their way from it (`Flight`).  The next three modules rest on it.

`MtNodes_proofs` (any number of threads and regions): `TypeCorrect`,
`JoinedThreadsAreDone`, `KeysStayPaired`.  No thread knows whose completion it took, so
the invariant counts: operations and completions together are as many as the threads
that wait (`SendsOK`), keys held, arrived and on their way as many as the remote node's
regions (`KeysOK`), and an EXIT is sent only when the threads are joined (`RemoteOK`).

`KeyExchange_proofs` (every set of keys of four bytes): `TypeCorrect`,
`KeyDelivered`, `RegionOutlives`, `ReadsBack`.  `KeyDelivered` rests on a lemma about
`memccpy`'s packing (`KeyArrives`): what the server cuts out is the key and the address
exactly when the first zero byte is the fourth.  `Order` and `Flow` of the invariant
`ExchangeInv` bound how far the two scripts can be apart by the messages each has taken.

`Apm_proofs` (any set of ports, number of messages and time of a migration, all
faults): `TypeCorrect`, `PathsMirror`, `ReceiveAlwaysPosted`, `SidesStayInStep`,
`MigratesWhenArmed`, `MigratesLossless`.  In `ApmInv`, `Flow` equates what one side
has sent with what is on its way and what the other has taken, from which at most one
message is on its way (`OneInFlight`); `StepOK` says that it is the one the receiver is
due; `MigOK` gives which migration states the two sides can have together, and the
path each uses then; `HeardOK` that an answer of the server implies both are armed;
`ChosenOK` what each knows of the path at each point of the exchange of LIDs; `DoneOK`
that, while nothing else fails, a queue pair closes only when all messages of both sides
were received.  The last needs that a message on its way always arrives or its queue
pair can still migrate (`PathWorks`), for each pair of states and the cable that was cut.

Only model-checked: liveness (`Terminates`, `EverybodyReturns`, `ServerReturns`,
`RecvReturns`, the three `BothEnd`), since fairness and ENABLED are beyond the prover,
and the violations of section 6, which are counterexamples.

## 6. What the runs found

Three runs end in a counterexample, each against a comment of the code:

1. `FcReads_dci_exhausted`: the bitmap is -1, so it is never empty, and with DC
   and more reads in flight than initiators the server aborts
   (`rdma_fc.c:1150`), where the comment has it report `posted = 0`.
2. `FcSession_array_overflow`: `add_connection` stores a request that comes
   before the last ESTABLISHED event behind the array (`rdma_fc.c:734`).
3. `FcSession_fin_lost`: `disconnect` does not wait for its own FINs to leave
   before `rdma_disconnect` flushes them; the peer polls for ever
   (`rdma_fc.c:1036`).

Departures that need no search, which the models contain and no run states:

- `post_rdma_read` computes `rdma_buf.ptr + offset` for every connection, although
  the buffer is said to be split between them (`rdma_fc.c:618`, 1113).
- `-i 0` makes the assertion after the iterations abort (`rdma_fc.c:1263`);
  `-o 0` never posts.
- `run_client` does not scale `rx_queue_len` as `run_server` does, so a client with
  more connections than that has too few receives (`rdma_fc.c:1066`); nor
  its `tx_queue_len`, so over DC the assertion of `send_control` may fail in it
  (`rdma_fc.c:810`).
- A TIMEWAIT_EXIT event while waiting for disconnects is an error
  (`rdma_fc.c:1045`); in `FcSession_faults` processes fail because of it.
- Without a working connection rcopy's server may handle the same CLOSE or WRITE
  header for ever (`rcopy.c:345`): after the connection failed in the middle of a
  session, or after `raccept` failed (`rcopy.c:383`), when the header is what the last
  session left on the stack.  `ServerReturns` says that this is the only way not to
  come back: clients that die in the middle of a message, failing file operations and
  stale OPENs end the session.
- A client of rcopy that dies between OPEN and CLOSE leaves the server refusing
  everybody else (`rcopy.c:237`), and so does a failed `ftruncate` or `mmap`, and a
  session whose connection, or `raccept`, failed and whose stale headers open or keep
  a file.  `BusyAfterFailure` says that nothing else can.
- A thread of `multithreading` may post its operation with another thread's region
  (`local.cc:191`), which the adapter may refuse: it is in `MtNodes`, and no property
  is about it, since nothing says that an operation succeeds.
- `memccpy` copies the key of rdma_test up to its first zero byte and puts the
  address behind that (`rdma_test.c:394`): a key arrives exactly when its only zero
  byte is the last of its four, which `GoodKeyDelivered` states.
- apm's server takes the client's LID before it looks for an alternate port, and then
  does not look (`apm.c:712`): a second port on the server's host is never used,
  although the header (`apm.c:22`) asks for two ports on at least one of the hosts.
  The client, which has a source port by then, never takes the LID of the reply
  (`apm.c:505`).  If only the client's command line gives a path, the two paths need
  not fit.
- apm: `load_alt_path` has no `return` on success (`apm.c:296`; compiled as the
  header says it yields the 0 of `ibv_modify_qp`); `-w` is in the `switch` but not
  in the option string; `-m` equal to the number of messages is accepted and never
  migrates; the breaks out of the loop and the status of completions leave the
  program's result at 0.
- The remote node of `multithreading` registers regions of size 0 whatever its
  `-s` (`remote.cc:198`), and must be started second, although `local.cc:6` says
  first.

## 7. Not modelled

Address resolution, attributes of queue pairs and DC targets, address handles
and the printing of options (library calls and formatting without state of the
program); bandwidth and timing output; file contents beyond which pieces arrived;
which initiator a DC process chose for each FIN (only whether they fit).
`new_examples/server.cc` is unfinished and does not compile (stray page numbers and
a call that breaks off); `my_test.c`, `RDMA_RC_example.c`, `rdma_sandbox.cc` and
`common.h` hold no protocol.

## 8. Plan

Done, in this order: `ReadService` and `FcReads` with their proofs (the core),
`FcSession` (with iterations and the room for FINs), `RcopyRecv` with its proofs,
`Rcopy` and `CopyService`, `MsgQp`, `MtNodes`, `KeyExchange`, `Apm`.  The invariants and refinements of all of
them are proved.

Next: theorems that say more than the runs do.  `FcReads`: the assertion after the
iterations and the refinement with every number of initiators, up to the step that
aborts.  `FcSession`: that `ConnsInBounds` holds when no more connections come
than expected, the hypothesis under which the overflow of section 6 cannot happen.
`Rcopy`: the steps that `ServerReturns` rests on, such as what decreases while a
client is served.  Action properties for `Apm` (a queue pair is armed only once both
sides have loaded a path) and `MtNodes` (a key is used only after its answer).
