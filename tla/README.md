# A TLA+ development for cc_for_pof

cc_for_pof is the core of an OpenFlow 1.3 controller in C. This directory holds
TLA+ modules that model its parts, TLC configurations that check them on small
instances, and TLAPS proofs about all of them. `PROJECT.json` lists the components,
runs, mutants, hazards, findings and theorems, and maps each definition to the
lines it models.

To check a run: `tlc -config MCThreadPool.cfg MCThreadPool`. To check the
proofs about a module: `tlapm ThreadPoolProofs.tla`, and so for each of the other
`*Proofs` modules (the longest, `SlabProofs` and `CodecProofs`, take some minutes).

## 1. Inventory

| Part | Source | State | Operations |
|---|---|---|---|
| thread pool | lib/cc_thread_pool.c | job list, its size, shutdown flag, mutex, condition variable | pool_init, pool_add_worker, thread_routine, pool_destroy |
| socket server | src/cc_conn.c | life cycle, counters of workers, busy workers and connections, epoll set | start, accept, worker loop, growth, retirement, close, shutdown |
| blocking send | src/cc_conn.c | per connection: EPOLLOUT registration, lock and condition variable | internalBlockingSender, blockingSendEpollerRoutine |
| buffer lists | lib/cc_mem_pool.c | per type a row of nodes, its tail | init_mem_list, new_mem_node, free_mem_node, clean_mem_list |
| slab allocator | src/cc_ncx_slab.c | page descriptors, slot lists, free list | init, alloc, free, stat |
| message encoding | src/cc_create_msg.c, src/cc_action.c | none | ofl_msg_pack and one function per message |
| message decoding | src/cc_parse_msg.c | none | ofl_msg_unpack and one function per message |
| structures | include/cc_openflow_13.c | none | layouts and sizes |
| linked list | lib/cc_link.c | a chain of elements, the caller's pointer to the first | insert in front, before a sibling and at the end, delete, find, length, iterate with a callback |
| start-up | lib/cc_init.c, src/cc_main.c | options, log files, listening socket, descriptors of the parent and its children | option parsing, listen, poll, accept and fork |
| log, routines | lib/cc_log.c, src/cc_log.c, src/cc_routine.c, lib/cc_of_process.c | a file | print; stubs |

How they interact. The start-up code accepts a switch, forks, and gives the
child a thread pool; the socket server is the epoll-based alternative, whose
protocol handler answers with the blocking sender. Both would call
ofl_msg_unpack on what they receive and ofl_msg_pack on what they send, with
memory from the buffer lists or the slab allocator. At this commit these calls
are not wired up: the receiving and sending calls of the child are commented
out. The one interaction that the code has is that of the server with the
blocking sender, which share the connection's event and its lock; it is modelled
by the composition `ServerSend`.

What is hard here:

- *Interleaving.* pool_destroy takes no lock, cc_conn.c reads its counters
  outside the spin lock, and pthread_cond_signal follows the unlock.
- *Ordering.* A connection can be served and closed by another worker before the
  worker that accepted it has counted and announced it.
- *Timeouts.* A sender that gives up races with the epoller that is about to
  signal it; its event is freed afterwards.
- *Shutdown.* The server is freed by its last worker, if there is one.
- *Long sequences.* The allocators and the linked list keep links whose
  soundness depends on every earlier call.
- *Callbacks.* iterate_list calls its user between two elements, and the user
  may change the list meanwhile.
- *Descriptors.* New descriptors take the lowest free number, which may be that
  of a closed standard stream; fork copies the table, and parent and child must
  each close what they do not use.
- *Two sides of a format.* Packing and unpacking compute the same offsets and
  padded lengths in different expressions, with many error exits.

What makes each part correct:

- thread pool: no job lost, run twice or out of order; no lost wakeup; no use of
  released memory; exit after shutdown.
- socket server: exact counters, one worker per connection, minimum and maximum
  respected, the server released last, every message served.
- blocking send: a positive result means everything was sent; a sleeping sender
  is always going to be woken.
- allocators: blocks never overlap, nothing is lost, the statistics are exact.
- server and sender together: a sender keeps its connection, its event and the
  server until it has returned; data is served and the shutdown ends although
  handlers block.
- linked list: it behaves as a sequence, every node is in it once, an iteration
  visits what stays.
- start-up: the parent's table holds what it should, a child waits on its own
  switch, pending connections are taken.
- messages: what is packed fits its buffer and is understood by the own decoder,
  incomplete messages are refused, a refusal releases everything.

## 2. Plan

Order, most important first; all of it is done but the last step.

1. `ThreadPool`, its abstract specification `JobQueue`, proofs in `ThreadPoolProofs`.
2. `SocketServer`.
3. `BlockingSend`.
4. `MemPool`.
5. `Slab`.
6. `OpenFlow`, `CreateMsg`, `ParseMsg`, composed in `Codec`.
7. `LinkedList` with its abstract specification `ListSpec`; `Startup`.
8. `ServerSend`, the composition of `SocketServer` and `BlockingSend`, in place
   of the assumptions that one worker serves a connection and that handlers return.
9. Proofs of every safety property of the thread pool, the socket server, its
   composition with the sender, the blocking send, the buffer lists, the linked
   list, the start-up code and the slab allocator, of both refinements, and of
   PackFits, NoLeak and ShortRejected of the messages (section 6).
10. Left: RoundTrip and ProperUnderstood of Codec for every length, and service
    from the backlog of the socket server (section 7).

## 3. Modules and the code

**ThreadPool.** One step is what a thread does between two accesses another
thread can see. `chain` holds every job ever linked; the list of the code is its
suffix from `queue_head`. `pc` follows thread_routine, `cpc` pool_add_worker,
`dpc` pool_destroy. Released memory is tracked in `freed` and `pool`; an access
to it is recorded in `faults` and may end the process (`aborted`) or carry on.
thread_routine releases its argument twice (lines 150 and 151), which is the
fault `arg_double_free`. Threads may fail to be created. Every job is submitted
once; spurious wakeups are included.

pool_init assigns the memory it allocates to its own parameter (line 26): the
threads get the address, the pointer of the caller (cc_init.c:399) stays as it
was. So that the queue can be judged at all, the constant `Holders` names the
clients and destroyers that have the address all the same, as they would with
the pool in a variable of its own; every other caller passes the unset pointer,
which is the fault `unset_pool` (AddUnset, DestroyUnset). The program at this
commit is the instance with no Holders; nothing in it calls pool_add_worker or
pool_destroy yet. Two choices of grain: a client does not call pool_add_worker
once pool_destroy runs, which is an assumption about use, since the code has no
guard and the repository no caller; and the unlinking of a node by pool_destroy
(line 105), read and write of the head, is one step. A finer one loses updates
between two destroyers, which free a node twice or not at all; a job can only be
run by a thread, under the lock, so that AtMostOnce does not depend on it.

**JobQueue.** Jobs wait in a sequence, are started in order, and finish.

**SocketServer.** A section under g_spinlock is one step, except the creation
of threads, since a new thread runs before its parameter is complete. malloc and
pthread_create may refuse a worker; the second is not looked at, so that a
worker is counted which does not exist (`phantoms`). epoll is modelled by
`armed` (one-shot registrations) and the edge of the listener. A handler is one
step that reads a message or end of file and returns a code. Clients connect as
soon as the server listens, send up to MaxData messages, close or reset.

**BlockingSend.** Messages are counted in chunks, the socket has room for
Capacity of them, the peer drains it. The condition variable, its timeout and
the one-shot EPOLLOUT registration are explicit; an event is freed after a
failed call, or later when the worker closes the connection, and the epoller may
meet it afterwards. `unsignalled` remembers the connections of which a wait
ended without the epoller's signal; `stale` those whose freed event was used.
The epoller's thread exists or not (`running`; nobody looks at the result of its
pthread_create, line 175), and it ends for good when epoll_wait fails (363-366).
A message of no bytes is included: the call returns 0 then, as after an error of
send, although everything was sent.

**ServerSend.** The two modules above put together: SocketServer extended,
BlockingSend instantiated with the server's sockets as its connections. The one
step of the handler is replaced by recv, a call of internalBlockingSender with
all its steps, and its result; Close also frees the event; the shutdown of the
sockets makes them writable; the epoller lives on until epoll_wait fails or it
reads the freed server. Spurious wakeups are bounded to one per connection.

**MemPool.** A node per position; the nodes up to tail carry buffers. The
unlocked test of new_mem_node is a step of its own. free_mem_node calls
pthread_spinlock (line 59), which does not exist; it is modelled as
pthread_spin_lock, without which the file cannot be linked.

**Slab.** Descriptors with their links, the free list and a list per chunk size,
a set of busy chunks per page in place of its three kinds of bitmap. Sizes are
scaled down: 2-bit bytes, 2-byte words and 16-byte pages give every kind of
page. ncx_slab_init is applied to areas of every size and alignment. Line 119
divides the difference of two addresses as an unsigned number (`AddressSpace`):
if the aligned start lies behind the end of the memory it wraps around, no page
is taken off, and pages are laid out beyond the memory (with pages of 4 KiB, a
base 4000 bytes into its page and 4120 bytes of memory there is one page, and it
lies outside). Such an area is `Outside`; its layout is judged by InitFits and it
is not used further. WidthAssumption keeps the shift `(2 << n) - 1` at line 327
within an int (n < 30) and the area within the address space.

**LinkedList, ListSpec.** Nodes with next and data, a set of allocated nodes that
malloc may give out again at once, and the caller's head pointer, which
delete_list leaves dangling. An iteration stops at its `cursor` while the
callback runs, and the callback may be any of the other operations. Undefined
behaviour (an empty list, a NULL address, a malloc that returned NULL, a freed
cursor) ends a behaviour with `fault`; among them insert_before and
delete_element on an empty list, whose loops follow a NULL head. ListSpec is what
the comments of cc_link.c promise: for each operation, the new sequence of data
and the value returned. ImplementsList ties each operation of the code to the
operation of ListSpec of that name, so that an error is allowed only where
ListSpec has one. Three cases contradict the comments and are left out by name: a
sibling in first place, the length of an empty list, create_list.

**Startup.** A table of descriptors for the parent and for each child, a child
being named by its connection. `polling` tells whether main makes its single
call of cc_conn_accept or cc_polling calls it in a loop (nothing calls
cc_polling at this commit). An option, a failing call, an exit, dup2 and close
change tables; the backlog holds the connections that the kernel completed.
Start-up is entered with any of the descriptors 0 to 3 open.

**OpenFlow, CreateMsg, ParseMsg, Codec.** A byte is named after the value it
belongs to and its place in it, so a wrong offset, width or byte order shows.
CreateMsg has one operator per ofl_msg_pack function, built from the layout
tables of OpenFlow. ParseMsg describes each ofl_msg_unpack function by the
lengths it asks for and takes off, the members, the conditions of its error
returns before (`invalid`) and after (`late`) it allocated the message, what it has
allocated and releases at each exit, and which results it ignores. The texts of a
description are copied by strcpy, up to the first zero wherever it lies. Codec
runs a plan step by step (header, fixed part, match, count, entries, data) on a
packed message that arrives whole, in part, cut at any length with a header that
says so, or with bytes added. The decoders of matches, list entries and actions
(ofl-structs) and the functions that count the entries (ofl-utils) are not in the
repository; they are modelled from their use, take their length off, and may refuse
anything. The messages are the inputs of the model: every type and multipart
type, with a match and data of the given lengths, up to MaxEntries entries and
actions, and the member values that the decoders test. CodecAssumption: lengths
are numbers, an action is of one of the kinds that ofl_actions_pack knows, and
2^SizeBits is a positive number (which the prover does not derive from the type
of SizeBits).

## 4. Runs

| Run | Instance | Shows |
|---|---|---|
| tp_queue | 3 threads, 2 clients with the address of the pool, a client and a destroyer without, 3 jobs | queue size, no lost wakeup, no lost job, memory safety in use; the pool in use implements JobQueue |
| tp_destroy | 2 threads, 1 client, 2 jobs, 2 calls of pool_destroy | no job twice; every job runs unless the pool is shut down; threads that are awake exit |
| ss_counters | up to 3 workers, 2 connections, a worker that cannot be created | counters, exclusiveness, minimum, callbacks, release |
| server_send | up to 2 workers, 1 connection, 2 messages, room for 1 | the sender owns its connection; messages are served and shutdown completes although handlers block |
| bs_send | 2 connections, 0 to 3 chunks, room for 2, an epoller that may be missing or end | result, no lost signal, stale events only after a wait without signal; woken by room; returns by timeout |
| mp_lists | 2 users, 2 types, 3 buffers | one owner, no loss, exact report |
| slab_chunks | areas of all sizes and alignments up to 3 pages, all kinds of request | no overlap, sound lists, exact statistics, nothing lost, harmless double free, layout |
| codec | every type, matches of 7 lengths, up to 3 entries, cut around every length that is asked for | fits, round trips, short messages refused, no leak |
| link | 3 nodes, 2 values | no node lost or shared, sound iteration; each operation as its comment says |
| startup | 3 switches, 7 descriptors, 2 options | descriptors held, each child on its switch, pending connections taken |

Two runs end in a violation, each a disagreement between the code and a
comment of the repository:

| Run | Comment | Code |
|---|---|---|
| ss_stop_no_clients | stopping, then exit signalled | only the close of a last connection signals the exit |
| codec_consumed | the whole message must be consumed | a flow-statistics request is packed at another offset than it is read |

Other disagreements met on the way are in the models, without a run of their
own. The property that meets one names it as an exception; without the exception
TLC finds the counterexample.

- pool_init does not give the pool to its caller (cc_thread_pool.c:26), against
  its use at cc_init.c:399 and in the test program at the end of the file;
  exception `unset_pool` in MemorySafe, and the callers outside Holders in
  EveryJobRuns;
- shutdown is tested and set without the lock (cc_thread_pool.c:89-91), so that
  two calls of pool_destroy can both go on and release everything twice, against
  the comment that says it prevents two calls; tp_destroy has such behaviours;
- a set-field value is written over buffer_id and in_port of the message
  (cc_create_msg.c:235), where cc_openflow_13.c:538 has it follow the header of
  the action: `Argument` and `Lost` of Codec;
- in_port of a packet-out is packed (cc_create_msg.c:228) and not unpacked: `Lost`;
- a text that fills its array in a description has no zero behind it and runs
  into what follows (cc_parse_msg.c:963-967): `Lost`;
- messages whose length is not checked: a features-reply of which the code says
  "has invalid length" is read all the same (cc_parse_msg.c:122-126), the queue
  configuration request asks for the size of another structure (1446), packet-in
  forgets its padding (219), and the checks at 275, 434 and 689 leave out the
  match, whose header is read past the end of a message of 48 to 51 bytes:
  `Unchecked`;
- create_list refuses a valid address and writes through NULL (cc_link.c:28-42),
  against its comment at 22-26; insert_before does not find a sibling in first
  place (84-85), against 69-72; list_length_of of an empty list is the largest
  unsigned int (141), against 136: the three cases that ImplementsList leaves out;
- accept turns a descriptor away if it is greater than FD_SETSIZE, so that
  FD_SETSIZE itself passes (cc_init.c:355); sw_info->fd keeps the number that the
  child closes when it moves the descriptor (cc_init.c:387-394);
- the options -i and -p are not used by bind, and the port is not converted to
  network order; -r has a case (line 146) but is not among the options;
- `max_free_pages` is documented as the largest number of contiguous usable
  pages (cc_ncx_slab.h:38), but neighbouring free runs are not merged and it is
  the longest single run: StatExact claims the documented meaning only while no
  two free runs touch;
- an area so small that its aligned start lies behind its end gets a page outside
  the memory (cc_ncx_slab.c:119): InitFits;
- a queue configuration request for OFPP_ANY, meant to ask for all queues
  (cc_openflow_13.c:1353), is refused as an invalid port (cc_parse_msg.c:1453);
- the 16-bit priority of a flow-removed message is converted as 64 bits on both
  sides (cc_create_msg.c:182, cc_parse_msg.c:299) and arrives as zero;
- a packet-in one byte longer than its structure takes two bytes of padding off
  an unsigned length of one (cc_parse_msg.c:259).

Not exceptions of a property but worth knowing: packet-in, packet-out and table
features go on after an entry or a match was refused (cc_parse_msg.c:255, 406,
778, 1246); the model does the same (`ignores`), and no property claims that they
return the error. AwakeThreadsExit is about the threads that are awake, or woken
by the broadcast of pool_destroy; a thread that has seen shutdown = 0 and is not
yet waiting misses it and sleeps on, since shutdown is set without the lock.

Bounds, and why they are enough. Three threads let one sleep, one hold the lock
and one run a job; two clients let two signals be outstanding. One more worker
identity than maxThreads would show an excess. Two connections let one be
accepted while the last one closes. In server_send one connection with two
messages and two workers give a handler that blocks while the other worker
retires, or finds the connection closed by its peer, or the server shut down;
the second message can arrive when both are idle. (Two connections exceed 14
million states; their interplay is checked without the sends in ss_counters and
without the server in bs_send.) Messages longer than the buffer make the
sender wait; with two connections the epoller serves one while the other waits.
Three buffers can come back in an order other than they were taken. Two pages
are the least that can be split, and have requests of every kind; three give
lists with a middle and are checked with big chunks and runs of pages only,
which fill a page with two requests. Match lengths cover the
residues modulo eight around the points where padding changes; three entries
have a first, a middle and a last one. Set-field values stay within 8 bytes: an
IPv6 address would also overwrite the length of the actions. SizeBits = 12 is
more than any message of the run. Messages are cut on both sides of the lengths
that the decoders ask for, and at every length from 47 to 56, which ends inside
the header of a match, inside its padding and behind it; every structure is cut
one byte short as well. (NothingShortAccepted covers every other length.) Three list nodes
give a first, a middle and a last element and one to be used again. Three
switches and few descriptors exhaust the table, the numbers pass FD_SETSIZE, and
with closed standard streams a connection gets a number below three.

CHECK_DEADLOCK FALSE is used where the system may stop: all jobs done, the
server freed, all calls returned, a pool outside its memory, the process ended. Symmetry is used in
ss_counters, mp_lists and link, which check no liveness.

## 5. Fairness

Weak fairness of each thread's step: POSIX threads are scheduled and every step
is short or a blocking call that is enabled when it can return. The clients of
the pool have strong fairness of pool_add_worker: a client that asks for the
mutex gets it if it is released again and again, although threads woken
spuriously may take it in between. A process
function and a handler are assumed to return; the latter because the blocking
send times out. Nothing is assumed of callers, clients, peers, failures or
spurious wakeups. SenderReturns has one more hypothesis, `Timely`: the timeout
of pthread_cond_timedwait expires, and wakeups without room do not go on for
ever, since each round of the loop starts a new timeout. The epoller is fair while
its thread lives; RoomWakesSender claims the wakeup only for as long, and
SenderReturns does not need it.

ServerSend assumes less of handlers and epoller: a handler is no longer assumed
to return, only the timeout of its wait expires, and the epoller is fair only
between lock and unlock, because its thread may not exist (nobody looks at the
result of its creation). Startup has weak fairness of the parent alone.

## 6. Proofs

Eight modules hold theorems, each for every value of the constants. A theorem
`Spec => []P` rests on an inductive invariant IInv, which TLC has checked on the
instance of the run before it was proved; there is one lemma per action, and the
parts of IInv an action cannot touch are dealt with together. What is assumed of
the constants is the ASSUME of the module, which the runs evaluate: the names of
threads, connections, objects and "none" differ, counts are numbers, and the sets
whose members are counted are finite. Further assumptions are named below.

**ThreadPoolProofs**: PoolTypeCorrect, JobsRunAtMostOnce, QueueSizeExact,
PoolMemorySafe, NothingLost, WakeupsNotLost, QueueUntilShutdown and
PoolImplementsJobQueue. IInv is TypeOK and

- LockInv: exactly the holder of queue_lock is in the critical section, and only
  waiting threads are on the condition variable;
- ListInv: queue_head stays within the chain, and what a thread holds is a node;
- FreshInv: a job is linked once, and a client's argument is not yet linked;
- OnceInv: a job held before its call, or still queued, has not been performed,
  and two threads never hold the same node; after shutdown the last part is
  kept only for the thread that is past the test of shutdown;
- SizeInv: QueueAccounting, and a thread about to dequeue finds a node;
- MemoryInv: without shutdown nobody releases the pool or a queued node.

QueueAccounting alone is not inductive: it needs to know that at most one thread
is between the two lines that update size and head (LockInv), and that it found
a node. AtMostOnce needs FreshInv, since two nodes with one job would break it,
and the second part of OnceInv, since pool_destroy moves the head under a
thread's feet. LossInv is proved on top of IInv. NoLostWakeup needs WakeInv: a
thread about to sleep holds the mutex and has seen an empty queue. The
refinement of JobQueue has one step for each action; QueueUntilShutdown says that
every step which leaves shutdown unset is a step of JobQueue, and
PoolImplementsJobQueue is the refinement itself, assuming that nobody who has the
address of the pool calls pool_destroy (Destroyers and Holders are disjoint),
without which it does not hold. PoolMemorySafe has two parts: until shutdown the
only faults are the double release of the argument and the unset pointer, and the
second needs a caller that is not among the Holders.

**SocketServerProofs**: ServerCountersExact, ConnectionsExclusive,
ServerFreedLast, CallbacksArePaired. The counters are cardinalities of sets of
workers and sockets, so their proofs follow a worker into or out of such a set.
They need to know who is inside the spin lock and how many workers are still to
be created (SpinInv), what the life cycle allows when (StartInv), that a worker
leaves its loop only when told to, or after a failed epoll_wait (MinInv), and
that whoever clears up is the last one (CleanInv). ServInv (an armed connection
is open and nobody serves it) gives exclusiveness. CallbackInv says what has been
announced of a connection while the worker that accepted it has not yet counted
it: nothing, or that it was closed.

The same module has SenderAlone and ServerKeptWhileSending, about ServerSend. The
server's invariant is carried over: every step of the composition is a step of
the server, a handler that returns, or one that leaves the server alone. On top,
SenderInv: a running call of internalBlockingSender belongs to the handler of a
worker that holds the connection.

**BlockingSendProofs**: SenderResultExact, SignalNotLost, StaleEventsExplained.
RetInv relates the result to what is left to be sent at each position, LockInv
tells who holds writableLock. PendingInv is what StaleOnlyUnsignalled lacks: until
a wait ends without its signal, the epoller has at most one signal outstanding
for a connection, and only while its sender is at the wait.

**MemPoolProofs**: BuffersHaveOneOwner, BuffersConserved, FreeNeverRefused.
HeldOnce and FreeOnce are the two halves of OneOwner; RowFilled and CountInv (as
many buffers are in use as tail is short of the end) give that a user who frees
a buffer always finds an empty node, without which the row would overflow.

**SlabProofs**: PoolFitsItsMemory, BlocksApart, ListsAreSound, FreeTwice,
NoPageLost, StatIsExact. AreaInv and arithmetic give the layout for every
size and alignment, with the bound on the pages beyond the end where the start
already lies behind it (WidthAssumption: the sizes are far from the end of the
address space). Blocks do not overlap because each is a run of pages or a busy chunk
(LiveInv), and runs and chunks are told apart by the descriptors (PageInv).
PageInv in turn needs the lists: a page on a list must have the mark and the kind
that belong to it, or alloc would hand it out again. LinkInv keeps the lists as
next and prev that lead back and forth between pages of one owner.

That is not enough for ListsSound, which says what a walk from the head meets: a
ring of pages that no head leads to satisfies LinkInv. `Sorted` excludes it: some
numbering of the pages decreases along next until the head, however pages are
inserted and removed. A counting argument then gives that the walk meets every
linked page and comes back. PageInv has the converse parts too: a free run and a
chunk page with room are linked, a run that was given out is not. Covered (every
page belongs to a run or is a chunk page) and UsedInv (every run given out and
every busy chunk is a block, or belongs to the bitmap) say that nothing is lost.
From them the runs and chunk pages tile the pool, so that the walk of
ncx_slab_stat from run to run meets each once; sums of tiles give StatExact, and
with no block left AllReturned. For the documented meaning of max_free_pages,
BehindRun says that the page behind a free run, if it is usable, is the first of
another run, so that without touching runs a row of usable pages lies in one. FreedAgain shows that a block freed
twice in a row is recognised as free, or that its page, free as a whole by then,
at most moves to the front of the free list.

SlabAssumption is about the sizes: those of the code are powers of two, the
reserved bits fit the first word of a bitmap, and a page newly cut has room left
after the first chunk. The last is true of the code, whose largest chunk is half
a page and whose smallest are many more than their bitmap takes.

**CodecProofs**: EveryMessageFits, NothingLeaks, NothingShortAccepted, for every message of the model, matches, data and set-field
values of any length and any number of entries. The invariant has three parts.

- Wire: the buffer has the size that was allocated and nothing was written behind
  it, and the bytes of type and multipart type, where they arrived, are those of
  the message sent. EveryMessageFits follows.
- Held: nothing is allocated before the fixed part was read; the plan by which the
  decoder goes on is one for the message sent (PlanOK: only port and queue
  statistics allocate a first block; a decoder that counts its list releases the
  message, and the match if it has one, when the count or a check behind it
  fails; one that looks at the result of an entry releases everything at its
  error exit); what is on the heap is in the plan, or a match, an array or
  entries, as far as the decoder has come. NothingLeaks is among its parts.
- Early: a packed message has its own length in the header and that of its match
  in the match (Counted); a part of it that was received has another length than
  the header says; and what was cut short with a consistent header, at any length
  but an Unchecked one, is refused by the length check of its plan, or ends 52 to
  55 bytes long in the padding of a match that takes at least eight bytes, of
  which at most seven are there (Stops). PlanCut compares, type by type, the
  length of the message without match, entries and data (no message of the type
  is shorter) with the length that the decoder asks for. NothingShortAccepted is
  among its parts.

Held and Early need Wire, since the decoder chooses its plan by the bytes in the
buffer, and a leak is judged by the message sent: with a wrong byte a reply of one
kind would be decoded as another. PackFits is not a matter of one line either. The
loops over entries and actions are recursive functions; that they have a value,
and that the sums of the lengths bound what they write, is shown by a least
counterexample (SumsAre, EntriesBuffer, ActionsBuffer). One lemma per pack
function compares the length it allocates with the places it writes to, with the
rounding to eight bytes (RoundUp), and GoodMessages gives the types of the
messages.

**LinkedListProofs**: ListOwnsItsNodes, IterationIsSound, ListImplementsListSpec.
The chain of the model is computed by a recursive function; WalkFindsList shows
by a least counterexample that it is the sequence c whenever head and next lead
through c (IsList). Every insertion is then an insertion at one place
(InsertedIsList), the deletion likewise. ShapeInv says that the allocated nodes
are those of such a sequence. VisitInv places the cursor in it: of the nodes that
were in the list all along, exactly those up to the cursor's place have been
visited, unless the cursor was freed; insertions and deletions move the place.
The refinement assumes that there are fewer nodes than the unsigned int of
list_length_of can count (`Cardinality(Nodes) < 2^UnsignedBits`); with more the
length wraps around and the refinement is false. Each operation is compared with
its own operation of ListSpec; the three cases named in section 3 are no part of
the statement.

**StartupProofs**: ParentTableExact, ChildOwnsItsSwitch. The invariant needs a
fact about the order of numbers: descriptors are given out from below, so none
that the program opened lies above a free one but the connection just accepted.
With it dup2 to CC_ACCEPT_FD cannot hit the listening socket or a log file of
the child. BacklogInv keeps a connection from being accepted twice.

Only model-checked:

- liveness (EveryJobRuns, AwakeThreadsExit, DataServed, ShutdownCompletes,
  RoomWakesSender, SenderReturns, BacklogServed): fairness and ENABLED are out of
  the prover's reach;
- RoundTrip and ProperUnderstood of Codec, which compare every value decoded with
  the one packed: they need what the packing and unpacking loops compute byte by
  byte for every input, that is, induction over data with a hypothesis about the
  contents, where the proofs above need one about lengths only.
  ProperUnderstood also contains the type invariant of Codec, that len never wraps
  around: it holds only of messages shorter than 2^SizeBits, which the constants
  of the run guarantee and CodecAssumption does not;
- the two runs that end in a violation.

The other type invariants are parts of the inductive invariants and proved with
them.

## 7. Not modelled

- cc_finish_init, which is compiled out, and handle_message, which only it uses;
  src/src/cc_init.c, an older copy of the option parsing that is not built.
- What a child does with a message: the calls are commented out. Its loop polls
  without waiting (both timeouts are zero).
- Log lines, and the routines without a body. Opening the log file is part of
  Startup; cc_delete_log_file has no caller.
- Service of a connection that stays in the backlog of the socket server: one is
  accepted per edge, and the code does not promise more.
- Experimenter call-backs: nothing in the repository supplies them.
- Concurrent use of the slab allocator: its lock is an empty macro and it has no
  caller.
- Messages longer than 65535 bytes, whose length field wraps around.
- Failure of malloc, which the code does not test, except where it does.
