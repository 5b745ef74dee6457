# A verification development of network_communications

The repository is a collection of small network and concurrency programs in C and
C++: two thread pools, a pool of MySQL connections, a length-prefixed message
protocol, TCP servers built on threads, on the thread pool, on `select`, `poll` and
`epoll`, and exercises with pthread primitives.  This directory holds TLA+ modules
that model its concurrent core, TLC configurations that check them on small
instances, and TLAPS proofs of theorems that hold for instances of any size.

`tlc -config X.cfg M` checks a run, `tlapm M.tla` the proofs of a module whose name
ends in `Proofs`, and those of `ConditionNodes`.

## 1. The system

### Components, their state and their operations

| Component | Source | State | Operations |
|---|---|---|---|
| C thread pool | `src/Thread/ThreadPool/threadPool.c` (same file under `src/socket/multi_thread`) | ring buffer of tasks, `busyNum`, `liveNum`, `exitNum`, `threadIDs`, `shutdown`, mutexes `mutexPool` and `mutexBusy`, conditions `notFull` and `notEmpty` | `threadPoolCreate`, `threadPoolAdd`, `threadPoolDestroy`; threads `worker`, `manager` |
| C++ thread pool | `src/Thread/ThreadPool/threadPoolC++` | unbounded `std::queue` under `m_mutex`, the same counters under `mutexPool`, condition `notEmpty` | constructor, `addTask`, destructor; `worker`, `manager`; `TaskQueue::addTask`, `takeTask`, `taskNumber` |
| Connection pool | `src/ConnectionPool/ConnectionPool.cpp`, client `main.cpp` | queue of idle connections, `m_mutexQ`, one condition `m_cond`, `minSize`, `maxSize`, `maxIdleTime`, `timeout` | `getConnection` and the deleter of its `shared_ptr`; threads `produceConnection`, `recycleConnection` |
| MySQL wrapper | `src/ConnectionPool/MysqlConn.cpp` | connection, result set, current row, time stamp | `connect`, `query`, `next`, `value`, transactions, `refreshAliveTime`, `getAliveTime` |
| Message framing | `src/SocketPackage/socket.c` | a byte stream in each direction | `readn`, `writen`, `sendMsg`, `recvMsg` |
| Framing server, client | `src/SocketPackage/server.c`, `client.c` | `infos[250]`, `pinfo` of `main`, a detached thread per client | accept loop, `working` |
| Server on the pool | `src/socket/multi_thread/server.c` | a C thread pool (3, 8, 100) | `acceptConn` as one task for ever, `working` as one task per client |
| Multiplexing servers | `src/IO_mulit_way/*_server.c` | `rdset` and its copy `rdtemp`, or the descriptors of `epfd`; in the threaded ones shared by threads | wait, accept, add, receive, answer, clear, close |
| Single-connection server and client | `src/socket/server.c`, `client.c` | descriptors | blocking read and write |
| Exercises | `src/Thread/*.c`, `src/ConnectionPool/test` | semaphores, conditions, read-write lock | producers and consumers, readers and writers |

### Interactions

* The program's threads call the pools; the workers call back the task functions.
  In the C pool a caller can block in `threadPoolAdd` on a full ring, and workers
  and callers wake one another through two conditions.  The manager only reads
  counters, creates workers, and asks for exits through `exitNum` and two signals.
* `threadPoolDestroy` and the C++ destructor take no mutex: they write `shutdown`,
  join the manager, signal, and release the memory; the workers are not joined.
* The connection pool's clients, producer and recycler share one mutex and one
  condition.  Taking a connection notifies everybody, returning one nobody.
* `acceptConn` of the multi-threaded server runs as a task of the pool and adds
  tasks to the pool it runs in: it is a worker and a caller of the same pool.
* The framing server's `main` and its threads share `infos` without a mutex.  A
  thread reads the descriptor from its slot anew for every message, and `recvMsg`
  closes it by number when a body is cut short.
* The multiplexing servers share descriptors, by number, with the kernel, which
  gives a number out again once it is closed; the threaded ones share the watched
  set with their threads, under a mutex (`thread_server`) or in the kernel.

### What is hard

Wake-ups that reach nobody or the wrong thread; decisions made with values read in
an earlier critical section; accesses that take no mutex, or not the same one;
shutdown at any moment; the ring's wrap-around; a condition variable shared by
threads that wait for different things; deadlines; a stream of bytes cut anywhere;
descriptors used after somebody else has closed them; an event reported once; a copy
of a set that is used while the set changes.  `PROJECT.json` lists the hazards
line by line with the properties that cover them.

### What makes each component correct

* Thread pools: an accepted task runs once, in order, and none is started after
  shutdown; no sleeper misses what it sleeps for; `liveNum` and `busyNum` are what
  they count, and `minNum <= liveNum <= maxNum`; tasks finish, blocked callers
  return, a backlog makes the pool grow, an idle pool shrinks, destroying ends.
* Connection pool: exclusive use, no connection lost or closed in use, the queue
  sorted by idle time, the producer awake when there is a shortage, a bounded
  number of connections, clients served, the surplus closed.
* MySQL wrapper: a value is read only from a row of the current result set (not modelled, section 7).
* Framing: what `recvMsg` returns is the sequence of messages sent, however the
  stream cuts them; an end of stream ends the conversation.
* Framing server: a slot of the table belongs to one client, as long as there are
  slots; its threads end once the clients have left.
* Server on the pool: clients are taken in the order they connected; the acceptor
  goes on after its own pool blocked it; in a pool of fixed size what was accepted is
  closed in the end.
* Multiplexing servers: what is watched is what is open; no accept blocks the loop;
  a request that has arrived is received, and a client that left is closed.

## 2. The modules

| Module | What it is |
|---|---|
| `TaskPool` | the abstract promise of a pool of tasks: `Accept`, `Start`, `Finish`, `Close` |
| `ThreadPool` | the C pool in detail, and its properties |
| `MCThreadPool` | TLC's instance of it, with the symmetry of tasks |
| `ThreadPoolProofs` | the theorems about it |
| `ThreadPoolCpp` | the C++ pool in detail, and its properties |
| `ThreadPoolCppProofs` | the theorems about it |
| `ConnectionPool` | the connection pool, and its properties |
| `MCConnectionPool` | TLC's instance of it |
| `ConnectionPoolProofs` | the theorems about it |
| `FramedServer` | the message framing, with the framing server and its clients |
| `MCFramedServer` | TLC's instance of it |
| `MessageChannels` | the abstract promise of the framing: `Write`, `Receive` |
| `FramedServerProofs` | the theorems about the framing server: its table, its streams, and that it implements `MessageChannels` |
| `PoolServer` | the server on the C pool: `ThreadPool` composed with the server's tasks |
| `PoolServerProofs` | the theorems about it, which use those about the pool |
| `EventServers` | the four servers on `select` and `epoll`, with and without threads |
| `MCEventServers` | TLC's instance of it |
| `EventServersProofs` | the theorems about them |
| `PollServer` | the server on `poll`, as far as it gets |
| `SemaphoreNodes` | producers and consumers on two semaphores |
| `SemaphoreNodesProofs` | the theorem about them |
| `ConditionNodes` | producers and consumers on a condition variable, with the theorem |

Operators named `X_Something` with a comment that begins "Fault:" are altered forms
of `X`.  They are used by no specification; each is a plausible mistake in the code
that makes one of the checked properties fail, and shows that the property is
sensitive to the code.

### ThreadPool

One action is what a thread does between two points where another thread can see or
change what it uses.  A critical section is one action as long as it makes at most
one access to something unprotected.  That is not always so: `threadPoolDestroy`
works without the mutex, so a waiter's test and its `pthread_cond_wait` are two
actions (`Lock` or `Wake`, then `Wait`; `Add` or `AddWake`, then `AddWait`) with
`mutexPool` held in between, and the manager's scan is one action per cell.

* *Workers.*  `pc[w]`: `lock` waits for the mutex at the top of the loop; `wait`
  holds it in front of `pthread_cond_wait`; `waiting` sleeps; `woken` has been woken
  and waits for the mutex; `taken` has taken a task; `running` is inside it, counted
  by `busyNum`; `retire` and `quit` are in `threadExit`; `none` is an empty cell of
  `threadIDs`.  A worker is named by its cell, since the cell is 0 exactly when
  nobody owns it: `pthread_create` fills it before the thread runs, `threadExit`
  clears it as its last access to the pool.
* *Manager.*  `sleep(3)` may take any time.  It reads `queueSize` and `liveNum` under
  one mutex and `busyNum` under another (`snap`), and decides with those values.
* *Callers.*  Any number of threads that add, and one that destroys.
  `threadPoolDestroy` is `Destroy`, `DestroyJoin`, `DestroySignal` (one per turn,
  each reading `liveNum` anew), `DestroySignalled`, `DestroyFree`.
* *Ring.*  The array, front, rear and size are those of the code; a cell that has
  been taken keeps its stale content, so executing one twice would be visible.
* `pthread_cond_signal` wakes any one of the sleepers, or nobody.  Spurious wake-ups
  may happen at any time and are never relied on.
* After `DestroyFree` the memory is gone and the model stops (`Released`): what the
  remaining threads do is undefined.

A task is added once, as `main.c` allocates a fresh argument for each.

### ThreadPoolCpp

The same roles, with the differences of the C++ code.  A push takes `m_mutex` only,
in two actions (`BeginPush`, `EndPush`), because `taskNumber` reads the queue's size
without that mutex; while a push is under way `TaskNumber` is *any* number, the
outcome of the data race being undefined.  A worker keeps `mutexPool` from its test
until `takeTask` has returned (`Examine`, then `Take`, which waits for `m_mutex`).
`busyNum` is under `mutexPool`, so the manager's snapshot is one action and a worker
takes the mutex again to stop being busy (`NotBusy`).  `addTask` tests `shutdown`
once, without a mutex (`AddTask`), and signals with none held (`Notify`).

### ConnectionPool

Everything shared is accessed under `m_mutexQ`, so a critical section is one action.
`GetConnection` takes the head and notifies, or sleeps; `Timeout` ends the timed wait
(or is a spurious wake-up, which the loop treats alike); `Release` is the deleter;
`Produce` and `ProducerWait` are the producer; `Recycle` is one pass of the recycler;
`Tick` lets time pass, with ages capped at `maxIdleTime`, beyond which the code does
not tell them apart.  A connection is an object with an identity; `live` is the set
of those that exist.  Assumed: `dbconf.json` parses, and `minSize >= 1`.

### FramedServer

`SocketPackage` from both ends of the connection.  A byte is a digit of base `Radix`
and the length has `HEADER` of them, so that `htonl` and `ntohl` are `Encode` and
`Decode` and a length can be cut in two.  Both go over the bytes of a length by
recursive functions, `Place` (what a byte weighs) and `Worth` (what the bytes so far
are worth), and a byte that has not come counts 0, as in the `len` that `recvMsg`
clears first.

* *Streams.*  `net[c]` holds what client `c` has written and the server has not
  received.  `Send` is one `send` of `writen`, which takes any part of what is left;
  `Recv` is one `recv` of `readn`, which returns any part of what has arrived and
  never more than it was asked for; `RecvFails` is a `recv` that returns 0 or -1.
  `Close` is a client that ends, perhaps in the middle of a frame, and `Reset` a
  connection that breaks, which loses what was not received.
* *recvMsg.*  `phase[t]`: `call` is `working` before the call, where it reads `fd`
  from its slot; `header` and `body` are the two `readn`; `close` is in front of
  `close(cfd)`; `ended` has left `working`.  The code ignores the result of the first
  `readn`, hence `RecvFails` decodes whatever part of a length has come.
* *The table.*  `Accept` is one round of `main`: the first slot with -1, and if there
  is none the slot of the round before, since `pinfo` keeps its value.  Nothing ever
  sets a slot back to -1.  `owner` says whose connection a descriptor is; `accept`
  gives the lowest free one, so that closing a number twice may hit somebody else.

### PoolServer

It extends `ThreadPool` and constrains it: the tasks are `acceptConn` and one per
client, the callers are `main` and the worker inside `acceptConn`.  A step of the pool
leaves the server's variables alone; `Add` and `Finish` are joined with what the
server does: `AddWorking` is `threadPoolAdd(p, working, pinfo)` called from the task,
and `Return` is the end of a task function, which for `working` needs that its client
has left and for `acceptConn` that `accept` has failed.  While the ring is full the
acceptor is inside `AddWait` and `AddWake` of its own pool.  The directory has its own
copy of `threadPool.c`, and `map` names its lines for the pool's actions.

### EventServers

`select_server`, `thread_server`, `epoll_server` and `thread_epoll_server` differ in
two ways, the constant `program`: how they wait (level or edge) and who handles an
event (`main` or a thread).  Every action names the code of one of the four; the
others do the same.

* *Waiting.*  `Select` leaves in `rdtemp` what is ready, and all of it if the copy
  names a closed descriptor, because the code does not look at the result;
  `EpollWait` takes the edges that have not been reported.  `Dispatch` starts a
  handler, in the order of the descriptors for `select`, in any order for `epoll`;
  `Copy` is the top of the loop.  A handler called by `main` ends before the next
  one begins (`Idle`).
* *Handlers.*  `handlers[p, d]` counts those at phase `p` on descriptor `d`:
  `accept`, `add`, `recv`, `send`, `resend`, `clear`, `close`.  Between `clear` and
  `close`, and between `accept` and `add`, other threads may run.
* *Kernel.*  `RaiseEdge` adds the edges of a connection that changes; adding a
  descriptor that is ready raises one; adding one that another thread has closed or
  added meanwhile fails, which `thread_epoll_server` does not notice; closing removes a
  descriptor from `epoll`, but not from an `fd_set`.
* A request is what one `recv` returns.  An answer to a broken connection may end the
  process by SIGPIPE, and does in `select_server`; `epoll_server` exits on a `recv`
  that fails (`alive`).

### PollServer

`fds` are the cells that `main` gives to `poll`, and `Poll` blocks until one of the
first `maxfd + 1` has something to report; `Accept` is the branch for cell 0, which
the code takes for the listening socket.  The clients only connect: nothing behind
`poll` is ever reached (section 6).

### SemaphoreNodes and ConditionNodes

`semaphore.c` and `pthread_cond.c` move nodes through a list under a mutex.  A critical
section is one action, and the list is its length.  In the first, a thread is in front
of `sem_wait`, of its critical section, or of `sem_post`; in the second, a producer
broadcasts after it has unlocked, and a consumer sleeps, is woken (several are, for
one node) and tests again.  Neither program ends, so the lengths have no bound that a
run could name; both are small enough to be proved instead, for any number of threads.

### TaskPool and the refinements

`Promise` in `ThreadPool` reads `pending` off the ring, `running` off the workers'
locals, and `closed` as `shutdown`.  In `ThreadPoolCpp`, `addTask` and a take that
began before the destructor may have their effect after it, so the pool counts as
closed once `shutdown` is set and the last of them is done; the last one may itself
be the closing step, which `TaskPool` allows.

`Channels` in `FramedServer` reads the abstract `sent` and `got` off the history of the
two ends and `apart` off the slots: the threads that share one.  A `send` that completes
a frame is `Write`, a `recv` that completes a body is `Receive`, every other step on the
bytes is none of the channel's.  `MessageChannels` promises nothing to a client that
shares its slot (`Astray`).

## 3. The runs

| Run | Instance | What it shows |
|---|---|---|
| `pool_elastic` | 1 caller, 3 tasks, 1..3 workers, ring of 2 | types, exact `liveNum` and `busyNum`, `ImplementsTaskPool`, while the pool grows, shrinks and is destroyed |
| `pool_fixed` | 2 callers, 3 tasks, 2 workers, ring of 2 | no lost wake-up of a worker or a caller; every task finishes, blocked callers return, the join returns |
| `cpp_pool` | 1 caller, 2 tasks, 1..2 workers | no worker takes from an empty queue, `ImplementsTaskPool`, exact `liveNum`, an awake pool empties its queue, the join returns |
| `connections` | 3 clients, once each, 1..5 connections, idle time 2 | all properties of the pool with room for every client, whose queue stays below `maxSize` |
| `framed_server` | 3 clients, a table of 2, bytes of 1 bit, lengths of 2 bytes, messages of 2 and 1 bytes | messages whole, in order and once; a slot for each client until the table is full; all that was sent is received; the threads end |
| `pool_server` | 3 clients, 1..2 workers, ring of 2 | clients taken in order, the acceptor goes on, a backlog makes the pool grow even if no client leaves, an idle pool shrinks |
| `event_servers` | 4 programs, 2 clients, one with 2 requests | no accept blocks, the watched set is exact, select leaves no connection, requests are received, no edge is lost, leavers are closed |
| `pool_stolen_wakeup`, `pool_destroy_signals`, `cpp_missed_signal`, `connections_runaway`, `poll_deaf` | the smallest that shows it | the findings of section 6 |

*Why the bounds are enough to see the interesting cases.*  One worker above `minNum`
lets the pool grow, two above let one scan create two workers and one request for
two exits meet two workers; three tasks on a ring of two block a caller and go round
the ring; two sleeping workers let a signal choose, and two callers compete for the
mutex and for the cell that becomes free.  `minNum = maxNum` is a legal pool, and the
one in which no wake-up is stolen (section 6).  Three tasks block one caller of
`pool_fixed`; that no wake-up is lost among several blocked callers is proved
(`NoLostRoom`).  In `connections` three clients can all wait at once, and five connections are
one more than the pool is ever seen to need, so the bound on objects never stops the
producer.

In `framed_server` two clients besides the one that sends are enough to fill the table
and share a slot. Nobody is left then to be given the number that the sharing threads
close twice: that a client with a slot of its own is not harmed by it is the theorem
`MessagesCorrect`, not the run. Lengths of two bytes are what it takes to cut one, and
messages whose bytes look like lengths show a boundary missed by one. `Radix` and
`HEADER` scale 256 and 4 down and change no guard. In `pool_server` one worker accepts
and one serves, so that three clients reach every place on the way: served, in the ring,
with the blocked acceptor, in the backlog. No worker retires there while clients are
accepted: with two workers, one of them in `acceptConn`, `busyNum * 2 < liveNum` is
false, and `IdlePoolShrinks` is about the pool that is idle after `accept` has failed.
In `event_servers` two clients connect together, one leaves while the other is accepted
with its number, and two requests may arrive in one event, between two, or while a
handler is at work. `MaxHandlers` bounds the threads at work on one connection: two for
the `epoll` programs. It is one for `thread_server`, whose `main` starts another thread
in every turn of the loop until the first has received (`select` returns at once), and
where a further thread does what the first does.

The constants `Tasks`, `Conns` and `Rounds` are the only bounds put on the programs
(how many tasks are added, connections exist at once, iterations a client makes), with
`NumClients`, `Text`, `Requests` and `MaxHandlers` in the servers; every counter in the
checked models is bounded by the code itself.  Symmetry of tasks is used where only
safety is checked.

*Deadlock* is checked in the runs on the pools, which can stop nowhere but in
`Released`.  The servers' runs do without: a server whose clients have all left waits
for ever.

## 4. Fairness

* `ThreadPool!FairSpec`: strong fairness of the manager, of each worker outside its
  task and of each caller inside a call; weak fairness of thread creation.  Strong,
  because these threads wait for a mutex that others keep taking and releasing, and
  the system's mutex does not starve a thread for ever; a thread that holds the
  mutex releases it after a bounded number of its own steps.  `sleep(3)` ends.
* `FairTaskSpec` adds that task functions return, as `taskFunc` does after a second.
  `BacklogGrows` and `IdlePoolShrinks` do without it.
* `ConnectionPool!FairSpec`: every thread that can run runs, `wait_for` times out,
  clients finish an iteration, the recycler wakes up every second, time passes.
* `PoolServer!ServerFairness`: the same of the pool's threads; `accept` returns once a
  connection waits, and a task function returns once its client has left.
* `FramedServer!Fairness`: `main` accepts, each thread goes on whenever its `recv`
  would not block.  `EventServers!Fairness`: the same of `main` and of each handler,
  as long as the process lives.  Both weak, since nothing but a step of the thread
  itself disables one that can run, or it does not matter which of them runs.
* `PollServer!Spec`: weak fairness of its only thread, which goes on whenever `poll` or
  `accept` would return.  `SemaphoreNodes` and `ConditionNodes` assume no fairness.
* A client need not connect, send, or leave, and no connection is obliged to break.
* Nobody is obliged to call a pool, and no spurious wake-up is obliged to happen.

## 5. What is proved

`ThreadPoolProofs` proves, for every number of callers, tasks, workers and cells,
assuming only `PoolAssumption` (`minNum <= maxNum`, a ring of at least one cell,
finitely many callers, `NoTask` not a task):

| Theorem | States |
|---|---|
| `TypeCorrect` | `TypeOK`: among the rest, the ring's indices stay in the array, `exitNum` between 0 and 2 |
| `Mutex` | at most one thread is at a place where it holds `mutexPool`, and then the mutex is locked |
| `LiveNumCorrect` | `LiveNumExact` |
| `BusyNumCorrect` | `BusyNumExact` |
| `NoLostRoom` | `WakeupPerRoom`, in every pool |
| `NoLostTask` | `WakeupPerTask`, in every pool with `minNum = maxNum` |
| `PoolImplementsTaskPool` | `Spec => ImplementsTaskPool`, the refinement of `TaskPool` |
| `TasksCorrect` | `HoldInv` and `OnceInv`: each task is in one place, so that its argument is freed once |

The argument is in layers, each an inductive invariant that uses those below it:

1. `TypeInv` = `TypeOK` with `RingInv` (the rear is `queueSize` cells after the
   front, and the queued cells hold tasks), `TaskInv` (a worker inside a task has
   one) and `CargInv` (a blocked caller carries one).  `TypeOK` alone is not
   inductive: that a worker executes a task and not stale memory, hence
   `finished \subseteq Tasks`, needs the ring's shape.
2. `MutexInv`: who is between its test and its wait is alone, and what it tested
   still holds, since only `shutdown` changes without the mutex.
3. `CountInv` = `LiveNumExact`, `BusyNumExact`, `CreateInv` (the manager starts
   nobody while the creating thread is still starting the first `minNum` workers,
   or both might use one cell) and `QuitInv` (workers quit only at shutdown).  A
   decision made with an old copy of `liveNum` is harmless because the scan and the
   retiring worker test `liveNum` again under the mutex.
4. `NoLostRoom` needs layers 1 and 2: only taking a task frees a cell, it signals,
   and a caller about to sleep holds the mutex with the ring still full.
5. `NoLostTask` adds `FixedInv`: with `minNum = maxNum` the manager never acts, so
   `exitNum` stays 0 and no worker retires.  Without that hypothesis the property is
   false; section 6 has the counterexample.
6. `PoolImplementsTaskPool` adds `HoldInv` (a worker has a task from the take to the end
   of its function, a caller while it is blocked) and `OnceInv` (the cells of the ring
   between front and rear, the workers, the blocked callers and `finished` hold
   pairwise different tasks; a cell that was taken keeps its task and does not count).
   `TakeFromRing` and `PushIntoRing` show that the ring, read from `queueFront` on, is a
   queue: a take is `Tail` and a push `Append`, wherever the indices wrap round.
   `PromiseStep` then maps each step to one of `TaskPool` or to none.

The cardinalities are handled by `CountStep`, `CountsSame` and `CountGrows`, the
signals by `NotEmptySignalled` and `NotFullSignalled`, the ring's arithmetic by
`TakeKeepsRing` and `PushKeepsRing`.

### The C++ pool

| Theorem | States |
|---|---|
| `CppTypesCorrect` | `TypeOK` |
| `CppLiveNumCorrect` | `LiveNumExact` |
| `TaskForEachWorker` | `NoNullTask` |
| `CppImplementsTaskPool` | `Spec => ImplementsTaskPool` |

Assumed: `PoolAssumption` of `ThreadPoolCpp`, like the C pool's, with finitely many
tasks and no ring.  The layers are those of the C pool where the code is the same
(`TypeInv`, `CountInv`).  `MutexInv` says what the two mutexes give: a worker that has
seen a task keeps `mutexPool` until it takes it, only such a worker removes tasks, and a
push that is under way ends with a task in the queue.  So, whatever the unprotected read
of the size returned, `takeTask` waits for the push and finds a task (`TaskInv`, hence
`NoNullTask`).  For the refinement `OnceInv` keeps each task in one place; it also gives
the capacity of `TaskPool`, which is here the number of tasks there are: a queue of
different tasks is no longer than that.

### The connection pool

| Theorem | States |
|---|---|
| `ConnectionTypesCorrect` | `TypeOK` |
| `UseCorrect` | `ExclusiveUse` |
| `OrderCorrect` | `HeadIdleLongest` |
| `ProducerCorrect` | `ProducerAwake` |
| `BoundCorrect` | `PoolBounded` |

Assumed: `ConnectionAssumption` (`1 <= minSize <= maxSize`, finitely many clients).  One
inductive invariant, `Inv`: the types, `UseInv` (what is queued and what is held is
different and is everything that is live), `RoundInv`, `HeadIdleLongest` (a returned
connection is stamped anew and goes to the end, and time passes for all of them alike),
and `ProducerAwake` (the producer sleeps only with `minSize` queued, every take notifies
it, and the recycler stops at `minSize`).  `BoundCorrect` counts: the queue and the
clients' hands cover `live` (`PoolCount`), and with `maxSize` so large the producer opens
a connection only while fewer than `minSize` are queued.

### The servers

| Module | Theorem | States |
|---|---|---|
| `PoolServerProofs` | `ServerUsesPool` | every behaviour of the server is one of the pool |
| | `ServerTypeCorrect` | `ServerTypeOK` |
| | `OrderOfClients` | `TakenInOrder` |
| | `AcceptorCorrect` | `AcceptorSleepsOnFull` |
| `FramedServerProofs` | `SlotsCorrect` | `SlotPerClient` |
| | `FramedTypesCorrect` | `TypeOK` |
| | `MessagesCorrect` | `WholeMessages` |
| | `DecodeEncode` | `Decode(Encode(n)) = n` |
| | `ServerImplementsChannels` | `Spec => ImplementsChannels`, the refinement of `MessageChannels` |
| `EventServersProofs` | `EventTypesCorrect` | `TypeOK` |
| | `WatchCorrect` | `WatchExact` |
| | `ClosesCorrect` | `ClosesOnlyLeft` |
| | `AcceptsCorrect` | `AcceptNeverBlocks` |
| | `EdgesCorrect` | `NoEdgeLost` |

*The composition.*  Each action of `PoolServer` is an action of `ThreadPool` joined with
a step of the server, or leaves the pool alone (`ServerStep`), and `ServerInit` sets up
the pool (`ServerAssumption` includes `PoolAssumption`).  Hence `ServerSpec => Spec`, and
each theorem of `ThreadPoolProofs` holds of the pool inside the server: its ring, its
counters and its wake-ups of the blocked acceptor need no second proof.

*The order of the clients.*  `LineInv` says that the clients nobody serves yet stand in
a line: those in the ring, oldest first, then the one in the hands of `acceptConn` (in
`pinfo` or in the blocked `threadPoolAdd`, never in both), then the backlog; the numbers
grow along the line, and the clients that have connected are the first ones.  Each step
moves somebody from the head of one part to the end of the next, and a take removes the
head.  It uses the pool's `PoolInv`, through `ServerUsesPool`, and that the server never
shuts its pool down.

*The acceptor.*  `acceptConn` is a task of the pool that it adds to, and blocks in it.
`AcceptorSleepsOnFull` says that it sleeps only while the ring is full, that a worker
executes it then, and that `main`, which hands it over, never blocks.  The first part
is `NoLostRoom`, carried over by `ServerUsesPool`: the acceptor is the only caller, so a
woken caller and a sleeping one cannot both be.  The rest is `AcceptorInv`: the pool
forgets no task (`KnownGrows`, from `OnceInv`), hence `acceptConn`, once known to the
pool, is not given to it again, and until then the ring is empty and `main` finds room;
and whoever has a client in `pinfo` or is inside `threadPoolAdd` is inside that task.

*The table.*  `SlotPerClient` says that nobody shares a slot until more clients were
accepted than there are slots.  `TableInv` is what makes that inductive: the types
(`TableType`), a backlog of clients that were not accepted and occur in it once
(`BacklogInv`), a descriptor belongs to at most one client (`OwnerInv`), and each taken
slot is somebody's (`SlotInv`).  When `main` finds no slot free, the accepted clients
therefore cover the slots, and with the new one they are more (`FullTable`).  Assumed
(`FramedAssumption`): finitely many clients, a table of at least one slot, a radix of at
least two, and messages that are not empty and whose length fits the header.

*The streams.*  `WholeMessages` speaks of what was received, and says nothing of the
bytes in between, so it is not inductive.  `FramedInv` is, and has four parts.

1. `TableInv`, above: it needs nothing of the streams.
2. `StreamType`: the types, that `readn` has read less than it was asked for while it
   goes on, and that a frame half written is one of the client's messages.
3. `DescriptorInv`: a thread that has its slot to itself uses the descriptor in that
   slot, which is its own client's, and no other thread uses or is about to use it.
   Hence nobody else takes bytes from its stream or closes its number, whatever the
   threads that share another slot close twice.
4. `StreamInv`, for every client whose thread, if there is one, has a slot of its own:
   what was received are the first messages of its text, and what was received, what
   `readn` has read, what is on its way and what `writen` still has to write are,
   one behind the other, the frames of the first messages (`InStep`), until the end of
   the stream has come (`Over`).  `Reading` is the heart of it: `readn` of `HEADER` bytes
   cannot reach beyond the header and `readn` of the decoded length not beyond the
   body, because the frames are where `InStep` says, and `DecodeEncode` says that the
   length is the one `sendMsg` wrote.

A length cut short decodes to something else, and the thread then waits for a body that
does not come; `Over` is why that does no harm.  The recursive functions (`Place`,
`Worth`, and `Wires`, the frames of the first messages) are known by their equations
(`Recursion`), and what holds of all their values by a least counterexample
(`IntervalInduction`): numbers are in the prover's reach, data are not.

*The refinement.*  `ChannelsStep` maps each step.  `FramedInv` before and after gives
that the one message a `recv` appends is the next of the text and was written
completely; what clients share a slot never becomes less.

*The event loops.*  Assumed (`EventAssumption`): finitely many clients, and room for at
least one handler on a connection.

1. `TypeInv` and `OwnerInv`: a descriptor is owned by one client at a time, so `accept`
   finds a free one (`DescriptorFree`), and no more is received than was sent.
2. `AloneInv`, for the programs without threads: at most one handler is at work
   (`Single`); the one at work has a descriptor that is open (`AtWorkInv`); and the
   watched set is what is open, but for the descriptor in the hands of that handler
   (`WatchInv`).  `WatchExact` is the case in which no handler is at work.  A descriptor
   is closed only by the handler that found its client gone, hence `ClosesOnlyLeft`.
3. `AcceptInv` counts: the handlers on their way to `accept`, those dispatched and the
   event not yet reported are together no more than the connections that wait.  It
   covers `thread_epoll_server`, where several threads accept; `thread_server` starts a
   thread per turn of its loop and is excluded by the property.
4. `NoEdgeLost`, in the two programs on `epoll`: whatever waits on a watched descriptor
   has an edge that is not reported, or reported and not dispatched, or a handler that
   will still look at it or close it (`Minded`).  It is the safety core of
   `RequestsReceived` and `LeftIsClosed`, where an edge that fell between two events
   would be one that never comes again.  It holds at all times, in `thread_epoll_server`
   too, where threads take each other's requests and may close a number twice, the
   second time as the next client's (section 6).  One thing is excepted: a connection
   that a handler has been told is broken stays open, watched and without an edge, as
   the code leaves it.  `EdgeInv` adds that `main` waits only with nothing left to
   dispatch (`EmptyInv`), and that what `epoll` watches is open (`OpenInv`), so that a
   number given out again is not watched before it is added.

### The exercises

`NodesCorrect` proves of `SemaphoreNodes` that a consumer past `csem` has a node of its
own, that the list stays within `psem`'s initial value, and that somebody can always go
on.  The inductive invariant is two balances: nodes = `csem` + consumers in front of
their critical section + producers about to post (`NodesInv`), and `psem` + nodes +
whoever holds a place = capacity (`PlacesInv`); `Moves` says how the numbers of threads
at a place change with one step.  Assumed: `NodesAssumption`, finitely many threads and
a capacity of at least one.  `ConditionCorrect` proves of `ConditionNodes` that no
consumer sleeps beside a node unless a broadcast is still to come, although it comes
after the unlock, and that none takes a node from an empty list.

### Only model-checked

Liveness, which is outside the prover's reach under fairness.  Every safety property
that a run finds to hold is also proved, for every value of the constants.  `HoldInv`,
`OnceInv`, `AcceptorSleepsOnFull` and `ImplementsChannels` are the other way round: they
are proved and no run has them.

## 6. Findings

1. **Stolen wake-up** (`threadPool.c:190`, run `pool_stolen_wakeup`). A woken worker
   looks at `exitNum` before it looks at the ring. A request for two exits that found
   fewer sleepers stays pending; the next `threadPoolAdd` wakes one worker for its task,
   the worker retires, and the task waits while another worker sleeps, for ever if
   nothing else is added. In the server, whose pool has 3 to 8 workers, the task is a
   client: more clients waiting than workers make the pool grow, and when they have left
   the manager asks for two exits. If nobody is asleep to notice, the worker woken for
   the next client may retire, and that client stays in the ring, unanswered, and
   unclosed after it has left, until something else wakes a worker. That what was
   accepted is closed in the end is therefore a property of pools of fixed size only,
   `EveryTaskFinishes` of `pool_fixed`.
2. **Destroying misses a sleeper** (`threadPool.c:112`, run `pool_destroy_signals`).
   `shutdown` and the signals come without the mutex, so they fit between a
   worker's test and its wait; the worker then sleeps on a condition variable that
   is destroyed.
3. **Missed signal in the C++ pool** (`ThreadPool.cpp:88`, run `cpp_missed_signal`).
   The same gap, for every task: push and signal fit between a worker's test and its
   wait.  One worker and one task are enough.  `AwakeDrains` bounds the damage: a
   task is left only while every worker sleeps.
4. **Runaway producer** (`ConnectionPool.cpp:71`, run `connections_runaway`).  The
   producer sleeps while the queue holds between `minSize` and `maxSize`
   connections.  When returned connections push it above `maxSize` the producer
   opens connections without end, and the recycler, which needs fewer than
   `maxSize`, closes none.
5. **A deaf server** (`poll_server.c:36`, run `poll_deaf`).  All cells of `fds` are set
   to -1 and the listening socket is stored in none, so `poll` waits for nothing,
   without a timeout, and no client is ever accepted.

Smaller things seen while reading or checking, without a run of their own:

* `threadPool.c`: the comment at :38 says `shutdown` is set to 1, the code sets -1
  (:107), and every test is of zero or non-zero; the failure exit of
  `threadPoolCreate` reads `taskQ` before it may have been assigned (:95); a caller
  blocked on `notFull` is not woken by `threadPoolDestroy` (:138).
* `multi_thread/server.c`: the pool grows only when more tasks wait than workers live,
  so a few clients wait for others to leave although `maxNum` would allow workers.
* `SocketPackage/server.c`: a conversation that ends with a length of 0 leaves the
  descriptor open; `client.c` ends early when `rand() % 1000` is 0.
* `epoll_server.c` and `thread_epoll_server.c` accept one connection per edge, so of two
  that arrive together one waits for a third.
* `ConnectionPool.cpp:89`: with exactly `maxSize` connections in the queue the recycler's
  loop does not run and the producer sleeps, so they stay open however long they are
  idle, although `ConnectionPool.h:41` says that such connections are released.
  `SurplusRecycled` holds as long as the queue stays below `maxSize`.
* `poll_client.c:20` connects to port 9999, while `poll_server.c:18` listens on 5555.
* `thread_server.c`: `main` may copy the set before a thread has added the new
  descriptor, which is then not read until something else happens.
* The threaded event servers may close a number twice, and the second close may hit
  the connection that was given the number in between.
* `read_write_lock.c:9` says writers have priority; the lock has default attributes,
  which prefer readers.

## 7. What is not modelled

* The failure exits of the constructors, the set-up calls of the servers and an `accept`
  that fails (but for `acceptConn`), and the ignored results of `pthread_create` and
  `connect`; the getters, which change nothing.
* What threads do after the pool's memory is released, and the destructor of the
  static connection pool at the exit of the process.
* A `dbconf.json` that does not parse, and a `minSize` of 0.
* A length that reads as negative in `recvMsg`, and the close in `sendMsg`, after which
  the socket is one nobody reads.
* What `poll_server.c` does with requests, which is never reached.
* In the server on the pool, a `send` on a broken connection (`server.c:108`), which may
  end the process by SIGPIPE, and a `recv` that fails, which ends the task like the end
  of the connection.
* The cursor of `MysqlConn` (`query`, `next`, `value`): sequential calls of the MySQL
  library, in an order that the only caller (`main.cpp`) keeps.
* `read_write_lock.c` and `counter.c`: one variable under one lock, each access a
  critical section; nothing but the lock itself could go wrong.
* The single-connection server and client, the clients' input and output, and the
  library exercises, which are sequential I/O.

## 8. Plan

Done: the C pool; the C++ pool and the connection pool; the framing with its server;
the server on the pool; the servers on `select`, `poll` and `epoll`; the exercises on
semaphores and the condition variable; the proofs of the safety properties and of the
three refinements.  What is left:

1. *A `pthread_create` that fails*: an extension of `ThreadPool` in which the manager
   starts nobody and counts him, and what is then left of `LiveNumExact`.
2. *Larger instances* of `event_servers`: a third client, with two that share a number.
