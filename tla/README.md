# socket_message: specifications, model checking and proofs

`socket_message` is a chat system: a Linux server in C++ (`src/socket_message_server`) that logs
users in, stores messages in MySql and relays them to whoever is online, and a client SDK
(`src/socket_message_client/socket_message_sdk`) with a terminal client and an Android wrapper.
Server and SDK speak a binary protocol over TCP. This directory holds TLA+ specifications of it,
the TLC configurations that check them, and TLAPS proofs. There are no tests in the repository, so
everything below is translated from the source; comments of the source are quoted where a property
states what a comment says.

Paths like `SocketControl.cpp:254` are in `src/socket_message_server` unless "SDK" is said.
`PROJECT.json` maps every definition to the lines it translates.

## 1. The system

### Components, state, operations

| Component | State | Operations |
|---|---|---|
| `ThreadPool` | task queue, `m_IsDestory`, counter of idle threads, mutex, condition variable | `AddTask`, `Work` of each thread, destructor |
| `EPoll` | the kernel's registrations and ready list | `Add`, `Change`, `Delete`, `Wait` |
| `ServerSocket` | listening descriptor | `Init`, `Accept` until nobody is left |
| `ClientSocket` | descriptor, read and write buffer, `m_CfdIsRead`, `m_CfdIsWrite`, `m_IsWriteing` | `Recv`, `Write`, `Send`, destructor closes |
| `SocketControl` | map descriptor → `ClientSocket*`, counters | epoll loop, tasks for accept / read / write, `SendPackage`, `ClientSocketCloseAndDelete` |
| `SocketHead` | – | a package is its length (int) and its data |
| `DataHandler` | `m_OnlineUserMap` user → descriptor, thread pool | login, list of messages, message; `ClientSocketState` |
| `MySqlPool` | vector of idle connections | `Pop` (waits), `Push` |
| `DBUser`, `DBGroup`, `DBMsg`, `MySql` | the tables | queries and one INSERT |
| `DataType` | – | `Serialize`, `UnSerialize` of what is in a package |
| `MainControl`, `Main` | the other objects, `m_IsDestory` | wiring, monitor thread, destruction |
| `MemoryMgr`, `MemoryPool` | free lists of blocks of 8 ... 2048 bytes | `AllocMemory`, `FreeMemory` |
| SDK `Select`, `SocketControl`, `ClientSocket` | map of connections, the sets of `select()` | `ConnectServerSocket`, `SendPackage`, `Work`, `Remove` |
| SDK `SocketMessageSdkInterface` | `m_SelfUserId` | requests to the server, dispatch of packages, callbacks to the program, destructor |
| `Logger` | the one instance, lines to be written, `m_IsDestory`, mutex, condition variable | `GetInstance`, `Log`, `ThreadWork`, destruction at the exit |
| `Utils`, `CharsetUtils`, terminal client, Android client | – | input, output, conversions |

### How they interact

- `SocketControl` owns a `ThreadPool`. One of its threads runs `EpollWork` as a task that never
  ends; it turns each event into another task of the same pool.
- A package that has been read goes through `m_ReadPackageCallback` to `DataHandler::AddData`,
  which is `AddTask` of a second `ThreadPool`. Its threads use MySql and answer through
  `m_SendPackageCallback`, which is `SocketControl::SendPackage`: again a task of the first pool,
  with the descriptor as the only name of the connection.
- Opening and closing of connections is told to `DataHandler::ClientSocketState`, by descriptor.
- The monitor thread reads both and clears the counters once a second.
- In the SDK, the program's thread connects and sends; the thread of `Select` reads, sends what is
  left over, removes and calls back. They share the map of connections without a lock. Deleting the SDK
  sets a flag and joins that thread.
- Any thread of the server may log; the first call makes the `Logger` and its thread, and a static object
  deletes it when the process exits. (Today the only calls are the errors of `EPoll` and `ServerSocket`
  at the start.)

### What is hard

Descriptors are reused at once, and raw pointers and descriptors are kept across threads. epoll is
edge triggered and the registrations are switched on and off around every task. What to send is
buffered, and whether something is left is remembered in two flags under two locks. Logins, closes
and messages race on `m_OnlineUserMap`. The destructors run while threads work. `select()` waits for
a set of connections that is older than the map. The full list, with the line where each one bites
and the properties that cover it, is `hazards` in `PROJECT.json` (40 entries).

### What makes each part correct

- **ThreadPool**: every task that is added before the last thread has left is run once, in the order
  added, no wakeup is lost, the counter is exact.
- **SocketControl**: one reader per connection, no connection without one, flags equal to
  registrations, one owner who deletes, nothing taken by `Write` forgotten, data and connects served.
- **Framing**: the stream of bytes is the sequence of packages.
- **DataHandler**: no message missed between list and relay, MySql connections neither lost nor
  shared, the map names the user's own connection.
- **DataType**: what is unserialized is what was serialized, and the other end's test of size and type
  lets it pass.
- **MainControl**: what is called exists, the shutdown ends, requests in the queue are handled.
- **MemoryPool**: blocks are neither lost nor shared, and are large enough.
- **Client**: nothing left to send is forgotten, a close is told by whoever looked it up, who is connected is served, and
  deleting the SDK returns.
- **Logger**: there is one, and every line is written, in order, before the process ends.

## 2. Plan

Order of the modules, by how much depends on them:

1. `TaskPool` ← `ThreadPool` (refinement), `ThreadPoolProofs`. *Done.*
2. `EPoll` + `SocketControl`: connections. *Done.*
3. `PackageChannel` ← `PackageStream` (refinement): bytes. *Done.*
4. `DataHandler`: the service, with the clients of the SDK. *Done.*
5. `ClientSelect`: the SDK's threads. *Done.*
6. `DataType`, `MainControl`, `MemoryPool`. *Done.*
7. `Logger` (refinement of `TaskPool`), deleting a `SocketMessageSdk`. *Done.*
8. Proofs, in this order:
   - `SocketControlProofs`: `RegMatchesFlags`, `SingleReader`, `OneOwner`, `NeverUnattended` and their common inductive
     invariant (which task holds which right to which connection). *Done.*
   - `MainControlProofs`: `CalleesAlive`. *Done.*
   - `MemoryPoolProofs`: `BlocksExact` and `FitsRequest`. *Done.*
   - `DataHandlerProofs`: `PoolExact`. *Done.*
   - `ClientSelectProofs`: `NoLostWrite`, `ToldOnce`. *Done.*
   - `SocketControlProofs`: `NoLostWrite`, from the same invariant and who holds `m_MutexWrite`;
     then `TypeOK`, `NoUseAfterFree`, `OnlineExact`. *Done.*
   - `LoggerProofs`: `OneLogger`, `AllWritten`, the refinement. *Done.*
   - `MainControlProofs`: `TypeOK`, which counts what the monitor prints. *Done.*
   - `DataHandlerProofs`: `TypeOK`, and `NoMessageMissed`, which needs to know where every row is for
     every user. *Done.*
   - `PackageProofs`: `StreamIntact`, `NeverCutOff` and the refinement of `PackageChannel`, from
     what the loops compute. *Done.*
   - `PackageProofs`: `ListsArrive` and `TextArrives` of `DataType`, from what the codec computes. *Done.*
9. Extensions: a program that connects again from its callback; a client that asks with a `LastMsgId`
   after it has lost its connection. *Open.*

Composition: `SocketControl` EXTENDS `EPoll`; `ThreadPool` and `Logger` INSTANCE
`TaskPool`, `PackageStream` INSTANCEs `PackageChannel`, their abstract specifications. The larger compositions rest on assumptions that another module establishes,
each named in the header of the module that uses it: `SocketControl` and `DataHandler` start tasks in
the order they were added (`ThreadPool` implements `TaskPool`), `DataHandler` gets requests of a
connection in order and before its close (`SocketControl`'s `SingleReader`) and packages whole
(`PackageStream` implements `PackageChannel`), and `PackageStream` assumes that whoever can send or
receive is made to (`ReadServed`, `WriteServed`). One module for everything would have no instance
small enough to check.

## 3. The modules

Variables keep the names of the source where there is one (`m_ClientFdMap`, `m_IsWriteing`, ...).
A step is what happens under one lock, one system call, or one access without a lock. In each module
some definitions are marked "Mutant": each is a plausible bug in the definition that follows it, and
makes a property fail; no other definition refers to them.

**A use of something deleted** is undefined behaviour, with no outcomes to enumerate. In
`SocketControl`, `MainControl` and `ClientSelect` such a step is not taken (being alive is part of its
guard), and `Dangling` says that a thread has come to that point. The safety properties therefore say
what holds up to there, and the liveness properties end there (`... \/ Dangling`). Where the code
never comes there is stated as a property of its own: `NoUseAfterFree`, `CalleesAlive`.

### `TaskPool`, `ThreadPool` (ThreadPool.cpp)

`pc[w]` is the place of a thread in `Work()`. Testing the predicate of the wait and falling asleep are
two steps ("tested", holding `m_Mutex`, then "asleep"), because the destructor sets `m_IsDestory`
without the lock. `AddTask` comes from another thread until the destructor has returned, as
`SocketControl`'s threads call `AddData` while `~MainControl` deletes `DataHandler` (`MainControl.cpp:65`),
and from a running task (`AddTaskFromTask`), as the tasks of `SocketControl` do. `tooLate` are the tasks
that were added when every thread had left `Work()`: `AddTask` does not look at `m_IsDestory`, and nobody
will ever run them. Spurious wakeups are steps.
`TaskPool` is the promise: a FIFO of tasks that are started in order and all end, until the pool closes,
which it does only with nothing left to do; what is added to a closed pool is stranded.

### `EPoll`, `SocketControl` (SocketControl.cpp, ClientSocket.cpp, ServerSocket.cpp, EPoll.cpp)

`Conns` are the `ClientSocket` objects (an object is never allocated twice; `Fds` are reused, lowest
first). `at[w]`, `job[w]`, `cs[w]` are the place, task and pointer of each thread of the pool; one
further thread runs `EpollWork`. `reg` and `ready` are the kernel's side of epoll: an entry comes into
the ready list when the socket becomes ready or when ADD or MOD find it ready, and leaves it when
reported. An `epoll_ctl` that fails changes nothing, as the code drops the error.

| Code | Actions |
|---|---|
| `EPoll::Wait`, `Epoll4EventCallback` | `EpollWait`, `EventListen`, `EventRead`, `EventWrite` |
| accept task, `Server4ClientConnectCallback` | `Accept`, `Announce`, `Watch`, `AcceptNone`, `Relisten` |
| read task, `ClientSocket::Recv` | `RecvData`, `RecvClose`, `RecvNone`, `Rewatch` |
| write task, `ClientSocket::Send`, `Client4WriteCallback` | `Send`, `SendFails`, `Tell`, `Rewrite` |
| `SendPackage` and its task, `ClientSocket::Write` | `SendPackage`, `SubmitPackage`, `Lookup`, `AppendPackage` |
| `ClientSocketCloseAndDelete` | `Erase`, `Unwatch`, `Farewell`, `Delete` |

Bytes are left out: arriving data is a flag, outgoing data a number of packages. Withdrawing an
interest and adding the task are one step (no other step can tell them apart, see the module).

### `PackageChannel`, `PackageStream` (SocketHead, buffers of ClientSocket)

One direction of a connection, in bytes, for server and SDK alike: `Write` frames and appends,
`Send(count)` and `Recv(count)` move any number of bytes the kernel could, and `Parse` is the loop of
`Client4ReadCallback` as a recursive function. The length of a package is really written and read as
bytes, so a reader that loses its place reads a wrong length. Sizes are any that an int of the head counts
(`MaxCounted`); the data of the `n`-th package are bytes `n % 256`. `PackageChannel` is the promise.

### `DataHandler` (DataHandler.cpp, MySqlPool.cpp, DB*.cpp, SDK SocketMessageSdkInterface.cpp)

Each thread of the pool goes through the handler of its request: `Pop` a MySql, `Authenticate`,
`ClientOpen` (the entry in `m_OnlineUserMap`), `SendUserList`, `SendGroupList`, `Push`; or `Select`,
`SendDataMsgList`; or `Save`, `Push`, then `Lookup` and `Relay` per receiver. Clients connect, log
in, ask for their messages when the group list comes (as Main.cpp of the client does), send and leave.
`wants` are the requests for a list that a client has made and the server has not read: whose list is
decided when the group list comes (`SendGetDataMsgList` of the SDK takes `m_SelfUserId` there), not when the
request arrives. `sock` is the connection as `SocketControl` shows it: "left" is between the removal from the map of
descriptors and the notice to `DataHandler`. `out` is the queue of write tasks. The time a package
takes through the client is merged into `WritePackage`; the requests it causes take their own time.
The tables are relations; an INSERT may fail, a password may be wrong.

`NoMessageMissed` speaks of a client that has got the list of the user it is logged in as. With more than
one thread of `SocketControl` (the server has 8) not every client gets it: the three answers to a login are
three write tasks, and if the group list is written first, `SendGetDataMsgList` refuses because `m_SelfUserId`
is still 0 (or, after a second login on the same connection, asks as the user before), and nobody asks again.

### `ClientSelect` (SDK Select.cpp, SocketControl.cpp, ClientSocket.cpp)

`work` is the place of the thread of `Select`, `does[t]` the place of either thread in `SendPackage`
and `Remove`. A shared pointer that a thread holds keeps an object alive. Nothing locks the map, so each of
its operations is a step: `count()` and `at()` of `GetClientSocket` (`SendPackage`, `GetClientSocket`), and
`count()`, `at()`, `erase()` and the callback of `Remove` (`Remove`, `LookUp`, `Erase`, `Tell`). An iterator
whose element is gone, and an `at()` that finds none, are `Dangling`. `met` remembers the connections
that both threads had looked up before either erased them.

One turn of `Work()` is the test of `m_IsDestory` (`Enter`, line 73), the filling of the sets (`FillSets`),
and the call of `select()` (`Watch`, or `WatchFails` with EBADF when a descriptor has been closed
meanwhile). `watchR`, `watchW` are what `select()` waits for: by then a descriptor that was closed
and given to a new connection is that one's (`Holding`). `sdk` is how far deleting the SDK has come: `DeleteSdk` (the object leaves
`s_ManageMap`, the callbacks go), `SetDestroyFlag`, and `JoinWork`, which waits for `LeaveWork`. The
program deletes it on its own thread, as a thread cannot join itself.

### `DataType` (DataType.h)

`Serialize` and `UnSerialize` of everything that is sent, in either direction, as operators on sequences
of bytes: the requests, the answer to a login, lists of users, groups and messages, single messages. `value`
is what is sent, `serialized` the package, `result` what the receiver has made of it. The memory of a thing
whose bytes nobody looks at is copied as a whole (`Memory`, and `Packed` for the users of a list); the
loops over elements of different lengths are recursive functions; a count is read through a char with a sign, as in the code.
`Dispatch` is the test by which `DataHandler::ThreadWork` and the SDK's reader drop a package whose
`DataSize` is not its length or whose type they do not know. Reading behind the end gives `Garbage`.

### `Logger` (Logger.hpp)

`caller[c]` is the place of a thread in `LOGE`: the test of `s_pInstance` without the lock, the second one
under it, then `Log`. `writer` is the place of the Logger's thread; testing the predicate and falling
asleep are two steps, as in `ThreadPool`. All lines are moved out at once and written one by one, so lines
come in between two that are written. `exit` is the destruction by the static `LoggerDestory`. Seen from
outside it is `TaskPool` with a line for a task, `tempLogVector` followed by `m_LogVector` for the queue.

### `MainControl` (MainControl.cpp, Main.cpp)

Both pools at once, with `Work()` as in `ThreadPool`: a thread takes the oldest task, leaves when the pool
ends and its queue is empty, and else goes to sleep in two steps, testing the predicate under the mutex of
the pool and sleeping, between which the flag can be set and the notification missed (`ThreadPool.cpp:20-21`).
`main` is how far `~MainControl` has come, one place per step: `~DataHandler` sets the flag of its pool, notifies
(`NotifyHandler`) and joins (`JoinHandler`); `~SocketControl` deletes the connections (`DeleteClients`), then
epoll (`DeleteEPoll`), and only then ends its own pool (`EndSockets`, `NotifySockets`, `JoinSockets`), whose
threads run meanwhile.

### `MemoryPool` (MemoryPool.cpp, MemoryMgr.cpp)

Blocks with their heads (`Next`, `Pool`, `IsBlock`), one free list per size, a mutex per pool, malloc
behind them. Popping and pushing are two steps each, so that the mutex is what protects them.
`AllocMemory` of the manager takes an int where `operator new` has a `size_t`: `ToInt` is that conversion, of
a width that is a parameter, and a size whose int is negative gets the smallest block there is
(`PoolOf`). `FitsRequest` speaks of the sizes that an int can hold.

## 4. The runs

| Run | Instance | Shows |
|---|---|---|
| `pool` | 3 threads, 3 tasks, destructor at any moment | `TaskOnce`, `JoinedMeansDrained`, `AvailableIsIdle`; implements `TaskPool` with its fairness (no lost wakeup); `DestructorReturns` |
| `conn_full` | 2 connections, 2 descriptors, 2 threads, 3 packages, buffers for 2, kernel for 1 | `NoUseAfterFree`, `OnlineExact`, `SingleReader`, `NeverUnattended`, `RegMatchesFlags`, `OneOwner`, `NoLostWrite` |
| `conn_live` | 2 connections on 1 descriptor, 2 packages, buffer for 1 | `TypeOK`, `ReadServed`, `ConnectServed`, `WriteServed` |
| `stream` | head of 2 bytes, buffers of 6 and 5, packages of 0 to 4 bytes, 4 calls | `StreamIntact`, `NeverCutOff`; implements `PackageChannel`; `Arrives` |
| `chat_msgs` | 2 clients, 2 users, 1 group, 2 threads, 2 that write, 1 MySql, one close | `TypeOK`, `NoMessageMissed`, `PoolExact` |
| `chat_stale` | 2 clients on 1 descriptor | `MapNamesUser` is **violated** |
| `client` | 2 connections, 2 packages from either thread, removals by both, SDK deleted at any moment | `NoLostWrite`, `ToldOnce`, `OnlyBrokenRemoved`, `WatchedIsServed`, `DestructorReturns` |
| `client_several` | 2 connections | `EveryServerIsServed` is **violated** |
| `codec` | every kind of package, lists of 0 to 300 users, 0 to 128 groups or messages, texts of 0 to 256 bytes | `ListsArrive`, `TextArrives` |
| `main` | 2 threads in each pool, 2 requests, shutdown at any moment | `TypeOK`, `CalleesAlive`, `RequestsHandled`, `ShutdownEnds` |
| `memory` | 2 pools of 2 and 1 blocks, 2 threads, sizes on the boundaries and one beyond the int | `BlocksExact`, `FitsRequest` |
| `logger` | 3 threads that log, 4 lines, exit at any moment | `OneLogger`, `AllWritten`, `WritesInOrder` (implements `TaskPool`), `ExitEnds` |

What the properties say is in the comment before each of them. Some deserve a word:

- `DestructorReturns` carries its condition: the destructor returns if no thread sits between the test
  and the sleep at some moment between lines 20 and 21. A thread that sits there during both misses
  `notify_all`, and the join does not return. That is the price of setting the flag without the lock.
- `NoUseAfterFree` and `OnlineExact` are stated for a server that has not sent yet. With a package in
  flight a writer's pointer can be deleted by the reader that sees the connection end, and a package
  may reach the next connection with the descriptor.
- `JoinedMeansDrained` says which tasks are run: those added before the last thread left. A request that
  `SocketControl` gives to `DataHandler` in the moment between that and the end of `~DataHandler` is lost.
- `DestructorReturns` of `ClientSelect` has a condition too: when the flag is set, the thread has still to come
  to its test of it. Past the test, filling the sets or inside `select()`, it waits, or is about to, for a
  server to say something, without a limit, and nothing wakes it.
- `ToldOnce` counts what the code does, which is not always once: `Remove` looks an element up and erases it
  without a lock, so the two threads may both have it, and then both call the callback (`met`). In
  every other case the callback is called exactly once, and never not at all while the SDK is in use. When one
  thread erases between the other's `count()` and `at()`, `at()` throws: that is `Dangling`.
- `OnlyBrokenRemoved` says when a connection that has *not* ended is removed: only on a descriptor that was
  before that of a connection which broke while packages were sent. A descriptor in `closeSocket` may be removed
  by `SendPackage` and used again before the loop comes to it.
- `ShutdownEnds` of `MainControl` excludes two things the code does: a thread that misses the notification of
  its pool (`NotificationMissed`; the join waits for it for ever), and a thread of `SocketControl` that comes to
  use what has been deleted (`Dangling`).
- `ExitEnds` of `Logger` is the same race as in `ThreadPool`: the destructor sets the flag without `s_Mutex`.
- `TypeOK` of `SocketControl` bounds the write buffer: several senders may have seen the same room, and it
  is `Write` that looks again. Its mutant drops that look. Where a type invariant says nothing of its own
  it is a conjunct of the invariant that needs it (`StreamIntact`, `BlocksExact`, `NoLostWrite` of
  `ClientSelect`), or is proved and not run (`ThreadPool`).
- `TypeOK` of `MainControl` bounds what the monitor prints by what has arrived: packages counted
  between reading and clearing are missed, never made up, once the counter has been cleared.
- `NoMessageMissed` holds because a client asks for its list after the group list, which is sent after
  the entry in the map: a message saved too late for the list finds the entry.

### The two disagreements

- `chat_stale`. `DataHandler.h:68` says that `UserId2Cfd` converts a user id into the descriptor of
  the client the user is at. `ClientOpen` (`DataHandler.cpp:172`) enters the descriptor of a login
  without asking whether the connection is still there. If the close has been announced before, the
  entry stays and the descriptor's next owner gets the user's messages.
- `client_several`. SDK `SocketControl.h:13` says that one can connect to several servers, and
  `SocketMessageSdkConfig.h:10` that `select` has a timeout of 100 ms. `Select.cpp:102` sets the
  timeout to -1 before the first call, so a connection made while `select()` waits is not watched
  until an older one wakes the thread.

More statements of the code's comments are not kept; no run is spent on them, as they are visible
in a line or their promise is not precise enough to check: a descriptor as the identity of a client
(`SocketControl.h:33`), the order of the three answers to a login (`DataHandler.cpp:149-152`; see
`NoMessageMissed` under `DataHandler`), the
write interest that comes back with an empty buffer (`ClientSocket.h:44`), `Extend` (`DataType.h:256`),
which `UnSerialize` reads one byte too late.

### Bounds, and why they are enough

Every bound is a CONSTANT or named in a guard. Two of each actor are what the hazards need: two
threads to race, two connections to reuse a descriptor, a third task or package so that a queue has a
middle. `WriteBufMax = 1, Window = 1` make the buffer and the kernel full at once; `conn_full`
has 2 and 1, so that they fill at different times. `Talkers` are the
connections on which the peer sends data; in `conn_live` the second one only comes and goes, which is what
it takes to reuse the descriptor. `MaxData = 1`: one arrival per connection, and the end
of the connection as a second event, which may come at every point of the first one's handling; a
third would find the connection in a state that one of these two has left. `MaxSends` 2 or 3: a
package that is being written while another one waits and a third one is refused. In `stream` a head of
2 bytes can be cut, a package of 4 fits the writer's buffer and not the reader's, and buffers hold one
or two packages; the real ones hold many of any size, which adds repetitions of the same loop (the
theorems have no such bounds). In
`chat_msgs` one message and one close: a message meets at most one login of its receiver, and a close
with a reused descriptor is the second event that can disturb it; one MySql for two threads, so that
one waits (that none does with enough of them is the last conjunct of `PoolExact`, and proved). In `codec` the counts of
users are on both sides of 127 and 255, where a char changes sign and wraps, those of groups and messages
on both sides of 127; the theorems about it have no such bounds. In `memory` an int counts to 31 (six bits), so that
a size beyond it can be written down. Symmetry is used only in runs without
liveness properties (threads, connections, MySqls, malloc's blocks are interchangeable).

`CHECK_DEADLOCK FALSE` is set where the system may stop: peers and programs need not do anything
more, and bounds end the counters. `memory` checks deadlock.

### Fairness, and why the code justifies it

Weak fairness of each thread's own steps: a thread that stays able to run is run by the scheduler, and
critical sections are short. A task of `ThreadPool` returns (`EndTask`): handlers have no unbounded
loop, and `EpollWork` is modelled apart. In `MainControl` `epoll_wait` returns after its timeout, which
`Config.h` sets. A peer in `SocketControl` that is still there reads what was sent to it (`PeerReads`);
without that nothing could leave the buffer. In `ClientSelect` servers owe nothing. The
`Logger`'s thread and the exit, once begun, run when they can. Nobody has to
connect, send, log, leave, delete the SDK, or end the server, and spurious wakeups need not happen. No strong fairness is
assumed.

## 5. Proofs

TLAPS proves the following for every value of the constants: any finite set of threads, any tasks,
users, groups, connections, buffers, blocks and numbers of requests. The bounds of the runs play no part, except that the
bounding guards (`MaxRequests` and the like) are guards for every value they may have.

### `ThreadPoolProofs`

The inductive invariant `Inv` has five parts; `TaskOnce` and `AvailableIsIdle` are checked by TLC too, in the
run `pool`, and the others are definitions of their own in `ThreadPool`.

- `TypeOK`, `TaskOnce` and `AvailableIsIdle` are what is to be proved. None of them is inductive alone.
- `HoldersHaveTasks`: a thread past `pop` has a task. Without it `EndTask` could finish something that
  was never added.
- `ShutdownOrder`: a thread has left only after the flag was set, and *if all have left, the queue holds
  exactly what was added since* (`tooLate`; before that, nothing is too late). Outsiders may add at any moment,
  the destructor or not, as `SocketControl`'s threads do to `DataHandler`'s pool. A running task's thread has not
  left, and the last thread to leave has seen the empty queue under the lock: so whatever was added
  before is run.

`PopFacts` and `PushFacts` say what `Head`, `Tail` and `Append` do to a queue without repetitions;
`IdleCount` says how the number of idle threads changes when one begins or ends a task, which is why
`Workers` has to be finite. `QuietStep`, `PushStep`, `TakeStep`, `EndStep` are one lemma for each way a
step can disturb the queue; `NextInv` sends every action to one of them. Theorems: `TypeCorrect`,
`RunOnce`, `CounterExact`, `NothingLeftBehind`, and `Refinement`: under the invariant every step of the
pool is a step of `TaskPool` (added, started in order, finished, closed with the last thread, added too
late) or invisible to it. What the closed pool still has in its queue is nothing that waits (`ToRun`). It is the safety part
of `ImplementsTaskPool`; its fairness stays with TLC.

### `MainControlProofs`

`CallsAreSafe == Spec => []CalleesAlive`. The property says that a thread at a call finds its callee alive;
nothing in it says why a thread does not *come to* such a place afterwards. `ThreadsLeaveFirst` does:
once `main()` is past a join, the threads it joined have left, and who has left takes up nothing. The proof
covers the order monitor, `DataHandler`, `SocketControl`. A thread of
`SocketControl` may still come to a `DataHandler` that is gone; that is a hazard in its own right
(`hazards`), and `CalleesAlive` does not speak of it. `WakeData` and `WakeSockets` say that a notification moves nobody
but those that sleep.

`TypeCorrect == Spec => []TypeOK`, of which one conjunct is no type: what the monitor prints adds up to at
most the requests that have arrived. `Counts` relates the printed sum, the counter and the threads that
have delivered and not yet counted to the requests `Delivered`. Between `ReadSockets` and `Clear` what has
been printed is in the counter as well, so the sum is bounded at every other place of the monitor only.
`Carries` is why a delivery makes `Delivered` larger by one: a request in a thread's hands is nobody else's.

### `DataHandlerProofs`

`PoolKept == SafeSpec => []PoolExact`. `PoolExact` speaks of `Cardinality`, which says nothing about a set
not known to be finite; `HasOneOrNone` says instead that a thread holds exactly a singleton or nothing
according to its place. `Disjoint` is the exclusion between vector and threads. `KnownRequests` is
needed because `Pop` leads into the handler of the request's type: a request of none would lose a MySql.
`PopStep` and `PushStep` treat the vector's two ends, `HandlerStep` every way through the handlers that
touches no MySql. That nobody waits if there are as many MySqls as threads is a counting argument
(`NobodyWaits`): with an empty vector, who holds a MySql is an injection from the MySqls into the threads
other than the waiting one.

`TypesKept == SafeSpec => []TypeOK`. `Typed` has a part for the clients, the connections, the threads and
what they share; a thread's `list` and `receivers` have a meaning only at some places, so their types are
stated by place (`ThreadTypes`). The one conjunct that is no type is that there are no more rows than
messages sent: `Counted` says that messages in the queue, threads that are to save one and rows together
are at most the calls.

`NothingMissed == SafeSpec => []NoMessageMissed`. While a user logs in on one connection only
(`~Relogin`; the property is about that case), the proof follows one client `c` and user `u`:

- `OnlyAt(u, P, G)`: whatever there is of `u` (the map, requests, those still with a client in `wants`
  included (`NotAt`), replies, threads, clients) names the
  clients `P` and the descriptors `G` only. Before the login both are empty, after it they are `c` and its
  descriptor. This is what excludes a descriptor that has been closed and given to somebody else.
- `OneReply(u)`: the login of `u` is once in the queue, with a thread or in the replies, so `u` is opened once.
- `NoListYet`, `ListComing`: the list is asked for only after the group list, which is written only after
  `m_OnlineUserMap` has the entry. So a list that is still to be selected will have every row there is then.
- `OnItsWay(m, c, u)`: a row is with the client, in a package to its descriptor, in the list of a thread
  that answers it, or with a thread that relays it and has not passed the client. `Pair` says that after the
  entry is made every row for `u` is on its way or `ListComing`; `NewRow` is the step that saves one,
  `SelectStep` the one that takes a list. With nothing under way, only "with the client" is left.

`Len(table) <= Limit` is part of the property, as `DBMsg` cuts the list off there; rows never leave the
table, so before it is exceeded no list was cut off.

### `SocketControlProofs`

One inductive invariant, in layers that are proved one after the other, each from the ones before:

- `Pointers`: whatever a task, a worker, a sender or an entry of the map names is an object that exists or
  has existed. `Backlog`: a connection waiting for `accept()` has no object yet.
- `Registered`: `RegMatchesFlags`, and what it needs: two objects that exist have different
  descriptors, and a descriptor that is free is not registered. The second fact is why the code may leave
  it to `close()` to take a descriptor out of epoll; without it a reused descriptor would meet the `ADD`
  of its next owner. Every wrapper of `epoll_ctl` has a lemma (`CtlAddRead`, `CtlDelRead`, ...). Theorem `FlagsTrue`.
- `Events`: `epoll_wait` reports an object at most once at a time, and none that never existed.
- `JobFits`: the places a worker can be at, by its task. Only with it can a worker that closes after
  `recv()` be told from one that closes after `send()`.
- `SingleReader`: a step does to the readers of *one* connection one of five things (`Kept`, `Queued`,
  `Taken`, `GivenBack`, `Dropped`), each of which keeps the right to read single whoever has it;
  `RightMoves` sends every action to one of them. That a task is in the queue once is stated over places
  of the queue (`QueuedAt`), and `AppendedTask` and `TakenTask` say how those move. Theorem `OneReader`.
- `Owners` and `Counted`: an object is in the map or has one worker that deletes it, and the counter is
  the size of the map plus or minus those between (`CountStep`, over `Cardinality`, hence
  `FiniteAssumption`). Theorem `OwnedOnce`.
- `Attended` and `Listening`: the connections of the map, and the listening descriptor, have somebody who
  will read them. `Listening` is stronger than the property: the accept task is single, and
  exists exactly while the descriptor is not watched. Theorem `Attention`.

- `Buffers`: a worker that is about to tell epoll that nothing is left tells the truth, because it has
  held `m_MutexWrite` since it looked. `SomebodyWrites`: a connection with something in its buffer is
  watched for writing, or has a flush in the queue, or a worker that is about to set its interest, to close
  it or to send. The worker at `Send()` from `Write()` is not counted among these (`IsCarrier`): what it does
  next depends on `m_IsWriteing`, so the buffer needs somebody else exactly when that flag is set. Theorem
  `NothingForgotten`.
- `Amounts` has the types of what no other layer speaks of. Theorem `TypeCorrect`.
- `ReadOnly` and `LeftAlone`: as long as nothing has ever been sent, who closes a connection held the single
  right to read from it, and nobody else has its pointer. So nothing deleted is used (theorem
  `ReadingAloneIsSafe`), and `DataHandler` has been told of exactly the connections of the map but for
  those that a worker is opening or closing (`KnownOnline`, theorem `DataHandlerKnows`).

### `ClientSelectProofs`

`Inv` is `TypeOK` with three parts: `Pointers` (whatever names a connection, in the map, the sets of
`select()`, the iterator or either thread, names one that was made and knows its descriptor), `FlagsAgree`
(`m_IsWriteing` of the object and `m_CfdIsWrite` of the map agree, although one lock guards only one of them),
and `Remembered`, which is `NoLostWrite` for objects out of the map as well. `SendFacts` says what `Send()`
does to an object, `QuietStep` takes the steps that move a thread only. Theorems: `Invariance`, `NothingForgotten`.

`Held`: the pointer that a thread has taken out of the map in `Remove()` is that of a connection whose descriptor
it knows, and as long as it holds it no other connection gets that descriptor. `Tellers`: two threads
that are both past `at()` for the same connection have met (`met`); any other thread that is about to erase or tell
is the only one for its connection. So every end is told by whoever looked it up before it was erased, once each, and
is told by somebody. Theorem `EveryEndToldOnce`.

`Justified`: why a connection may be removed. It has ended, or its descriptor was that of one which broke while
packages were sent and whose end has been, or is being, told (`Due`, `DueAgain`, `Allowed`). `Sent` says that only
sending fills a buffer or brings a thread into a call of it, `Place` where the thread of `Select` calls from,
`Removers` why a thread in `Remove()` may remove what it is about to, and `Closing` the same of the descriptors in
`closeSocket`. One of these can be there twice only if `send()` has failed on it: the loop goes up the
descriptors, `upper_bound` gives one that is higher than all before, and `Lowest` (by well-founded
induction, from `WFMin`) says that there is one. Nothing is assumed of how much is sent. Theorem `OnlyTheEndedGo`.

### `LoggerProofs`

`Inv` has `Made` (there is a Logger from its construction to the exit, and lines come in only meanwhile; the
second test of `s_pInstance` under the lock is why there is never another), `QuietExit` (when the exit
begins nobody is in `LOGE`) and `ThreadHolds` (what the thread has taken out, by its place). Theorems:
`OneLoggerMade`, `NoLineLeftBehind`, and `Refinement`: what waits is `tempLogVector \o m_LogVector`, so taking
the whole vector over changes nothing of it, and writing a line takes its head (`HeadOfBoth`). It is the
safety part of `WritesInOrder`.

### `MemoryPoolProofs`

Theorems `NoBlockLost` (`BlocksExact`) and `LargeEnough` (`FitsRequest`). `BlocksExact` follows the `Next`
pointers of a list and compares the blocks found with the free ones, and says nothing of their order, on which a step depends. `Inv` says
instead that there is a sequence without repetitions of *all* free blocks of the pool through which the
pointers lead (`IsChain`, `HasList`): taking the head off removes its first element (`ChainPopped`), giving a
block back puts one before it (`ChainPushed`), and writing a block outside the list leaves it alone
(`ChainKept`). `FollowIs` and `ListExact` lead from there to `BlocksExact`. `AllocMemory` and `FreeMemory` read the head
and change it in two steps; `Carries` says that what a thread has read is still so, because it has the
mutex of the pool in between. `GivenOnce` is that two threads never give back the same block, which is the
program's duty and the model's guard on `delete`. `IntIs` says what an int makes of a size: itself, as long as
the int can hold it, and `FitsRequest` claims nothing beyond. `PoolFits` (with the smallest of a set of numbers, from
well-foundedness) is why the pool the manager picks is large enough.

### `PackageProofs`: the stream

Of `PackageStream`: theorems `BytesKept` (`StreamIntact`), `CutOffByLarge` (`NeverCutOff`) and `StreamIsChannel`, the refinement:
`SafeSpec => ImplementsChannel`, with nothing left out, as `PackageChannel` states no fairness.

The first half is about what the model computes, and is independent of its steps. Sums and concatenations
are folds, hence recursive functions: for each the proof shows that a function with that equation exists
(`WeightType`, `InARowExists`, `LoopsExists`), and what it computes by the least argument at which it would be
otherwise. That is how an induction over data can be done here at all: over the numbers, with the property
written out as a set and `NatLessThanWellFounded`. It gives:

- `IntOfBytes`: `SocketHead::UnSerialize` reads the size `Serialize` has written, for a head of one to four bytes
  and every size such an int counts (`MaxCounted`), by `FourBytes`: a number is the sum of its four bytes with their weights.
- `FlattenAppend`, `FramesConcat`, `StreamAt`: packages in a row are one sequence of bytes, and the `n`-th
  package is found where the ones before it end.
- `FoundAt`, `ParseCuts`: begun where a package begins, the loop of `Client4ReadCallback` cuts out a
  number of packages that are the next ones in order, and stops where the next one is not whole.

The second half is `Inv`, which TLC has checked in the run's instance before: `InOrder` (what was delivered is
the beginning of what was accepted), `OnTheWay` (read buffer, wire and write buffer, in this order, are the frames
of what was accepted and not delivered), `NoneWhole` (between calls the read buffer does not begin with a whole
package, so the loop leaves none lying) and that a connection taken for ended had a package that is too
large. `StreamIntact` alone is not inductive: that the bytes are right in total says nothing of where the
reader stands. `RecvDelivers` is the step that matters, and the refinement uses it again: a `Recv` delivers
the next `m` packages, for some `m` from 0. `FullShows`: a full read buffer that begins with a package that is
not whole is full because that package is larger.

### `PackageProofs`: what is inside a package

Of `DataType`: theorems `ListsKept` (`ListsArrive`) and `TextKept` (`TextArrives`), for lists of any length,
of any users, groups and messages with texts of any length, as long as an object fits an int.

The inductive invariant is `CodecInv`: `serialized` is what `Serialize` makes of `value`, and a `result` that
is there is what `UnSerialize` makes of it, under the DataType it was sent with. The content is in
`EveryObjectArrives`: for each of the eight kinds of package, the package is as long as its `DataSize` says
(`Sized`), its DataType is read as written, and `Kept` says what of it is found again. It rests on one notion,
`Lies(d, o, p)`: the bytes `p` are found in `d` at offset `o`. `LiesWithin` composes it, so each structure is
looked at once, by itself, and then holds wherever it lies, a user in a list in a group in a list of groups:

- `IntLies`, `CharLies`, `ThingLies`, `TextLies`: what is read where a number, a memory or a text lies. `CharLies`
  is the one that is not what one would like: a count read as a char with a sign is never more than the
  count, and the same up to 127. `TextLies` needs only where a text begins, not its size: hence `TextArrives`
  has no bound.
- `UserListIs`, `GroupIs`, `MsgIs`, `ListLies`: the sum a `Serialize()` makes by hand is the number of bytes
  it writes. For lists of groups and messages `SumIs` shows it of the `DataSize`s of the elements.
- `FlattenLies`, `ElementLies`: the elements lie one after the other, and the receiver, adding up the
  `DataSize` it reads at each, comes to where the next one begins. Both are recursive functions, and go the
  way of the sums and concatenations above.
- `ListFits`: if a list fits an int, each element does, and so the sum of what the elements say is right.
  Without it the argument would be circular: a `DataSize` that overflows says nothing of the length.

### What the proofs assume

`WorkersAssumption` (a pool has at least one thread, and finitely many), `NoTaskAssumption` (the
mark for "no task" is not a task), `ThreadsAssumption` of `DataHandler` (finitely many threads and
MySqls), with, for its other two theorems, `UsersAssumption` (users are numbers other than 0, and no
groups), `AddressedAssumption`, `CfdsAssumption`, `GroupUserAssumption` and `SizesAssumption`
(receivers, descriptors, members and bounds are what their names say); of `SocketControl`, `FdsAssumption` and `HandlesAssumption` (descriptors, the listening one and
the marks for none are different things), `ConnsAssumption` (so are connections and `Nobody`),
`FiniteAssumption` (finitely many descriptors and threads) and `BoundsAssumption` (sizes and bounds are
numbers); of `MainControl`, `ThreadsAssumption` and `BoundAssumption`; of `ClientSelect`, `FdsAssumption`
(descriptors are numbers, for the order of the map), `NobodyAssumption` and `BoundsAssumption`; of
`MemoryPool`, `SizesAssumption` (finitely many pools, each with a block), `IntAssumption` (the largest int and the
size of a head are numbers), `RequestsAssumption`,
`NamesAssumption` and `BlocksAssumption` (malloc returns neither a block of a pool nor nullptr); of
`PackageStream`, `SizesAssumption` (a head has one to four bytes, and the size of a package with its head is an int of
as many; any number of calls) and
`BuffersAssumption` (a buffer is larger than a head); of `DataType`, `ContentsAssumption` (what lists
and texts consist of; a byte of a text is not 0) and `FitsAssumption` (what is serialized is not longer than an
int can say: the code has no test for it, but no write buffer is nearly that large). `LoggerProofs` assumes
nothing. TLC evaluates each of them in the runs of its module.

### What is only model-checked

- Liveness under fairness and what needs `ENABLED`: `DestructorReturns`, `Arrives`, `ReadServed`,
  `WriteServed`, `ShutdownEnds`, `ExitEnds` and the like. Of `ImplementsTaskPool` and `WritesInOrder`, which
  contain the fairness of the abstract specification, the safety part is proved (`Refinement`).
- What the code does not keep has no theorem: `MapNamesUser` and `EveryServerIsServed`, which TLC refutes.

## 6. What is not modelled

- **The listening socket's set-up, `MySql` client calls, SQL text, time, character sets, terminal,
  JNI**: single calls of a library or conversions, with no state of the program.
- **Composing and formatting a line of the `Logger`**, and its file: `Init` is called by nobody.
- **Malformed packages in `DataHandler`**: they are dropped before anything is done; the test itself is in
  `DataType`.
- **SIGPIPE**: `send()` to a peer that is gone raises it and nothing ignores it; the models let `send()`
  return the error instead, since nothing is left to check once the process has ended.
- **The missing return of `SendPackage`** (`SocketControl.cpp:113`): the value is undefined, and the only
  caller ignores it.
- **Connecting again from a disconnect callback, torn accesses to the SDK's unlocked map**: see the plan
  and `hazards`.
- **`ClientSocketClose`, `~MySqlPool`**: nobody calls them. **`SetCount`** is declared, not defined.
- **`MemoryHook`**: forwards to `MemoryMgr` when compiled with `__MEMORY_POOL__`, which no build file
  defines; destructors and the creation of the singleton are left out.

Hazards without a property have a note in `PROJECT.json` that says why.
