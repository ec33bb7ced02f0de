# A TLA+ development for interview-questions

The repository is a collection of small C and C++ programs: answers to
interview problems and, under `knowledge_based/` and `threads/`, complete
programs that use POSIX threads, processes, signals, locks, sockets and
terminals. There is no single system. What the programs share is a library of
mechanisms (queues, barriers, record locks, notifications between processes,
event loops, containers, an allocator, an I/O library), and this development
treats each of them as a component with a specification of its own.

- [Inventory](#inventory): the components, their state, operations and hazards
- [Modules](#modules): how the models are laid out
- [Runs](#runs): what TLC checks, with bounds and fairness
- [Proofs](#proofs): what TLAPS proves, and along which argument
- [Disagreements](#disagreements-between-text-and-code)
- [Not modelled](#not-modelled) and [plan](#plan)

## Inventory

### Programs with threads (`threads/`, `shared_list`, `fork_multithreaded`)

| Component | State | Operations | What is hard | Correct means |
|---|---|---|---|---|
| work queue, semaphores | list `workq`, `workq_lock`, `workq_sem` | `insert_job`, `get_job` | the list is read after `sem_wait` returned and other threads ran | no pop of an empty list; each job runs once |
| work queue, condition | list, mutex, `workq_cond` | same | the signal is sent after the unlock; spurious wake-ups | no job waits for ever beside a sleeping worker |
| semaphore from a mutex and a condition | counter | `semaphore_wait`, `semaphore_post` | same | the counter stays between 0 and the posts |
| barrier | arrivals, threshold | `barrier_wait` | reuse; waiting without a loop | nobody passes before all arrive |
| dining philosophers | forks | `pick`, `put` | circular waiting | some philosopher can always go on, all eat |
| buffer copies | buffers with locks | `copy_buf` | lock order, `memcpy` is not atomic | no deadlock, no torn buffer |
| ordered threads | semaphores | print loop; `first/second/third` | any thread may come first | the announced order, for ever |
| list in shared memory | two lists, process-shared mutex | push, pop | several processes, free list runs out | every node on one list |
| fork with threads | locks and their copies | the three fork handlers | a lock copied while somebody holds it | parent and child find the locks free and the data whole |
| signals taken by a thread | mask, flag, condition | `sigwait`, wait for the flag | signals that merge or come before the wait | main() leaves exactly when told |

### Programs with processes (`knowledge_based/linux_internals`)

| Component | State | Operations | What is hard | Correct means |
|---|---|---|---|---|
| fork synchronisation: signals, pipes, record locks | flag and masks; pipes; a file | `TELL_*`, `WAIT_*` | lost and merged notifications | the processes take turns and both end |
| readers against a writer | record locks | chain of readers | a window between two readers | no window, and the writer is served in the end |
| mandatory locking test | file mode, lock | parent locks, child tries | ordering, failing calls | the verdict is true |
| two processes on one file | shared offset, lock | two `write(2)` per record | interleaved records | records are whole |
| counter in shared memory | counter | increments in turn | lost update | strict alternation |
| named semaphores | names, instances | create, fork, unlink | two instances at once | one owner per name |
| unique daemon | pid file, lock | `daemonize`, `already_running` | racing copies, kill between two steps, failing `fork` | one daemon |
| `sleep`, `system`, `abort`, `signal`, `sigsuspend` | masks, actions, pending signals, alarm | the functions, call by call | a signal between any two calls, an alarm of the caller's own | the caller's mask and actions are as before, less than a second of a sleep is lost, what was printed is flushed; nobody sleeps for ever |
| coprocess | two pipes, buffers | ask, answer | stdio buffering, stale buffer | one right answer per line |
| pty, `pty_fork`, `do_driver` | signal masks, jump buffer, descriptors | set up a child on a terminal; two copy loops that end each other | a signal before `setjmp` or `read`; each call may fail | no jump before the buffer is set, both end; a failed set-up is reported, never half used |
| remote login | clients, descriptors, terminal | accept, fork twice, copy; raw mode and back | descriptors inherited by the wrong child, HUP and exit of a child meanwhile | each session has its own pair; the terminal is restored |

### Servers

| Component | State | Operations | What is hard | Correct means |
|---|---|---|---|---|
| echo client/server (FIFO, UNIX socket) | names, channels | connect, send, receive, quit | blocking `open(2)`, signals while a structure is half filled, SIGPIPE | own lines back in order; names removed; no deadlock |
| epoll echo server | epoll set, sockets | accept, receive, send by many threads | edges, two threads on one socket, a reset between `recv` and `send` | no chunk repeated, none lost but by a reset |
| one-shot epoll test | armed flag, buffer, semaphore | dispatch, consume, rearm | rearming a readable descriptor | chunks one at a time, none stuck |
| open server (daemon, fork/exec) | epoll set, requests | request, open, pass descriptor | disconnects, signals, order, names with a blank | the right answer to the right client |
| keepalive echo server | epoll set, batch of events | accept, echo, close | events of a batch that are stale, clients that vanish | each client gets its own bytes, descriptors are closed |
| web server | one buffer, one client | request, file, answer | the buffer of the client before, a request cut inside a word, files that change | who was heard whole gets the file it asked for |
| link layer of the simulator | FIFO, partial frame | send, receive in pieces | a frame cut anywhere, data that reads like a header, padding, lengths at the limit | what is taken for a frame is one |
| routing table | trie | add, delete, look up | prefixes of prefixes, the default route | the longest matching route |
| UDP ping | datagrams | ping, pong, timeout | loss, duplication, late replies, datagrams of others | a time is printed only for a reply that somebody sent |

### Containers and libraries

Search tree with parent pointers, hash table with circular lists, LRU cache,
three stacks in one array, stack with minimum, median and rank of a stream,
priority queue, boggle dictionary (a trie) and board, memory allocator, buffered
I/O library. State: linked nodes or arrays. Operations: the functions callers
use. What is hard: links that must be repaired in two directions, index
arithmetic, buffers exactly full, calls whose damage shows many calls later.
Correct means: every sequence of calls gives the answers of the abstract object.

### Algorithms

- *Searching and sorting* (`DS_Algos/bin_search`, `sorting_searching`). State: an
  array and the bounds a loop keeps. What is hard: duplicates, empty arrays, the
  first and the last index, an interval that stops shrinking.
- *Linked lists, trees and graphs* (`linked_lists`, `trees_graphs`, graph walks
  of `DS_Algos`). State: nodes in memory and the pointers between them, which
  many programs rewire while they walk along them (two list sorts, reversal,
  weaving, flattening, the threads of a Morris traversal), a visit mark per node,
  or a queue with the nodes left in a level. What is hard: a pointer overwritten
  before it was read, the last node, a thread not taken back, a node seen twice,
  a cycle met through two paths.
- *Recursion and expressions* (`recursion_dp`, calculators). State: a board, a
  table or a buffer that calls change and restore. What is hard: a change not
  taken back, a case counted twice, a precedence, an alternative not tried.
- *Arrays, strings, bits and numbers* (`arrays_strings`, `bit_manipulation`,
  `numeric`). State: the array rewritten in place, one or two indices, machine
  words of a given width. What is hard: writing over what is still to be read,
  shifts by the full width, wrap-around.

Correct means in each case: the answer of a short definition for every small
input, in as many steps as announced, and a structure that was only borrowed is
as it was.

`PROJECT.json` lists every component with its files, and under `hazards` the
lines at which something can go wrong that a test would hardly reach, each with
the properties that would notice.

## Modules

Every program has variables of its own (a two-letter prefix tells them apart),
an `XInit`, one action per step that other threads or processes can observe,
`XNext`, `XSpec` and its properties at the end; closely related programs share a
module. A step reads or writes shared state once, except between a lock and its
unlock where nobody can look, unless the point of the program is that somebody
can. `Posix` has the mutex, semaphore and condition operations as action
fragments, with spurious wake-ups, and the parameters of the thread programs.
`ForkSync` has the notifications of `fork_sync`; those by signals are what
`RecordLocks` (the mandatory locking probe and the readers against a writer) and
`SharedCounters` reuse, as the programs do in the code. `JobPool` is the
abstract specification of both work queues.

| Area | Modules | Run module |
|---|---|---|
| threads | `WorkQueueSem`, `WorkQueueCond` (both refine `JobPool`), `CondSemaphore`, `ThreadBarrier`, `ThreadOrder` (philosophers, copy_buf, the two programs with ordered threads), `ForkThreads` (fork handlers, `sigwait`, the list in shared memory); `Posix` | `MCThreads` |
| processes | `ForkSync`, `RecordLocks` (mandatory locking, two writers of one file, readers against a writer, the unique daemon), `SharedCounters` (anonymous memory, named semaphores), `Signals`, `Terminals` (pty, pty_fork, do_driver, remote login, coprocess) | `MCProcesses` |
| servers | `EchoPair`, `EpollEcho` (echo server, one-shot test), `OpenServer`, `Networking` (keepalive server, web server, link layer, routing table, UDP ping) | `MCServers` |
| containers | `BinarySearchTree`, `Containers` (hash table, LRU cache, stacks, streams, priority queue, boggle dictionary), `Malloc`, `Stdio` | `MCData` |
| algorithms | `BinarySearch` (a state machine, one loop iteration a step); `SortingSearching`, `LinkedLists`, `TreesGraphs`, `Recursion`, `Expressions`, `ArraysStrings`, `BitsNumbers` (each program a function of its input and of the memory, run in one step on every small input, what it prints and leaves in memory kept in the state) | `MCData` |
| proofs | `ThreadProofs`, `ProcessProofs`, `SignalProofs`, `ServerProofs`, `DataProofs` | |

An MC module puts the programs of an area side by side: the variable `prog`
chooses one of them in the initial state, its actions run, and the variables of
the others stay as they are. The reachable states are the union of those of the
programs, so one run explores them all; no program is ever combined with another
one, as none is in the code.

Abstractions used throughout: messages, lines, jobs and values are numbers or
model values; a C string is the sequence of the classes of characters the code
tells apart; memory is a function from node numbers to records; an error a
program reports and survives is an outcome of the call that can fail. System
calls behave as POSIX and the Linux manual pages describe them; they are marked
external in the map.

## Runs

| Run | Shows | Bounds |
|---|---|---|
| `threads` | the properties of the first table for every interleaving | 3 workers, 3 jobs or posts, 4 forks, 3 buffers of 2 words, 3 nodes, 3 rounds around `fork`, 2 signals to `sigwait`. Three workers are the least with which a wake-up can go to the wrong thread while another takes the job; three jobs fill and empty the list twice |
| `processes` | the same, with system calls failing, signals between any two calls, and daemons and clients killed | chains of 3 readers, 3 records, 4 increments, 2 instances, 3 copies; sleeps of 2 seconds, of two ticks each, under alarms of 0, 1 or 3 seconds (none, earlier, later), 2 signals sent at any tick; 3 lines through the coprocess, 2 chunks through a terminal, 2 login clients, 2 starts and 1 hang-up. Two readers would not have a successor that itself has one |
| `servers` | the same, with signals, resets and disconnections at any time | 2 clients with 2 lines or chunks, 2 threads, 1 reset (`EpBreaks`), 3 chunks of stdin; 3 pings with 1 datagram more than was sent, a duplicate or somebody else's; 2 web clients and files; 3 frames of up to 4 bytes, addresses of 3 bits with 3 table operations. Two clients can be mixed up, two chunks can be swapped, and the third ping can meet the late replies of the two before; three bits have a prefix of a prefix |
| `data` | answers of the abstract objects and reference definitions | containers: 4 keys and nodes in the tree, 3 slots with negative keys, cache lines of 3 entries and 5 operations, heaps of 5, a heap of 6 units of two bytes with blocks of at least 3, a `size_t` of 64 values and requests of 0, 2, 3, 40, 61 and 63 bytes (the smallest block, one that takes the whole minimum, one at which `sbrk` gets a negative number, and two that wrap), stdio buffers of 2 characters with 5 characters of input, boggle boards of up to 2 by 2 with 4 commands. Arrays of up to 5 elements over 4 or 5 values (duplicates, absent values and both signs of a difference occur), matrices of up to 3 by 3; lists of up to 5 nodes, loops of up to 10; every shape of tree of up to 5 nodes (4 with keys that may repeat), every graph of 3 nodes, weighted graphs of 4; strings of 3 to 5 characters, expressions of 3 operands, words of 8 bits. Five elements are the least for which a binary search halves twice on either side, five nodes the least with two nodes of one level above each other and with a list node between two that are rewired from either end |
| `barrier_spurious`, `daemon_instances`, `pty_fork_returns`, `sleep_reliable`, `system_child`, `bst_parents`, `queue_order`, `ping_late` | one disagreement each, see [below](#disagreements-between-text-and-code) | the smallest that shows it |

Deadlock checking is off in all runs: the programs end, and what must not stop
is stated as an invariant (`PhNoDeadlock`) or as liveness.

What the properties say:

- `MCIsJobPool`: both queues implement `JobPool`, and no worker of the second
  pops an empty list (`SqNeverPopsEmpty` for the first); `CqNoLostWakeup`: while
  jobs wait and a worker sleeps, a signal is on its way or a worker is awake;
  `CsCounts`: the counter is what was posted and not taken; `MCFinish`: what
  waits is consumed, every thread gets through.
- `BarGroup`, `BarMeets`: threads leave the barrier in full groups, without
  spurious wake-ups; `barrier_spurious` allows them. `PhNoDeadlock`, `CbUntorn`,
  `MCOrders`, `SlSafe`, `FhConsistent`: one for each of the other programs.
- `FsTurns` (on a terminal the output follows the script; elsewhere the child's
  messages come first and none is lost or repeated), `RwNoWindow`, `MlVerdict`,
  `MCTakeTurns` (records whole, strict alternation, one owner of a name),
  `DuOneDaemon`: one for each process program; `MCNotified`, `MCWakes`: nobody
  waits for a notification or an alarm that does not come.
- `MlVerdict` says of the mandatory locking probe what its verdict is worth: the
  child never says that mandatory locking does not work where it does. That it
  works the child also says when `read(2)` fails for any other reason, since
  `errno` is not looked at (`locks.c:158-163`); the model lets it fail.
- `SgSound`: after a library function returned, masks, actions and alarms are
  those of before, as far as each version achieves it. Time runs in ticks,
  `SgPerSec` to the second: `alarm(2)` tells the rest in whole seconds, rounded
  either way, and `sleep4()` drops the fraction `nanosleep(2)`
  tells (`sleep4.c:97`), so what the caller is told and what it slept may fall
  short of the time asked for, by less than a second (`SgTells`). `abort()` flushes
  what was printed before it kills (`SgAborts`), also when a handler of SIGABRT
  prints; what another handler prints between `fflush(3)` on line 32 and
  `sigprocmask(2)` on line 38 of `abort.c` may be lost, and nothing else.
- `PtSafe`: from `fork(2)` on no jump before the buffer is set; before it there is
  the window of `pty.c:308-314` (`PtyWindow.cfg`). `MCWired` (`CoMatches`,
  `PfAtomic`, `DrWired`, `RcRestores`): whoever talks through pipes and terminals
  has the right ends, and leaves them as found. `PfAtomic` admits one case in which
  `pty_fork()` returns in the child alone: the parent's `read(2)` of the report was
  interrupted and the report came before the pipe was closed (run
  `pty_fork_returns`). `RlApart`, `RlServed`: login
  sessions do not share descriptors and every client gets one.
- `MCDelivers` (`EcEcho`, `EpKeeps`, `OsPassesOn`, `UpGenuine`): what goes through
  a server comes out whole and to the right client. `EcEcho` says where every line
  is: what came back is a beginning of what was sent, and while the server serves
  the client the rest is in its buffer or on its way, in order, followed by quit
  messages only (there are two if a signal comes between the two lines of `main()`
  that send one and that disable the handler, `client.c:68` and `74`). `EpKeeps`
  lets a chunk be lost only in the hand of a thread whose client reset its
  connection (`solution.c:78-86`), and the server die of nothing else. `UpGenuine`
  lets a time be printed for a PONG of somebody else only if somebody else sent one
  (`recvfrom(2)` asks for no source).
- `EcClean`, `OpenAnswers`, `KaKeeps`: names, answers and descriptors. `EcClean`
  leaves out the server that a signal ended inside `new_server()`
  (`NewServer.cfg`). A request whose name holds a blank and then a number gets,
  in `OpenAnswers`, the descriptor of the other file that `sscanf(3)` reads there
  (`opend.c:229`, `openserver.c:36`); with another word it gets no answer.
- `MCGenuine` (`WsOwn`, `NlGenuine`, `RtLongest`): the page is of the file asked for
  when the request was received whole, whatever partial words and old pages the
  buffer held before; what is taken for a frame is one that was sent, or began
  inside a frame at data that reads like a header (the CRC is not looked at);
  routes are the longest that match. `MCServed`: whoever waits is served, where a
  client waits for the open server once it was accepted or is the one the next edge
  of the listening socket is for.
- `MCAnswers` (hash table, stacks, streams, priority queue, LRU cache, boggle),
  `BstSound`, `MallocSound`, `StdioFaithful`: the containers. For the cache and
  the I/O library they state what the code achieves: a key inserted twice may
  answer with either value, and after a `write(2)` that fell short or a `malloc(3)`
  that failed nothing is claimed of that copy; the model goes on all the same, to
  the `putc()` that writes through a null pointer (`PutcCrashes`). Nothing is
  claimed of boggle's limit of N equal letters, which the code exceeds by one.
- For the allocator `MallocSound` (blocks never overlap, the list is sorted and
  merged, `sbrk` is asked only when no free block is large enough) holds up to the
  free of a block whose header is wrong (see [below](#not-modelled)) or a call of
  `sbrk(2)` with another number than was meant: bytes become units and bytes again
  modulo `MaWord`, and an `intptr_t` is half of them. It also says when that
  happens: a block has room for the bytes asked for unless rounding them up wraps,
  and `sbrk(2)` gets the number meant for every request below half of `size_t`. An
  iteration of a loop of `malloc()` or `free()` is a step; the list has at most as
  many blocks as the heap admits.
- `BsRight`: each of the eight binary searches returns what its comment promises;
  `BsLogarithmic`: after k iterations at most n / 2^k elements are left;
  `MCComputes`: every sort sorts a permutation of its input, every search finds
  what is there and nothing else, every program on arrays, strings, bits and
  numbers gives the answer of its definition; `MCPointers`: what is printed of a
  list after its rewiring is what the program is for, trees come back from their
  orders, walks that borrow links give them back, graphs are ordered exactly if
  they can be and shortest walks are shortest; `MCRecursion`: enumerations print
  each case once and all of them, counts count them, optima are optimal, parsers
  and rewriters keep the meaning.

  Where a program does not answer every input as its problem asks, the property
  names those inputs and claims nothing of them, or claims the weaker thing that
  does hold; where a text of the repository promises more a configuration of its
  own shows the difference (see [below](#disagreements-between-text-and-code)):
  - `missing_int` returns a number that is missing if it returns one
    (`MissingInt.cfg`);
  - `copy_bits` and `insert_into` are not judged on a field as wide as the word
    (`CopyBits.cfg`), `divide()` not on INT_MIN and 0, `is_power_two` not on
    0, and `stream_sub` claims proper digits only when no borrow meets a 0;
  - `same_inorder` of `parallel_inorder` gives both trees back when it walks to the
    end; when it returns on line 87 only threads may be left in them, no other link
    may have changed;
  - `bottom_view` is claimed to have, at each distance from the root's column, the
    right nodes in the right order, not the order among the columns that its comment
    announces;
  - the cost of `optimal_concat` is the least among the orders that append one
    string at a time (`ConcatCost.cfg`);
  - `redundant_parens` keeps the value in exact fractions (`RedundantParens.cfg`
    for the division of C);
  - the follow-up of `magic_numbers` has its count right only if the first
    possibility is not a solution;
  - the combinations with duplicates are those of the lengths that
    `solution_duplicates` prints; `sorted_rand_subset` is
    claimed to sort only up to two numbers; `2d_binsearch` is claimed to find only
    what is there, not to find it (`DiagonalSearch.cfg`).

Fairness is weak fairness of each thread or process separately: the scheduler
runs every thread that can run. Where a run module states it for a disjunction
over several programs, only the actions of the program chosen by `prog` can be
enabled, so it is the fairness of that program's process. Users (who type lines,
end their input or leave), the sending of signals, failing calls, crashes,
resets, spurious wake-ups and the network have none: `MCServed` promises a client
of `client_server` only that server and client come to the point at which its
user may type. A
mutex is not assumed to be fair to one thread beyond that; no strong fairness is
used. `FsKey` (a key press the program waits for) is the one exception and is
assumed to happen.

Every property has a mutant in `PROJECT.json`: a plausible slip in the code (a
dropped guard, a wrong order, a missing reset) for which TLC reports the property
violated.

## Proofs

The theorems hold for every value of the constants: any number of threads,
processes, clients, jobs, lines, rounds or elements. Each component has an
inductive invariant `XInv`, a lemma that the initial states satisfy it, a lemma
that every step preserves it (one case per action, one step per conjunct that
the action can disturb), and the theorem that combines them. Every inductive
invariant was checked by TLC before it was proved. The last section of
`ThreadProofs`, `ProcessProofs` and `ServerProofs` shows that a behaviour of the
run module is a behaviour of each of its programs (`MCStep`, `MCPrograms`), so
that the composed properties of the runs are theorems too.

### Threads (`ThreadProofs`)

- `SqPopSafe` (`[]SqNeverPopsEmpty`), the claim of the header of
  `wqueue_semaphores.c` that `sem_wait` does not return on an empty queue. The
  property says nothing of a worker that has come back from `sem_wait` and not
  yet locked; `SqInv` adds `SqBalance` (the semaphore plus the workers between
  `sem_wait` and the pop is at most the length of the list; the difference is one
  exactly while the boss has pushed and not posted), `SqMutual` (who is in the
  critical section is the holder of the lock, and the list it read is the list)
  and `SqRoles` (which labels boss and workers can have).
- `CqWakes` (`[]CqNoLostWakeup`) and `CqPopSafe`. `CqAsleep` ties the wait set of
  the condition to the labels, `CqMutual` the list a worker tested to the list
  while it holds the mutex: between test and wait nobody can push unseen.
- `SqRefinesPool`, `CqRefinesPool`: both queues implement `JobPool`, step by step
  under the refinement mapping. Both add freshness: the jobs on the list, in
  hands and done are distinct and have been made.
- `CsIsCounting` (`[]CsCounts`): the counter is posts minus returns from a wait.
  `CsTaken` carries the test of the counter to its decrement across the wake-up,
  `CsBudget` bounds posts made, under way and still to be typed.
- `BarWakesGroup` (`[]BarGroup`) and `BarIsBarrier` (`[]BarMeets`), without
  spurious wake-ups. `BarAsleep` (the sleepers are never all), `BarPhase` (each
  thread has left as often as it was released, less one while woken and not yet
  gone), `BarPaced` (nobody comes early) and `BarSum` (the total is the number of
  increments, as the cardinality of a set of pairs: sums over a set of threads
  would need induction).
- `PhDeadlockFree` (`[]PhNoDeadlock`). `PhHeld` says who has which fork; the
  greatest fork that is held has a holder who is not blocked.
- `CbNeverTorn` (`[]CbUntorn`). `CbHeld` gives both locks to who copies, `CbWhole`
  makes every buffer uniform but one that is being written, `CbCopied` the part
  that is written equal to the source.
- `OpPrintsInOrder`, `OcCallsInOrder`, together `MCInOrder` (`[]MCOrders`): one
  token is in one semaphore or one thread (`OpToken`); the gates of `Foo` open in
  order (`OcGates`).
- `SlIsSafe` (`[]SlSafe`): the nodes are laid out along two injective functions
  that share none (`SlLists`), and their number on the list is what the processes
  owe (`SlBalance`), so that neither list runs out where there is room.
- `FhChildConsistent` (`[]FhConsistent`): `FhHeld` and `FhRound` say what the
  thread holds and how far apart the counters are at each of its steps, hence at
  the moment the prepare handler has both locks; `FhChild` follows the copy.
- `MCTypeCorrect`, `MCRefinesPool`, `MCInOrder`: the same for the run `threads`;
  `MCTypeOK` is the type invariant of all eleven programs.

### Processes (`ProcessProofs`)

- `FsTakesTurns` (`[]FsTurns`): one invariant for the three methods. A
  notification for a process is exactly one token (`FsToken`: a byte in a pipe,
  the owner of the lock file, a signal pending or a flag), a run goes through
  eight phases (`FsPhase`), and the phase fixes how much of the script is out
  (`FsAnnounced`) or how many messages of each (`FsCounted`).
- `RwHasNoWindow` (`[]RwNoWindow`): `RwChain` says of every reader which locks it
  holds, whom it may notify, and that behind the youngest nobody is born yet;
  `RwWriterLast` when the writer can have the lock.
- `MlIsRight` (`[]MlVerdict`, where `read(2)` may fail for any reason), `FlIsWhole` (`FlHeld`: the lock is held from the
  first half of a record to the second), `AmTakesTurns` (`AmTurn`: one turn, in a
  process, pending or in a flag; `AmParity`, `AmRounds`, `AmTally`: what the number
  of lines printed says of it), `SsIsSafe` (`SsOwned`: the name exists just while
  an instance owns it, and only its children are at work; `SsCounted`), together
  `MCTakesTurns` (`[]MCTakeTurns`).
- `DuIsUnique` (`[]DuOneDaemon`): a copy past the lock owns it and, once it has
  written, is what the file says (`DuOwns`).
- `PtIsSafe` (`[]PtSafe`): the steps before `fork(2)` have no child
  (`PtOrder`), so a SIGTERM there comes from somebody else, and once SIGTERM is
  unblocked the buffer is set.
- `CoIsMatched` (`CoFlow`: between two lines nothing is on its way, and while the
  driver waits the line, the reply or the answer is, right in each place),
  `PfIsAtomic` (`PfReport`, `PfBelieves`: the pipe says what became of the child,
  and the parent acts on nothing else; a parent whose `read(2)` failed knows
  nothing, which is the case the property excepts), `DrIsWired` (after its k-th call a side
  has a table of descriptors that is computed once for every k), `RcIsRestored`,
  together `MCIsWired` (`[]MCWired`).
- `RlIsApart` (`[]RlApart`): `RlOwns` says who may have a descriptor of a
  connection, `RlBorn` that a running child still keeps the port from a new
  daemon, so that only the daemon that forked it can miss its end.

### Functions written with signals (`SignalProofs`)

`SgIsSound` (`[]SgSound`): the program that runs, its argument, the alarm the
caller had set and the moments at which signals come are arbitrary. A process is a
stack of frames, the function and the handlers on top of it, so the proof comes in
three layers.

- *The stack.* `SgStack` says that the function is at the bottom and handlers lie
  above it, that only the function sleeps, at a call that sleeps, and that every
  frame is at one of its calls; `SgValues` gives the other variables their range.
  `SgOps` looks up which call with which arguments stands at each place of each
  function, and one lemma per kind of step (a call, falling asleep, a jump, a
  delivery, the return of a handler, what happens outside) says what it does to
  the stack. Everything later sees a step as "the function goes on", "a handler
  goes on" or "nothing moves".
- *Mask and actions.* `SgMasks` and `SgActs` say what mask and signal actions are in
  force at each place of the functions that change them and put them back
  (`SgMaskAt`, `SgActionAt`). The mask meant is the one the handlers will return to
  in the end (`SgBack`), since each handler runs with a mask of its own.
- *One conjunct for each promise*, which rests on those: `SgJumping` (an alarm
  of sleep2() is set only after `setjmp`), `SgSparing` (the child of system()
  exists only during `waitpid`, when SIGINT is ignored), `SgAborting` (SIGABRT is
  pending only where the stream has been flushed, or where another handler printed
  in the window of `SgLossy`), `SgPausing`, `SgPending` and
  `SgQuits` (the demonstrations), and `SgTelling`, the arithmetic of the sleeps in
  ticks: what was slept and what the alarm still has to run make up the time asked
  for, and rounding it to seconds is off by less than one.

### Servers (`ServerProofs`)

- `EcIsEchoed` (`EcEcho`): the messages of a client are numbered; `EcFlow` says
  that what came back, what is on its way back, in the server's buffer and on its
  way to it are consecutive runs of those numbers, for every client and not only
  for the one that is served, and that they are all of them while the server
  lives. Without the part about clients that are not served the property is not
  inductive: the next client is accepted with lines already sent. Behind the lines there may be one quit
  message or two.
- `EcIsClean` (`[]EcClean`): who asked for a connection has made its names and
  does not make them again (`EcAsked`); the main FIFO is there from `mkfifo(3)` on until
  `destroy_server()` unlinks it, which it does if `servname` is set.
- `EpIsKept` (`EpKeeps`): every chunk is in exactly one place (`EpOnce`:
  handled, in hand of one thread, waiting), the handled ones that were not sent are
  those of a client that reset its connection (`EpFated`), and the number of threads told of a connection,
  plus one if the event is still to be reported, is at most the backlog (`EpCalls`).
- `OsIsOrdered` (`OsPassesOn`): the armed event, the semaphore and the consumer
  exclude one another (`OsTurn`), what waits in stdin continues what was read
  (`OsStream`).
- `UpIsGenuine` (`UpGenuine`): what is around stems from a ping that went out, and
  its copies in the two directions and in the socket plus the replies taken for
  it are at most one more than the duplicates the network made (`UpAccounts`, over
  bags); the datagrams of others are counted with the duplicates.
- `MCDeliversAll` (`[]MCDelivers`): the four together in the run `servers`.
- `OdAnswersRight`, `OfAnswersRight`, together `OpenIsRight` (`[]OpenAnswers`):
  `OdMatch` (a client whose request is with the daemon waits for it or is gone, and
  an answer in its socket is that to the request it waits with) and `OdSending`
  (who is answered has no other request there; one descriptor is held for it). What
  the answer to a request may be is `AnswersTo`, which has the reading of `sscanf(3)`.
- `KaIsKept` (`[]KaKeeps`): what was sent back is a beginning of what was read,
  that of what was sent (`KaEchoed`); the rest of an open connection is in
  `readbuff` (`KaPending`); an event of a batch that is still to be handled is
  still true of its client (`KaBatched`), which is what a stale event would break.

- `WsIsOwn` (`WsOwn`): `WsInv` says at each place of `handle_client()` what the
  server's single buffer holds for the client being served (`WsServing`): if its
  request came whole it is there; if not, its first words may have been mixed with
  what was left of another request or of a page, and the path found there is not
  claimed to be the client's. The header and the body are of one file (`WsRight`),
  of two versions only if the file changed meanwhile (`WsPage`, `WsStays`).
- `NlIsGenuine` (`NlGenuine`): in the FIFO the rest of its frame follows every byte
  and no byte is there twice (`NlRuns`, `NlDistinct`). What begins a read and passes
  `ParseFrame` either begins with the first byte of a frame, and is that frame
  (`NlWhole`), or begins inside one at data that reads like a header (`NlInside`). A
  frame that was taken is not in the FIFO any more (`NlTaken`), and one for this
  interface that is neither there nor taken was read in a way the property admits
  (`NlRead`).
- `RtIsLongest` (`RtLongest`): the nodes of the trie are closed under prefixes
  (`RtNodes`) and a destination in a node is that of the route with this prefix, or
  the gateway in the root (`RtGiven`). The deepest node with `is_end` on the way of
  an address is then its longest route; that there is a deepest one, and that the
  walk ends, needs the least element of a set of numbers (`NatLeast`). In the model
  an address is the function from the positions of its bits to them, and a mask,
  which has one bit, is the position of this bit; `MaskLim` is the mask with the
  shift the code avoids.
- `MCIsGenuine` (`[]MCGenuine`): these three together in the run `servers`.

### Containers and algorithms (`DataProofs`)

- `StdioIsFaithful` (`[]StdioFaithful`), for files, buffers and tables of streams of
  every size. `IoInv` says of the stream the copy reads that `next` and `buff_cnt`
  end where the last `read(2)` ended (`IoReads`), so that `getc` never returns what
  is not there, and of the one it writes that `next` is the number of characters
  that wait (`IoHolds`), that the buffer is full exactly when `buff_cnt` says so, and
  that `fflush` does not skip it (`IoWrites`: `last_op`, no flag but WRITE). The
  central equation, that what was read is what is in the file, what waits and the
  character in hand, is preserved by `flushbuf` because a write that fell short sets
  `ioFault`. A new copy takes the first two free slots of `iob` (`IoFreeSlot`).
  `IoNull` says that room in the stream being written means a buffer, while nothing
  failed; `flushbuf()` breaks it exactly when `malloc(3)` gives none.
- `MallocIsSound` (`[]MallocSound`), for heaps, blocks and minimal allocations of
  every size, sizes of a `Header` and values of `size_t`. What `malloc()` writes stays right only because the list is what it is,
  so `MaInv` says that there is a set of free blocks (`MaFree`) around which the
  links run in the order of the addresses, in both directions (`MaLinked`), that
  the blocks of this set, those in use and the one on its way back lie apart and
  below the break (`MaApart`), that no two free ones touch (`MaMerged`), and what the
  search has passed: for `malloc()` blocks that are too small, for `free()` blocks
  below its own. Three lemmas say what linking a block in, taking one out and
  putting one in the place of another do to such a list (`MaLinksIn`, `MaUnlinks`,
  `MaReplaces`); each sequence of assignments of the code is one of them
  (`MaPuts`, `MaMergesRight`, `MaMergesLeft`, `MaTakesWhole`, `MaSplits`). Merging
  with the neighbours in the list is enough because blocks that touch are
  neighbours (`MaRight`, `MaLeft`). The set is not a variable of the code; that
  the links from the sentinel on never leave it is an induction over the natural
  numbers, done on a set (`MaWalks`, `MaFreeBlocks`). The arithmetic of sizes is an invariant
  of its own (`MaFits`): the units asked for are `UnitsFor` the bytes, and `sbrk(2)`
  gets another number than was meant only for requests that `MallocSound` names.
- `BsCorrect` (`[]BsRight`) and `BsEndsEarly` (`[]BsLogarithmic`), for arrays of
  every length. What a search returns follows from what its loop has ruled out:
  `BsInv` adds `BsLoopInv`, the comments' own loop invariant ("arr[l] < val <=
  arr[r]", with arr[-1] and arr[arr_sz] as conceptual ends) generalised to the
  test each search makes: everything up to `l` passes the test and everything from
  `r` on fails it, and for the searches with inclusive bounds everything outside
  `l..r` differs from the value on the right side. That the test is monotone on a
  sorted array (`BsBelowDown`) carries the step; `BsHalved` is the arithmetic of
  the logarithmic bound, the overflow-safe midpoint is in `BsMidBetween`.

Assumptions. The theorems use the assumptions on the constants that the modules
state and TLC evaluates: sets of threads, copies and instances are finite, the
boss is not a worker, bounds are natural numbers. A few deserve a word:

- `BarrierAssumption`: the threshold of the barrier is the number of threads that
  use it, as `main()` of `barrier.c` sets it.
- `BufsAssumption`: there is at least one buffer, and buffers have words.
- `CoAssumption`: typed lines are sequences of numbers.
- `NetworkingAssumption`, `EpAssumption`: the names of the listening socket and of
  "no descriptor" are not names of clients, and what else the web server's buffer
  may hold (a request that cannot be parsed, zeros, part of a page) is not the name
  of a file; the set of worker threads is finite.
- `MallocAssumption`: the least allocation and a header have a positive size, and the
  bytes of the least allocation are in the lower half of `size_t`, as 1024 headers
  are; requests are values of `size_t`, 0 among them.
- `StdioAssumption`: `iob[]` has room for the three standard streams, as
  `OPEN_MAX` has; the input is a sequence of characters.

Left to TLC, and why:

- everything under fairness (`MCFinish`, `MCNotified`, `MCWakes`, `RlServed`,
  `MCServed`): liveness is out of the prover's reach;
- what recursive definitions compute (`MCAnswers`, `BstSound`, `MCComputes`,
  `MCPointers`, `MCRecursion`): those modules use recursive operators, and
  induction over data is not available. `SlSafe` and `MallocSound` are the
  exceptions that could be proved: their lists are recursive functions on the
  numbers up to the size of the list, and the induction over the natural
  numbers they need can be done on a set (`SlChain` of a list laid out by a
  function is the range of that function).

## Disagreements between text and code

| Run | Text | Code |
|---|---|---|
| `barrier_spurious` | barrier.c promises that threads meet | a spurious return of `pthread_cond_wait` lets a thread through |
| `daemon_instances` | one instance of the daemon | a failing first `fork(2)` leads into the main loop without the lock |
| `pty_fork_returns` | `pty_fork()` returns twice only if both sides succeeded | a signal that interrupts the parent's `read(2)` makes it fail alone |
| `sleep_reliable` | sleep3.c is a reliable sleep(3) | an alarm that fires between another signal and `alarm(0)` stays pending and kills the caller |
| `system_child` | SIGCHLD is blocked while system() waits | the set that is blocked is empty: the caller's handler runs for system()'s child |
| `bst_parents` | parent pointers support successor and predecessor | a deletion leaves one on freed memory |
| `queue_order` | a min-heap | parent and child indices do not match |
| `ping_late` | the RTT of the corresponding message | a late reply counts for the next ping |

The entries under `findings` quote the lines. Seven more configurations, not among
the runs, show in seconds that a sentence of one program says more than the
property that the runs check; TLC reports their invariant violated.

| Configuration (module) | Text | Code |
|---|---|---|
| `PtyWindow.cfg` (`MCProcesses`): `PtGuarded` | pty.c:381-383: the parent "does not receive the signal before it even calls setjmp(3)" | the handler is installed on line 308 and SIGTERM blocked on line 314 |
| `NewServer.cfg` (`MCServers`): `EcDestroyed` | README.md:14 of client_server: `destroy_server()` destroys the central point of contact | between lines 35 and 41 of `api.c` it has no name to unlink |
| `DiagonalSearch.cfg` (`MCData`): `DiagonalFinds` | 2d_binsearch/solution.c:1-2: find an element of a sorted matrix | an element outside the two rectangles the search goes on with is missed (line 86): 4 in the rows 1 3 5 and 2 4 6 |
| `MissingInt.cfg` (`ArraysStrings`): `MissingIntFound` | missing_int/solution.c:1-2: "finds and returns an integer that is not in A" | line 20 clears a part of the table only; the assertion on line 29 fails |
| `CopyBits.cfg` (`BitsNumbers`): `CopiesField` | copy_bits/solution.c:13: end up to `sizeof(unsigned)*CHAR_BIT-1` | a shift by the width of the type leaves the mask empty (line 18) |
| `ConcatCost.cfg` (`Recursion`): `ConcatCheapest` | optimal_concat/solution.c:12: "minimize the cost" | only one string is appended at a time: 9 instead of 8 for four strings of one letter |
| `RedundantParens.cfg` (`Expressions`): `RedundantOnly` | redundant_parens/solution.c:7-9: "removes all pairs of redundant parentheses" | those of `a*(b/c)` too: 2\*7\*(3/5) becomes 2\*7\*3/5, printed with the value 0 |

## Not modelled

- Thin wrappers of system calls (`ls`, `find`, `uname`, ...), the simple echo
  programs and path MTU discovery, and small demonstrations that make a few
  calls in a row: pure I/O, nothing kept between two calls.
- The plain daemon: it is the unique daemon without its lock.
- Shell, Perl and awk scripts, C idioms, headers, generators of test inputs and
  timing programs, and the essays under `systems_design/`: no state of their
  own.
- Within modelled components: `free_table` of the hash table (nothing calls
  it); unbuffered streams of the I/O library, to which `main()` does not write; what
  the heap becomes once `free` merges a block whose header lies, or `sbrk(2)` was
  given another number than was meant, and the integer arithmetic of the operating
  system behind `sbrk(2)`; an overrun of `buff[1024]` in `top_box` (line 103), for
  which the words of the model are too short; the start of
  the open server as a daemon; the simulator's router, which only creates
  FIFOs; remainders of negative numbers in `sort_modulo3`; the parsers of typed
  trees.

Terminal settings, file modes and text formats are left out of the modelled
programs unless a property depends on them. `PROJECT.json` gives the reason for
every component.

Oddities met on the way that have neither a run nor a configuration of their own,
because no text of the repository contradicts them, the program never gets there,
or the model's inputs leave them out:

- *Processes and servers.* A block handed out after a split keeps the size of
  the block it was split from (`malloc.c:39`). The open server reads one
  `siginfo` per edge of its `signalfd`, does not answer a name with a blank unless
  a number follows (`AnswersTo`), accepts one connection per edge of its socket
  (`opend.c:339`: of two that come at once the second waits until another client
  connects, and `MCServed` says nothing of it), and keeps the descriptors of clients
  that left; its fork/exec client gets SIGPIPE if `execl` fails. The epoll echo
  server may send two chunks of one client in the other order, and does not close a
  client that closed. The keepalive server and the open server's daemon hand `epoll_wait(2)` the size of their buffer
  in bytes for the number of its entries (`tcp_keepalive/server.c:85`,
  `opend.c:372`); the keepalive server never sets `SO_KEEPALIVE`;
  the web server's error line reads "400 OK". The error of
  `pthread_create(3)` in `ssignals.c:82` is tested with `< 0`, so that `main()` waits
  for ever when no thread was made (`SwMainStep`; `MCFinish` asks for the end only
  where there is a thread). When the parent of pty leaves on
  SIGTERM the child keeps the master; `remote_login_client` spins after end of
  file or a closed connection, and calls `cfmakeraw` on a zeroed structure.
- *Searching and sorting.* `kth_largest` accepts k = 0 and then returns the
  array's length; `wave_array` reads before a monotone array;
  `bin_search_last_occurrence` reads `arr[-1]` when everything is greater (the
  answer is still right); `bin_search_closest` has nothing to return for an
  empty array and `sum_to_n` subtracts one from an unsigned length of zero;
  `rotation_amount` returns -1 for an array that is not rotated. The quicksort
  of `unique_bounded_rand` skips the right part when the pivot is the least.
- *Lists, trees and graphs.* The buffer of `bigint_sum/follow_up.c` has room
  for the digits of the sum but also holds the zeros put before the shorter
  number; `is_bst` refuses a tree that holds INT_MIN or INT_MAX; `bottom_view`
  prints by horizontal distance where its comment says level by level;
  `same_inorder` leaves its threads in trees that differ; `trees()` of
  `trees_count` counts neither shapes nor labelled trees (`Trees` has the
  recurrence, no property is about it); `flatten_bst` frees from the old root
  and so keeps the nodes before it; `package_dependencies` takes a blank before
  a comma for a package without a name; `random_node` asserts that a tree is
  not empty. The adjacency lists never reset `next_alloc`; costs of `dijkstra`
  may wrap; `tree_of_arrays` prints a path once per matching.
- *Recursion and expressions.* `string_combinations` never repeats a letter
  that the input repeats; the two versions of `canoes` differ on an empty input
  (0 and UINT_MAX); the follow-up of `magic_numbers` misses the all-ones
  solution; a letter may be on the boggle board once more than announced, deleted leaves are not freed, and
  adding a word resets the scores of its prefixes; LIS is non-strict and
  undefined for an empty array; the calculators read "+5" as a number.
- *Arrays, strings, bits and numbers.* Tables of `UCHAR_MAX` entries in
  `is_permutation` and `unique_chars`; `normalize_path` has a stack that is too
  small and overlapping copies;
  `is_rotation` accepts shorter substrings; `magnitude_pole` ignores the ends;
  `duplicates_within_k` answers no when k + 1 exceeds the size; `transpose` of
  nothing, an empty line in `reverse_words_spaces`, an empty pattern in
  `match_permutations`; `tokenize_words` leaves no room for the terminator;
  `stream_sub` writes a digit -1 when a borrow meets a 0; `rgb_stripes` swaps
  colours and directions; `is_power_two(0)` is true; shifts by the full width in
  `copy_bits` and `insert_into`; `divide()` of INT_MIN and by 0; `equation` keeps
  the last pair per sum.

## Plan

The order of the work was: threads, processes, signals, servers, containers,
algorithms; within each area first the program with the most interleavings, its
runs, then its proofs. Of the safety properties the runs check, what is left
without a theorem is what the recursive definitions compute (see "Left to TLC").
Left for later: the unbuffered streams of the I/O library, the start of the open
server as a daemon, and the heap after `free()` merged a block whose header lies.
