# Verification of unix_1

The repository is a collection of small C++ programs: memory allocators, merge
sorts, two shells that run a pipeline, and exercises with threads, sockets and
message queues. There is no documentation; what a program is meant to do is said
by its comments and by the tests in its `main`. This directory holds TLA+ models
of the programs that have state worth checking, TLC configurations, and proofs
checked by TLAPS.

## 1. Inventory

| Part | Source | State it keeps | Operations | Interacts by |
|---|---|---|---|---|
| List allocator | `2_3/main_list.cpp` (copy: `NS1` of `2_3/test.cpp`) | doubly linked list of `TStore` nodes, `memory`, `available_memory` | `Alloc`, `ReAlloc`, `Free` | calls; a pointer to the node is kept in the memory that the user writes to |
| Map allocator | `2_3/main_map.cpp` (copy: `NS2`) | a bit per cell, `memory` with the size of a block before its data | `Alloc`, `ReAlloc`, `Free` | calls |
| Boundary-tag allocator | `NS3` of `2_3/test.cpp` | segments with a tag at both ends, list of free segments | `Alloc`, `ReAlloc`, `Free` | calls |
| Benchmark | `2_3/ClTestPerform.*`, `2_3/test.cpp` | table of times | `Run` | calls the allocators through `AbstarctFun::run` |
| Merge sort, POSIX threads | `sort_merge_pthread.cpp` | two arrays shared by all threads | `mergeSort`, `thread_func` | shared arrays, `pthread_create`, `pthread_join` |
| Merge sort, OpenMP | `sort_merge_OpenMP.cpp` | the same | `mergeSort` | parallel region, task, taskwait |
| Merge sort | `sort_merge.cpp` | the same | does not compile | |
| Shell from the last command | `bshell.cpp` | descriptors of every process, `argv` | `GetLastCommands`, `SplitString`, `SettingsLastCommand`, `ForkBack` | `fork`, pipes, `execvp` |
| Shell from the first command | `shell.cpp` | the same | `GetCommands`, `ForkNext` | the same; does not compile |
| Condition variable, barrier | `pthread_cond.cpp` | mutex, condition, barrier | two threads and `main` | the objects |
| Mutex, spin lock, rwlock | `pthread_mutex.cpp` | four locks | four threads and `main` | the locks |
| Thread creation | `pthread_main.cpp` | none | one thread | `pthread_join` |
| Descriptor passing | `sockPair2.cpp` | a socket pair, descriptors | `parent`, `child` | messages with descriptors (`sockPair.cpp` is empty) |
| Message queues | `POSIX_mq.cpp`, `SYSV_mq.cpp` | a queue that outlives the program | send, receive | the queue |
| Semaphores, shared memory | `semofors.cpp`, `semPOSIX.cpp`, `shm_*.cpp` | kernel objects | create, one operation | nobody else in the repository |
| Derivative | `2_1/derivative.cpp` | map from exponent to coefficient | `derivative` | none |
| Lazy string | `2_2/StringPointer.cpp` | pointer and whether it is owned | `->`, conversion, destructor | none |

What is hard in them, and what makes them correct:

- **Allocators.** Long sequences of legal calls. A link, a size or a header that
  one call leaves wrong is noticed several calls later. Correct means: blocks do
  not overlap, contents survive `ReAlloc` and the calls of others, memory that is
  freed can be used again, and a call fails only if nothing fits.
- **Thread sort.** Threads share both arrays without a lock; the argument of a
  thread goes out of scope before it is read; thread creation may fail. Correct
  means: no race, halves sorted before they are merged, and nobody waits for ever, as
  long as threads are started and find their arguments.
- **Shell.** Which process holds which end of which pipe, while processes run in
  any order and fail at any step, and nobody waits for a child. Correct means:
  each command has its own two ends and no other, so that the output is complete,
  and that every process ends.
- **Derivative.** Every part of a term may be missing, and the output leaves parts out
  as well. Correct means: a term is read as it is written, what is written reads as the
  derivative, and what is no polynomial gets an empty answer, as the tests in `main` say.
- **Line parsing.** Empty commands, blanks at the end, a bar at the end.
- **Threads that wait** (`pthread_*.cpp`): lost wake-ups, locks held when a thread
  cannot be created, locks destroyed while they are used. Correct means: who holds a
  lock that is wanted goes on to release it (it waits for no more than a lock, and no
  threads wait for each other all round), nothing is destroyed in use, and `main`
  comes to its end.
- **Descriptor passing.** The end of the input never comes if any process still holds the
  other socket, and a message may carry that very socket. Correct means: the child
  keeps no descriptor, writes its line once, and both processes end.
- **POSIX message queue.** The queue outlives the program, which only a signal can end,
  and holds few messages. Correct means: all runs use one queue, who receives empties it,
  and a run waits to send only if nobody is left who would receive.

`PROJECT.json` lists the single hazards with their lines.

## 2. Modules

| Module | Models | Extends / uses |
|---|---|---|
| `AllocatorContract` | what an allocator promises, abstractly | |
| `TStore` | the node list of `main_list.cpp`: split, join, free | |
| `ListAllocator` | `SmallAllocator` of `main_list.cpp` and its user | `TStore`, `AllocatorContract` |
| `MapAllocator` | `SmallAllocator` and `MemoryMap` of `main_map.cpp` and its user | `AllocatorContract` |
| `BoundaryTagAllocator` | `SmallAllocator` of `NS3` in `test.cpp` and its user | `AllocatorContract` |
| `MergeOps` | halves of a segment, `merge`, and `mergeSort` of `sort_merge.cpp`, which has no threads | |
| `MergeSortPthread` | `mergeSort` with threads | `MergeOps` |
| `BShell` | processes, descriptors and pipes of `bshell.cpp` | |
| `CommandLine` | `GetLastCommands`, `SplitString` of `bshell.cpp` | |
| `Derivative` | `derivative()` of `derivative.cpp` | |
| `PthreadPrograms` | the calls that `main` and the threads make in `pthread_mutex.cpp`, `pthread_cond.cpp`, `pthread_main.cpp` | |
| `Pthreads` | what these calls do, and when they wait | `PthreadPrograms` |
| `SockPair2` | parent and child of `sockPair2.cpp`, their descriptors | |
| `PosixMq` | several runs of `POSIX_mq.cpp` and the queue they share | |
| `MC*` | the instances that TLC checks | |
| `ListAllocatorProofs`, `MapAllocatorProofs`, `BoundaryTagProofs`, `MergeSortPthreadProofs`, `BShellProofs`, `PthreadsProofs`, `DerivativeProofs` | theorems | the module of that name; `BShellProofs` also `CommandLine` |
| `MessageProofs` | theorems | `SockPair2`, `PosixMq` |

Some modules define, before an operator, a variant of it with a plausible slip
(`joinRightNoBackLink`, `CallRightNoJoin`, ...). They are not used by any
specification; with one of them in place of the operator that follows, a property
fails (the `mutants` of `PROJECT.json` say which).

### AllocatorContract

The state is what a user sees: the pointers it holds, and the bytes behind each.
`Alloc` adds a block that overlaps no other, `ReAlloc` keeps the common prefix,
`Free` removes one block, `Write` changes one byte of one block. All three
allocators of `2_3` are meant to implement it; the refinement mapping reads the
bytes of `memory` behind each pointer held.

### TStore and ListAllocator

`heap` is a function from the `TStore` objects that exist to records with the
fields of `Info` and the two links. The operators `SplitMem`, `joinRight`,
`joinLeft`, `AllocPartMem`, `ReAllocMem`, `freeMem` and `defragmet` map a list to
a list, each with the assignments of the method of that name in their order. `First`
is the node inside the allocator, which is never deleted.

In `ListAllocator` each iteration of the loop in `Alloc` is a step (`Advance`,
`Place`, `ThrowBadAlloc`, `NewThrows`), so that the walk is visible; `Free`, and
`ReAlloc` in place, are one step, and `ReAlloc` that moves enters the same loop and
finishes with copy and `Free`. `memory` holds the user's bytes and the headers: a
byte of a header is the node it points to, and `getPointer` reads it from there.
So nothing but the design of the allocator keeps a user's write off a header.
`new TStore` may fail (`NewThrows`): the set `Node` is what the C++ heap has room for.

Left out: alignment, the wrap of a size near 2^32, printing.

### MapAllocator

`map` is the set of cells whose bit is set. The model follows the cells that the
code really touches: `Free` and a shrinking `ReAlloc` clear bits from the data on
and not from the header on; `isFree` wants one free cell more than asked;
`ReAlloc` looks for cells to add one header too far. Consequently blocks may
overlap, and headers be overwritten. The code goes by whatever it reads in front of a
pointer: `Info` gives the count that was written there, or, once a part of it has been
overwritten, any number up to `MaxCount`. It is read at each place where the code reads it: when `ReAlloc` begins,
again for the copy after `Alloc` has run, and again by `Free` after the copy
(`ReAllocMove`, `Release`). So the user of the model may pass any pointer it holds.
A large number makes `ReAlloc` take a block to be long enough, and then the
user writes past memory; or the copy leaves memory. There the program is undefined and the model stops
(`thrown = "undefined"`); `out_of_range`, thrown by `bitset::reset`, ends the program.
`memcpy` of bytes that overlap copies them as they were before, and `MapAssumption` asks that `MaxCount`
is so large that no sum of sizes wraps.
The variable `most` never changes: it says how many blocks this user holds at a time, one
or `MaxLive`. For a user with one block the allocator keeps the contract, with more it
does not; `TypeOK` and `DataInMemory` are checked and proved for both.

### BoundaryTagAllocator

`memory` holds the user's bytes and the tags, each in its first cell. As in the
code, everything is found by address: the end tag behind the data, the left
neighbour by the end tag in front of a segment, the next free segment by `next`.
An iteration of the loop of `Alloc` is a step (`Pass`, `TakePart`, `TakeWhole`). The
loop has no `break`, so that a call may take several segments; it returns the last,
and what it took before is lost. `ReturnNull`, `ReturnResult` and `Copy` end a call of
`Alloc` or `ReAlloc`. `Free` looks at its left neighbour at once (`StartFree`); if this is
not free it walks to the end of the list (`Walk`) and appends (`Append`). The variable
`stack` never changes: it says whether the user frees its blocks in reverse order only.
`Forget` drops what is in memory that nobody holds, which keeps the state space small.

### MergeOps and MergeSortPthread

Each thread has a stack of calls of `mergeSort`; a call has a segment, the line it
is at and the thread it has started. `Threshold` stands for the 500000 of the code,
and `ThreadLimit` for how many threads can be started before `pthread_create` fails
(`StartFails`, which may happen at any call). `data[t]` is what a thread finds where its argument points to. The
thread reads it in `thread_func`, at any time later; a later call of the thread that
started it may have put its own `data` there (the right half is called after the
block of `data` has ended, and where it is inlined it may use the same place: each
call chooses, `shared`). `sound` is a history variable: no thread has failed to start
or had its `data` overwritten before it read them.
`thread_func` reads `data` as a whole. If it holds something else than the thread was given, the
thread may as well read some of the three fields before it was put there and some after
(`TornRead`); it then has an origin with the size of another segment, and the model follows it no further
(`astray`). A call that could not start a thread joins an id that was never written, which is undefined (`JoinNobody`): the join
returns, or never does (nothing makes this step fair), or the program goes `astray`.
`memcpy` and `merge` are one step each; `NoRace` is what justifies it, and where it does not hold (without
`sound`) nothing is said of what is in the arrays.

`mergeSort` of `MergeOps` is the sort without threads: a recursive function on the segments
of an array, which gives for each what `result` holds there when the call for it returns.
`merge` is the three loops of the code by how many of the first *k* ints written come
from the left half (`left_taken`); `TakesLeft` is the choice of the next one. `SortedAtEnd` says that the
threads give what `mergeSort` gives, and that this is the ints that were read, in order.

### BShell

Process *i* runs command *i* and makes pipe *i* between *i* - 1 and *i*. A
descriptor table maps descriptors to open files; `open` and `pipe` give the lowest
closed ones. Each system call of `ForkBack` is a step, with its failure (`OpenFails`,
`PipeFails`, `ForkFails`, `ExecFails`). If the first command is not found, `execvp`
returns and the code goes on with a further pipe and fork for what lies before the
first command: `argv[0]`, which is NULL, and below it (`Below` bounds how far).
Programs copy items from descriptor 0 to descriptor 1; they are external, as is
the kernel (waiting on a full or an empty pipe, end of input, SIGPIPE). The shell
may be started without standard output or error, in which case `dup2` fails.

### CommandLine

A line is a sequence of bars, blanks and letters. `BarsFound` follows the loop of
`GetLastCommands`, which skips a character behind each bar and leaves the line if
the bar is the last character (`LeavesLine`); from there on nothing is modelled (`undefined`).
`SplitString` gives the words of a command; each of its inner loops stops where a row of
characters ends (`RowEnd`).

### Derivative

A piece of the line, from one sign to the next, is a step: `PutTerm` adds what `get`
reads from it to the map `db`, `Reject` ends with an empty answer, `Finish` writes the
derivative. `stoi` and `get` go through the piece by position, as the code does with
iterators; `Skip` gives where its loop over blanks, digits or letters stops, `Find` where
the loop of `derivative` finds the next sign. Numbers are read and
written digit by digit, since the properties are about what is written. Integers
wrap at `IntMax`; what the code does on overflow is undefined, and the properties ask
for a right answer only where all products, or sums, are ints. `x` and `y` stand for the
letters, which the code does not tell apart; `Other` is the set of characters that it has
no use for. The line is either any string (`Lines`) or a list of terms (`Terms`, kept in `written`) in one
of its spellings: an optional sign, coefficient, `*`, variable, exponent, and blanks.
`TermsAssumption` says what such a list is: each term has a coefficient or the variable, and
all but the first have a sign. `ReadBack` is the loop of `derivative` over its own output, so that
`WritesDerivative` compares what is read from the line and from the output.

### PthreadPrograms and Pthreads

The three programs have no branches but the early returns, so that each is a sequence of
calls per thread, named as in the code; `Pthreads` has an action for each kind of call,
as the library defines it (external). `Fail` is `return 1` in `main`: the file cannot be
opened, a thread, spin lock or barrier cannot be made, or a join fails whose result
is looked at (`join_checked`, in `pthread_main.cpp` only); it ends all threads, whatever
they hold. `sleep` orders nothing. `CondWait` releases the mutex, which in
`pthread_cond.cpp` nobody has locked (by the standard this is undefined; it does nothing
in the model), and `CondReturn` takes it; `WakeSpuriously` is a return without a signal.
A signal that finds nobody (`SignalNobody`) is remembered by `lost`. `Waits` are the calls in which a
thread waits for something else than a lock; `HoldersGoOn` says that nobody is at one of them
with a lock that somebody wants.

### SockPair2

The file is read as if the headers it does not include (`stdio.h`, `stdlib.h`, `unistd.h`) were there.
Each system call is a step. A descriptor is for nothing, for a file that the program was
started with, or for an end of the socket pair; `socketpair` and `recvmsg` give the lowest
free ones, `started` is any subset of 0 to 2. A message is what it passes (`Closed` if
nothing); it keeps what it passes open until it is read, and goes with the last descriptor
of the socket that would read it (`Become`). What the parent has printed is written when
it ends, and reaches its socket if that is its descriptor 1 (`ParentReturn`). Any process may be
killed (`Kill`), and a write that nobody can read kills (`parentBrokenPipe`).

### PosixMq

Several runs of the program, each at one of its calls, share the name `/test.mq`, the
queues and their messages; a message is the run that sent it. A run is ended by a
signal only (`KillRun`), unless `foreign` says that another program has made the queue with
messages too small for what is sent (`mq_sendFails`) or larger than the buffer
(`mq_receiveFails`, which leads to `mq_unlink`). `mq_unlink` takes the name from whatever queue has it by
then, so that in the last case runs may have different queues: of two runs that have failed on the large messages
the first unlinks that queue, another run makes a new one, and the second unlinks the new one. `OneQueue` says that there
is no other way, and that each queue made costs one more failed run (`Failed`). A run that is killed may have a message in
hand, which is lost. What is written to the file is left out. `MqInit`, `MqNext`, `mqVars` and
`MqSpec` have these names because one module of proofs is about this module and `SockPair2`.

## 3. Runs

| Run | Instance | Shows |
|---|---|---|
| `list_safety` | 8 bytes, header of 2, sizes 0 to 2, at most 3 nodes | all safety properties of the list allocator, that it implements the contract, and that every call returns |
| `map` | 11 cells, header of 2, counts up to 15, sizes 0 and 2, one block or 2, all calls | marks only cells of memory, no block reaches past it unless its header had been overwritten, and the contract for a user with one block |
| `map_const` | 12 cells, counts up to 17, sizes 1 and 2, up to 3 blocks | a disagreement of code and test, see below |
| `map_lacked` | 10 cells, counts up to 15, sizes 0, 1, 3, up to 3 blocks | a disagreement of code and comment, see below |
| `tags` | 17 cells, tags of 2 and 1, sizes 0 and 2 | tags, free list and blocks agree, neighbours joined, every call returns, the contract; no leak for a user that frees in reverse order |
| `sort` | up to 4 ints of 2 values in every order, 6 in some; threads above 2 ints, 3 threads | no race and sorted, if each thread was started and found its argument; no access outside the arrays unless an argument is read in parts; ends unless a call joins a thread that was not started |
| `shell_pipeline` | 4 commands, 3 items, pipes of 2 | pipes, output, signals, end |
| `shell_command_line` | lines up to 7 characters | words as written; commands as written, in lines with no empty command behind a bar |
| `derivative` | lines up to 4 characters of 9, lists of up to 3 terms, ints up to 127 | terms read as written, output reads back as the derivative (if no product overflows), lines rejected in which a sign, a star or a power has a neighbour it cannot have |
| `pthreads` | the three programs, up to 4 threads and 6 objects | nothing is destroyed in use, whoever holds a lock that is wanted waits for no more than a lock, no circle of waiting threads, the program ends unless the signal was lost |
| `sock_pair` | descriptors 0 to 5 | who holds which end, one line of output, both processes end |
| `posix_mq` | 4 runs, a queue for 2 messages | one queue (and the one way to more), emptied by who receives, the only way to wait for ever |

**Why the bounds are enough.** Eight bytes with a header of two and three nodes hold up
to three blocks; there are exact fits, splits with a
remainder, a free block to the left, to the right, on both sides, next to `First`,
and requests that fail for want of memory and of nodes. The theorems then remove
the bounds (but for `CallReturns`). For the map allocator eleven cells with two blocks of up to four show overlapping
blocks, headers overwritten by the user, by `Alloc` and by the copy, and counts read there from 0 to more than memory has; a single block grows, shrinks, moves and is
freed. `MaxCount` of `map` is the least that `MapAssumption` allows. Seventeen cells with tags of three in all hold four segments of size 0: a
segment freed between two free ones, one at either end of memory, lists of several
segments in any order of addresses, and calls that take more than one segment. In
`sort` a call on six ints and both its halves start threads, so that a thread starts
a thread; three ints have halves of different size; thread creation fails and
`data` are overwritten at any call, and read in parts. Four commands have a first, a last, and two inner processes
that are parent and child at once; three items do not fit in a pipe, so that writers
wait. Seven characters give every combination of two bars, blanks, and empty commands.
Four characters have every pair of neighbours around a blank or between two other
characters, which is what the parser looks at, and one of the nine means nothing to it; three terms have a first, a middle and
a last one, equal and different exponents, and sums that cancel.

`pthreads` runs the programs as they are, so that only `MaxThreads` and `Object` are
given. `sockPair2.cpp` never has more than six descriptors open in a process. Two messages
fill a queue that has ten in the code; with four runs it is filled by runs that are
killed while others wait, the queue is removed while runs still have it open, and two runs come to have different queues.

Two values tell a sorted segment from an unsorted one and show duplicates.

Type invariants are checked where they say something of the code: that no cell, block
or call lies outside the memory or the arrays.

**Deadlock** is checked for the list and the boundary-tag allocator. The other programs end, or are
ended by an exception, and their configurations do not check it; `Ends`,
`EveryProcessEnds`, `EndsUnlessSignalLost` and `BothEnd` say instead that nobody waits for ever.

**Fairness.** `list_safety`, `tags`: the loops of a call go on until it returns; the user
need not call anything. `sort`: every thread that can run does at some time (weak
fairness of each thread), as the system's scheduler provides; a join that has no thread to wait for
need not return. `shell_pipeline`: weak
fairness of each process, and of a program's reading, writing and ending; that a
program quits early is possible and never assumed. `pthreads`, `sock_pair`, `posix_mq`:
weak fairness of each thread, process or run that does not wait. A lock is asked for once by
each thread, so that one that is free is got without strong fairness; no call is
assumed to fail, nobody to be killed, and no wait to return without a signal.

### Findings

Both are in the map allocator.

- `map_const`: the test in `main` says of a block that is not touched
  "space P2[0:10] is const" (`main_map.cpp:144`, `148`). A shrinking `ReAlloc` ("cut off
  excess cells", l.86) frees as many cells as it should, but from the start of the
  data, and `Free` frees from the data on and not from the header on; another block can
  then be given the same cells, and writing to one changes the other.
- `map_lacked`: "memory lacked" (l.42) is the failure of `isFree`; it also fails if
  exactly as many cells as needed are free.

`main` of the program does not meet them, since its memory is far larger than the
blocks it asks for, and its user stops after few calls.

## 4. Proofs

TLAPS proves the following for all values of the constants that meet the
assumptions (`StoreAssumption`, `SizeAssumption`, `MapAssumption`, `SortAssumption`,
`TagAssumption`, `ShellAssumption`, and those of the other modules, each as weak as the code has it: a positive header, a memory that
holds at least one header, and the like).

**List allocator** (`ListAllocatorProofs`): `TypeOK`, `BlockListOK`,
`FreeMemoryCoalesced`, `HeadersIntact`, `NoLeak`, `CallOK`,
`FailsOnlyWhenNothingFits`, and `KeepsContract`, the refinement. The inductive
invariant `IInv` is the conjunction of the first six: none of them is inductive
alone. Headers survive a write of the user because blocks are apart; blocks stay
apart because `Free` and `ReAlloc` find the right node in a header; the copy in
`ReAlloc` stays in its block because of `CallOK`, which relates what was read
before `Alloc` to the list after it. The first part has a lemma for each method of
`TStore`: applied to a well-formed list it gives a well-formed list, and these are
the nodes and extents of it. The order on blocks is by address, so that no
induction along the list is needed: a node's `next` is the block that starts where
it ends (`LinksOK`), blocks are pairwise apart (`Apart`), and each block but the
last is followed by another (`TilesMemory`).
`AvailableExact` needs a count of bytes besides: `available` is what remains when the bytes
of busy blocks are taken away, and every other byte lies in a free block, as there is no gap
(were there one, its first byte would follow the end of a block). The sum is stated as
the cardinality of a set of bytes (`FreeBytes`), so that no sum over a set has to be unfolded.

**Map allocator** (`MapAllocatorProofs`): `TypeOK`, `DataInMemory`, and `LastCellIdle` (the
last cell is never handed out), for every user, whatever is read from overwritten headers. The invariant `IInv` is `TypeOK`, `LastCellIdle` and
`PointersInMemory` (each pointer is inside memory, with a header in front of it), which needs that `isFree` asks for one cell more.
It is inductive although blocks may overlap. `DataInMemory` is an action property: that all blocks lie in
memory is not an invariant of this code, since a block whose header has been overwritten by a large number is
taken to be long enough for any size; what is proved is that there is no other way. Only the count that
`ReAlloc` reads first matters for it, as the new block of a move lies in memory whatever is read later.
`KeepsContract` holds of a user with one block only: then the cells of its header stay marked, so that its header is
intact (`OneBlock`, `OneIntact`), and it moves only if it cannot grow in
place; hence the copy from the old bytes to the new ones cannot read what it has
overwritten (`RefinesMove`: had the new block begun among the old bytes, there would have been room to grow).

**Boundary-tag allocator** (`BoundaryTagProofs`): `TagsAgree`, `FreeListOK`,
`FreeMemoryCoalesced`, `NoLeak` (for a user that frees in reverse order),
`FailsOnlyWhenNothingFits`, and `KeepsContract`. Tags, list and neighbours are
found through each other, so the invariant `IInv` says that there are a set `S` of segments and a
list `L` of free ones with which all of them agree: memory is a row of the segments in `S`, with equal tags
at both ends (`WellFormed`); `next` and `prev` run through `L`, which has every free
segment once, except one that `Free` is about to append (`ListOK`); no two neighbours are
free, except that one (`Coalesced`); what the user holds is a busy segment of `S` (`InUse`); a loop in
progress stands at a place of `L`, or at the busy segment it has just cut out, whose `next` still leads
back to the list (`Searching`, `Appending`); and for the user that frees in reverse order
the blocks fill the end of memory (`StackOK`). Every change of tags (`Unlink`,
joining with a neighbour, cutting a segment in two) has a lemma that gives `S` and `L` after
it. That the set `Segments`, which the properties find by going from tag to tag, is this
`S`, is shown by looking at the least segment that would be missed (`SegmentsFound`).

**Sort** (`MergeSortPthreadProofs`): `NoRace`, for any ints, any `Threshold` and any number of
threads. The invariant is about the calls of all threads at once (`Frames`; a thread that has
been created and has not yet read its argument counts as called). A call above another one is on
a half of the segment of the lower one (`Above`), a thread is on the half that was lent to it
(`LentCall`), and any two calls of different threads are on ints apart, or one of them is inside
a half that the other has handed on and will not touch before it comes back (`Pair`). `NoRace`
alone is not inductive, as it says nothing of calls that wait. Each way in which calls change has
a lemma about all functions from threads to calls: `PushGood` (a call for a half), `GotoGood`,
`ReturnGood`, `BeginGood` (a new thread). `ReturnGood` rests on `Alone`: inside the
segment of a call that has handed on nothing no other thread has work. All of it needs
`sound`: if an argument is overwritten two threads may be given the same half, and if a thread cannot
be started nobody sorts the left half, which is not a race but is not sorted either. That `sound` is enough is the
theorem `NeverAstray`: until then each call has started the thread it is to join, and a thread that has still to read its
argument will find what the call has given it (`AllGiven`), so that no read is torn and nobody is joined who is not there.

`SortedAtEnd` and `TypeOK` have the inductive invariant `SortInv`. Where the arrays are concerned it
says for each call, by its line, which halves are still as they were read and which are sorted
(`CallSorts`): at `join`, say, the left half is sorted in `result` unless the thread that
was started for it is at work, and the right one is if the call for it has returned. A step that writes
(`memcpy`, `merge`, a call for one int) changes the segment of one call; that what other calls find
is the same afterwards follows from the tree of the calls above, since a half that another call still
relies on is apart from this segment. So sortedness rests on the absence of races. Besides, a thread
that has not ended was started by a call that has still to join it (`Parents`), so
that none is left when `main` ends. What `merge` gives is proved of a walk through its two halves
(`Walk`): it takes each int of either half once (`MergeCounts`), and from halves in order
the ints in order (`MergeAscending`). From there `SortsSegment` shows, by the least size of a segment for
which it would fail, that `mergeSort` sorts. The part of it that `TypeOK` needs holds without `sound`: even a thread that finds
the wrong argument, but reads it as a whole, finds a segment inside the arrays. One that reads it in parts need not; the
model stops there, so that nothing is proved of it but that it takes a lost argument. `SortAssumption` asks of the
input only that it is an array of at most `N` ints.

**Shell** (`BShellProofs`): `RunsWithItsPipes` for any number of commands. The
invariant `Staged` says, for each line of `ForkBack`, what the descriptors of a
process at this line are, from the output it inherits to the pipe it has made. No
step touches another process than its own and the one it forks (`OneProcess`).
`KilledOnlyByReader` needs the order in which they come and go (`Order`): processes are made
from the last command to the first, and who ends without a failure has read to
the end, so that all to its left, who hold the pipe, have ended before. `ResultInOrder` needs the
way of every item (`FlowInv`): there are numbers `r[i]` and `w[i]` of items that
command `i` has read and written, and at any time it holds the items from `w[i]` to
`r[i]`, the pipe to its right those from `r[i + 1]` to `w[i]`, and the file those up to
`w[LastCommand]`. So nothing is lost, doubled or overtaken.

`LinesAsWritten`, in the same module, is about `CommandLine`: `LineAsWritten` holds for lines of any
length. Both loops of the code are walks from left to right that put together a list
(`Rest`); that such a walk exists is shown once (`RestExists`). The bars that `BarsFound`
gives go from left to right, and are all bars if no command is empty (`BarsAreFound`); what lies between
two of them is a stretch without a bar, and every stretch does (`PartIsStretch`,
`StretchIsPart`). The words from a place on are the next word and those from its end on
(`NextWord`), which makes the list of `SplitString` one of all words (`WordsListed`). The only
assumption is that `MaxLine` is a natural number (`LineAssumption`). The two modules share no variable;
the specification of this theorem is `LineSpec`, that of the others in the module `Spec`.

**Threads** (`PthreadsProofs`): `DestroyedUnused` and `HoldersGoOn` for every program of
which four things can be read off its text (`Disciplined`): only `main` destroys, after it
has joined who uses the object; a lock that is taken is released further down by the same
thread, which before that joins nobody and waits at no barrier and for no condition; locks have an order, and a thread that has
one takes only lower ones (`LocksInOrder`); and the mutex of a wait is not
locked by others. The invariant `Inv` says that who was joined has ended, that
what is destroyed was destroyed by a call that `main` has passed, and that who holds a lock has
passed a call that takes it and not yet the one that releases it (`HeldSince`). That no threads wait for each
other all round follows from the order: of a set of waiting threads, the one that wants the lowest lock
would wait for one that wants a lower one still. The three
programs of the repository are shown to be disciplined (`RepositoryPrograms`).

**Descriptor passing** (`MessageProofs`): `NoDescriptorLeft`, for any number of descriptors and
whatever the program was started with. The invariant says what the parent holds before the fork
(`ParentStage`) and what the child holds at each of its lines (`ChildStage`): both sockets, then its own, then
its own and one more that `fd` names. `HelloOnce` follows the message from the parent through the
socket to the child: it is in one of the three places, and the line has been written
only when the child is past the call that writes it.

**Message queue** (`MessageProofs`, of the specification `MqSpec`): `OneQueue`, for any number of runs and
queues of any size. What has to be known besides is that the queue a run has opened is the one that has the
name, unless the messages of another program are too large (`NameKept`). In that case the name is counted: it has been removed
at most as often as runs have failed on the large messages, as nobody else comes to `mq_unlink` (`NameRemoved`).

**Derivative** (`DerivativeProofs`): `MalformedRejected`, `ReadAsWritten` and `WritesDerivative`, for
lines of any length over any alphabet, any list of terms, and ints of any width (`DerivativeAssumption`,
`LinesAssumption`, `TermsAssumption`).

- `MalformedRejected`: what `get` has accepted is a coefficient, a star, a variable, a power and an exponent in this
  order with only blanks between them. So each character of a piece has the right neighbours, and as pieces are cut at
  signs only, so has each of the line: the invariant `CutInv` says it of the part that has been cut off.
- `ReadAsWritten`: `Laid` says at which positions the parts of a term are, and each spelling is laid
  out like this (`SpellingRead`). From there `Skip` is followed through `stoi` and `get`, which gives the coefficient
  and exponent meant, as digits are read back to the number they were written for. The invariant `ReadInv` says that the line is
  read up to the end of term *k*, and that the map holds the exponents of the first *k* terms, each with a
  number that is congruent to their sum modulo the width of an int (`HasRead`). It is equal only in the end: a sum that is an int
  may have been none on the way.
- `WritesDerivative`: the map holds ints (`MapInv`); what `Monomial` writes for an exponent is the spelling of a term
  (`MonomialIs`), from which a coefficient is left out only if it is 1 or -1 and in front of `x`. The output is the row of
  these terms from the largest exponent to the least (`DescendingIs`, `OutputTerms`), no two of which have the same one.
  Reading it back piece by piece adds one term after the other (`ReadState`, `ReadsItBack`).

The functions that read, write and add up are recursive over a set of numbers; that such a
function exists and obeys its definition is shown once (`RecursionExists`), by the least number up
to which there would be none.

**Only model-checked:** all liveness (`CallReturns`, `Ends`, `EveryProcessEnds`,
`EndsUnlessSignalLost`, `BothEnd`, `QueueDrained`, `StuckBehindKilled`), which is out of the prover's
reach, as is `ENABLED`. Every invariant and every action property of the passing runs is a
theorem. The library's induction theorems cannot be used here, as they take an operator. Where a proof needs
induction on a number (the walk from tag to tag, the bytes of a store, the steps of `merge`, the
characters of a line, the digits of a number) it takes the least counterexample instead, which is a fact about sets of naturals;
in `DerivativeProofs` this is the lemma `UpTo`.

## 5. Not modelled

- `sockPair.cpp` is empty. `shell.cpp` does not compile (`prnt` is commented out), and is what
  `bshell.cpp` replaced: there `fork` comes before `pipe`, so that each process makes a pipe of
  its own. `sort_merge.cpp` does not compile either; its `mergeSort` is in `MergeOps`. Nor does
  `sockPair2.cpp`, neither as C++ (a string constant is passed as `void *`, headers are missing) nor as C without the headers; what it is meant to do is
  plain, and is in `SockPair2`.
- `sort_merge_OpenMP.cpp`: every thread of the team runs the right half, the copy and the merge
  on the same ints without a lock. That is a data race, hence undefined, and there is
  nothing the program promises that could be checked beyond it.
- `SYSV_mq.cpp`, `semofors.cpp`, `semPOSIX.cpp`, `shm_POSIX.cpp`, `shm_SYSV.cpp` do their system
  calls once and nobody in the repository is at the other end. The file with the
  process number, which three programs write, is read by none.
- `NS1` and `NS2` of `2_3/test.cpp` are copies of the modelled allocators; the benchmark
  (`ClTestPerform`) only measures times.
- `2_2/StringPointer.cpp`: one owner of one string; nobody copies one.
- What follows undefined behaviour: an argument read in parts or the join of a thread that was never started (`sort_merge_pthread.cpp`),
  a copy or a store outside memory (`main_map.cpp`), a line left behind its end (`bshell.cpp`). That it happens is in the models.
- The fixed size of `argv` (64) and of a line; widths of integers but in `Derivative`; in
  `sockPair2.cpp`, how many reads a text takes.

## 6. Plan

Every safety property of the passing runs is proved, so that what would come next widens the models:

1. Three hazards that no property covers: the sum that wraps in `Size_block` (`main_list.cpp:18`), for which
   `ListAllocator` would need sizes of a width; the 64 places of `argv` (`bshell.cpp:102`), which `CommandLine`
   would have to fill; and the races of `sort_merge_OpenMP.cpp`, whose behaviour is undefined.
2. The sort without `sound`: what `result` still holds when an argument was overwritten.
3. Liveness for all values of the constants, if a prover can take it.
