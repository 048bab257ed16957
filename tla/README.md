# Verification of the system-programming training programs

The repository is a collection of small Linux programs in C:

* the **shop simulation** (`src/IPC/`): three kinds of processes over one shared
  segment, one semaphore and one message queue;
* the **signal programs** (`src/Signals/`): a parent that reaps children in its
  SIGCHLD handler, a receiver of queued real-time signals, and a logger whose
  level other processes change by signal;
* the **utilities**: the LQ shell (`LQ_SHELL`), which runs commands with
  redirections and pipes and copies and moves files; a lister of partition tables
  (`fdisk_l`); a lister of directories (`ls_cmd`); and two that are not modelled
  (`Elf_parser`, `C_Compilation_and_Symbol_Analysis`).

Paths below are relative to `src/`.

## Inventory

### Shop simulation

| part | state | operations | talks to |
|---|---|---|---|
| `shop_common.h` and the IPC objects | quantity and price per item (shared segment); semaphore value, one SEM_UNDO adjustment per process; queue of typed messages | `semop` -1/+1 with SEM_UNDO, `msgsnd`, `msgrcv` by type, `IPC_RMID` | everybody |
| `shop_process.c` | `running`, the order in `process_order`, `new_quantity` | poll an order, check, sell, announce, answer; signal handler; removal of the objects | customers (orders, responses), notifier (alerts), manager (semaphore, segment) |
| `customer_process.c` | cart of at most ten lines, `total_price`, position in `checkout` | add a line, clear, checkout line by line, exit | shop through the queue; reads the segment without the semaphore |
| `inventory_manager.c` | `running`, menu choice, locals of `restock_item`/`update_price`; the notifier thread | view, restock, set price under the semaphore; take alerts; signal handler | shop through semaphore, segment, queue |

What is hard here: two writers of one quantity; a lock whose wait a signal can
break (and whose callers do not look); processes killed inside a critical
section; one bounded queue for orders, responses and alerts; responses that are
taken by type, not by customer; a checkout of several requests that can stop in
the middle; reads without the lock; shutdown while customers wait.

What makes it correct: no update is lost; the stock is never oversold; the
semaphore is never lost or doubled; every waiting customer has something coming;
a success is backed by a sale; a shutdown leaves nobody waiting.

### Signal programs

| part | state | operations | hard part | correct when |
|---|---|---|---|---|
| `non_blocking_wait.c` | children, one pending bit, the handler | fork, die, deliver, `waitpid` in a loop | SIGCHLD does not count deaths | each child is reaped and printed once, with its own status |
| `rcv.c`, `snd.c` | queue of `(si_code, value)`, handler | queue, register, deliver, handle | senders do not wait; signals before registration | order kept; the first fatal value ends the receiver |
| `real-time_logger` | level, handler frames, position in `log_message`, the file | request a level, register, deliver, handle, filter, write | handlers nest; level tested before it is used; partial writes; shared file | lines whole; stale messages bounded; the last of spaced requests wins |

### Utilities

| part | state | operations | hard part | correct when |
|---|---|---|---|---|
| `LQ_SHELL/lqshell_optm.c` | descriptor tables of up to six processes, the pipe, what each process waits for, what stdio has buffered | read a line, redirect, fork, pipe, wait, exit | who holds which end of the pipe; what a failure leaves open; what fork copies | streams are what the line asks for; nobody waits for an end that is kept open; every line ends, and the shell is as before |
| `LQ_SHELL/commands.c` | a directory, and the position between the system calls of `cp_command` and `mv_command` | test, open, copy in chunks, rename, the memory file of `freelq` | other processes act between the test and the use | a reported copy is complete; no file is lost |
| `fdisk_l/fdskL.c` | device, sector buffer, loop index, EBR sector, line number | detect, list an MBR, walk the EBRs, list a GPT | the walk overwrites the buffer its own loop still reads; the disk decides where it goes | what is listed is there, with its number; the walk ends |
| `ls_cmd/my_ls.c` | the growing array of entries, the heap, the current path | read, stat, link target, sort, print, free | entries vanish between `readdir` and `lstat`; seven error paths; comparators that cut time to int | nothing freed twice, leaked, lost or printed twice; order as asked |

### Not modelled

| part | reason |
|---|---|
| `Elf_parser/elf.c` | prints the fields of one header; no state |
| `prime.c` | a pure function of an int from 1 to 1000, settled by testing all of them |
| `LQ_SHELL`: `parse_input` | taken for the line it returns. Its array is reallocated after every tenth argument, so the NULL at index `arg_count` (line 46) is written at its limit: a question of bytes, not of steps |
| `LQ_SHELL`: `pwd`, `echo`, `type`, `envir`, `help`, `uptime`, `cd` | print only, or move the shell where nothing else looks |
| the shell: `>` against `>>`, contents of redirected files | the models follow who has a file open, not what is in it |
| a second start of the shop over live objects | the models begin with one start; `SETVAL 1` and `memset` over objects in use would need the state of another life |
| start-up failures of the shop, a failing `pthread_create`, end of input of customer and manager | the first two end the program before anything is shared or in undefined behaviour; with the third the menus spin for ever |
| the logger's setters in `logger.c` that no program calls | no caller |
| layout, colours, owners, sizes, model names and other text of `my_ls` and `fdskL` | only the number, order and identity of what is printed matters to the properties |
| overflow of quantities and prices | the integers of the shop are unbounded; those of `fdskL` and of the comparators of `my_ls` keep their width |

## Modules

```
ShopCommon ── ShopProcess ─────┐
           ├─ CustomerProcess ─┼─ ShopSystem ── ShopLedger ── MCShop (+ *.cfg)
           └─ InventoryManager ┘                    │ └ INSTANCE StockLedger
                                                    └─ ShopProofs
ChildReaper ── ChildReaperProofs
RtSignal    ── RtSignalProofs
Logger      ── LoggerProofs
LqExecute ── LqBuiltins ── LqShell ─┬─ MCLqShell
                                    └─ LqShellProofs ── LqStreamsProofs
PartitionTables ─┬─ MCPartition
                 └─ PartitionTablesProofs
DirectoryLayout ── ListDirectory ─┬─ MCList
                                  └─ ListDirectoryProofs
```

**ShopCommon** holds the IPC objects. `mq` is one sequence per message type
under one capacity: every `msgrcv` of the programs names one type, so the order
between types cannot be observed. `SemTake`, `SemGive` and `SemUndo` keep the
value and the SEM_UNDO adjustment of each server as the kernel does; an object in
`objects` exists. `sold`, `restocked`, `granted` and `interrupted`
are history variables. Names, times and text are abstracted; a price is a member
of a small set of naturals.

**ShopProcess** has one action per step of `process_order` that another process
could see: take an order, lock, test, compute, store, announce (while it holds the
lock, without waiting), unlock, answer (waiting while the queue is full), and then
the three removals. `ShopSignal` is a signal that only clears `running`;
`ShopSignalBlocked` one that interrupts a blocked `semop` or `msgsnd`, after which
`CHECK` exits. `ShopKill` is any other death.

**CustomerProcess** separates the three reads of `add_to_cart` (lines 108, 112,
113), since nothing protects them, and follows `checkout` request by request.

**InventoryManager** has the main thread and the notifier. `MgrSignalInLock` is
the branch of `sem_lock` (line 46) that returns without the semaphore;
`quantity += n` is a read and a write.

**ShopSystem** composes them, for one life of the IPC objects: it starts when the
shop has created and loaded them.

**ChildReaper**, **RtSignal** and **Logger** are each one program with its
environment. In `Logger` a handler frame is pushed per delivered signal, because
`sa_mask` is empty and only the signal being handled is blocked; the kernel picks
the lowest pending signal first and the frame on top runs first.

**StockLedger** is what the shop promises: orders decided one after the other, each
in one step against the stock and price of that moment, restocks and price changes
in one step, answers in the order of the decisions. **ShopLedger** maps the shop to
it: stock and prices are the segment, the orders are those in the queue preceded by
the one in `process_order` as long as nothing was written for it, the answers those
in the queue followed by the one decided. So the step that counts is `ShopStore` for
a sale, `ShopCheck` for a rejection and `MgrStore` for a restock. After a signal
broke the manager's lock a step need not be one of the ledger any more.

**LqExecute** is `execute_command_main` and `pipCmd`: the shell, the two sides of a
pipe and their three commands, each with a descriptor table (number to what it is
open on). `open` and `pipe` take the lowest free numbers below `MaxFds`, so that leaked
descriptors are felt; `dup2` and `close` change the table; `fork` copies it. Each `fork`,
`open` and `pipe` may fail. The shell does not close descriptors in the code where it
does not in the model: `lost` remembers that such a path was taken.

**LqBuiltins** takes `cp_command` and `mv_command` one system call at a time, in a
directory of the three paths they may touch, with steps of other processes (create,
write, remove) in between. **LqShell** adds the loop of `main`, the line that is typed
and the prompt that stays in the buffer of stdio when input is no terminal.

**PartitionTables** has one action per step of `handle_mbr`'s two loops. A sector is
what the program makes of its bytes; the field `chs` is the four bytes at which line
199 looks for the link of an EBR. `Wrap` stands for 2^32. `AllLines` is the listing the
tables mean, by recursion along the chain of EBRs. A device is a block device, since
`BLKGETSIZE64` has to succeed: `lseek` beyond its end fails, which line 186 does not look at, and
line 187 reads the sector at which the descriptor stands (`pos`, `Landing`), while line
195 adds the number that was asked for. `Ordinary` says of which disks `AllLines` is compared
with what is printed: one extended partition at most, in any slot, inside the disk; no
extended one in the later slots of its first EBR; and the bytes taken for the link of that EBR
are zero or lead, past the end of the disk included, to a sector that cannot be read or looks
like no EBR (`Bare`). `LinksLeadOut` says which disks `AllDevicesShown` is about: whatever
number a sector is read under, its bytes name no sector of the disk. `described` is
the set of devices that could be opened.

**ListDirectory** follows `process_and_sort` and `main` with the heap as a set of
blocks (array, name, link target per entry): `Release` adds to `wild` whatever is freed
when not in use. `lstat` may fail for an entry that is there (a directory that may be read
but not searched, a path cut off at line 229) and does for one that is gone; the names it failed for
since `opendir` are in `refused`. **DirectoryLayout** is the arithmetic of the columns.

Operators whose comment calls them a *mutant of* a definition are deliberate
mistakes a change to the code could make; each is used to see that a property
notices it.

## Runs

`tlc -config <cfg> <module>`; the times are those of two workers.

| run | instance | shows | states |
|---|---|---|---|
| `ShopConcurrent` | 2 customers, 1 item, stock 1, 1 restock, 2 prices, queue of 2 | `MutualExclusion`; no sale or restock lost (`Conservation`); orders and answers on the way equal the customers waiting (`WaitersServed`); the refinement `ImplementsLedger` | 1.7 M, 50 s |
| `ShopFailures` | 1 customer, signals to both servers, anyone killed anywhere | the inductive invariant `IndInv`; `SemAccounting`; `NoOrphanLock`; `NonNegative`; the refinement, until the lock is broken | 2.1 M, 85 s |
| `ShopLiveness` | 2 customers, fairness | `OrderAnswered`: every checkout ends while a manager reads the alerts | |
| `ShopShutdown` | 1 customer, 1 item, stock 1, a restock of two units, carts of up to 2 lines, quantities 1 and 2, queue of 2, signals to the shop, fairness | `SuccessIsBacked`: a reported success was sold for, through failures, repeats and a restock in between; `ShutdownReleases`: removing the queue frees a customer that waits; `ShopStops`: a signal ends the shop, also at a full queue, while a manager takes the alerts | 108 k, 75 s |
| `ChildReaper` | 3 children, two ways to die, fork may fail, fairness | `NoLostZombie`, `ReportedOnce`, `ZombiesReaped` | 791 |
| `RtSignal` | values 0, 1, 2, 4 signals, queue of 3, fairness | `InOrder`, `FirstFatalEnds`, `FatalEnds` | 8 k |
| `Logger` | 2 requests, bodies of 2 units, partial and failing writes, fairness | `WholeLines`; `StaleBounded`; `LastRequestWins` for spaced requests; `SafeAfterInit`; nested handlers unwind (`RequestsSettle`) | 333 k |
| `LqShell` | 16 lines of all kinds, 6 descriptors of which 1 may be lost, 2 words per command, pipe of 1, 2 items, files of 2 chunks, 2 steps of others, fairness | `StreamsAsAsked`: each stream is the last redirection named, else the pipe, else the shell's; `EndsApart`; `PipeFaithful`; `LeavesAsFound`; `CopyComplete`; `NothingDestroyed`; `PromptReturns` | 163 k, 125 s |
| `PartitionTables` | 2 devices over all of `SmallDisks`, 8 sectors of 16 numbers, fairness | `NothingInvented`: a beginning of the true list; `LoneLogicalListed`: all of it with one EBR; `GptListed`: the used entries, and all of them up to one that cannot be read; `AllDevicesShown`: the walk ends | 521 k, 90 s |
| `ListDirectory` | 3 names, 1 or 2 paths, 11 combinations of options, times near and too far for an int, any call fails, `lstat` for any entry, entries come and go, fairness | `FreedOnce`; `NothingLeaked`; `StayersListed`: entries that stayed and that `lstat` did not refuse are printed once; `ShownInOrder`; `Ends` | 1.2 M, 60 s |

Each of the following finds a behaviour in which the program does not do what its
documentation says:

| run | statement | what happens |
|---|---|---|
| `BadConcurrentOrders` | "Concurrent order processing" | one customer takes the other's answer and reports success |
| `BadLogicals` | "detailed information about each partition" | the link to the next EBR is read from the CHS bytes of its entry, so logical partitions after the first are not listed |

The models show some more of this kind, for which no run is kept.

Shop:

* a signal in the wait of `sem_lock` sends the manager into its section without the
  lock (`MgrSignalInLock`): `MutualExclusion`, `Conservation` and the refinement speak
  of the time before;
* alerts nobody reads fill the queue, and then neither orders nor answers move, so
  `OrderAnswered` needs a manager, and so does `ShopStops`: a signal that comes just before
  the shop sends its answer into such a queue (`shop_process.c:159`) clears `running` and is
  forgotten, and the shop waits for room;
* price and stock may change between the cart and the sale, so a customer may be told
  another sum than was charged;
* a signal that interrupts a wait of the shop ends it with the IPC objects left
  behind (`ShopSignalBlocked`; `shop_process.c:11` says "graceful shutdown");
* a signal that comes between the manager's test of `running` and its `scanf`, or
  on the notifier thread, is not seen until the user types (`MgrSignal`);
* an order can be rejected without any alert to the manager, since alerts follow
  sales only (`IPC/README.md:37-39`);
* a checkout that stopped half way and is tried again orders the granted lines a
  second time, so `SuccessIsBacked` says "at least the cart", not "the cart".

Logger:

* two level requests close together nest their handlers and the earlier one wins,
  so `LastRequestWins` is about requests that wait for the one before;
* a level request before `init_logger` has registered its handler kills the
  application (`Signals/real-time_logger/README.md:69` sends one right after the
  start), so `SafeAfterInit` is about what follows;
* two applications on one log file write into each other's lines, so `WholeLines`
  is about one;
* the application logs four messages once and then only sleeps, where
  `Signals/real-time_logger/README.md:111` speaks of an infinite loop.

LQ shell:

* without a terminal the prompt is still in the buffer of stdio when the shell forks,
  and the copies are written when the children exit: into the pipe, too;
* a second redirection of a stream, a redirection that fails after another one, and
  a failing fork leave descriptors open in the shell; with enough of them `pipe` fails
  and the shell exits;
* if the second fork of a pipe fails the shell exits and leaves the first child;
* `freelq` exits the shell when a value it reads is 0 or the file cannot be opened;
* `mvlq` replaces a file that is created between its test and its `rename`;
* `cplq` reports a read error and then success.

Lister of partitions:

* the second loop of `handle_mbr` goes on over a buffer that holds an EBR by then: with
  several extended partitions, or an entry of an EBR that is one in a later slot than the
  first (the link to a second logical partition, when the first slot is the extended one),
  other lines follow;
* after a link beyond the end of the device the walk does not stop: it reads the sector behind
  the EBR, and if what is there looks like a table, prints it as a partition whose first sector
  is beyond the end;
* bytes that happen to lead back into the chain are followed, and may make the walk endless;
* the size of a GPT entry in the header is ignored, and type 0x85 is not taken for an
  extended partition.

Lister of directories:

* `-d` reads the whole directory, forgets the names without freeing them, prints the
  first path only and ends;
* if the first path fails the program ends, whatever follows it; a later one is skipped;
* the array of an empty later directory is not freed;
* a path that is a file fails, since `opendir` does;
* `parse_input` runs `strtok` over memory nobody set, and without a terminal the width
  is what the stack held (`MaxTokens`, `MaxWidth`);
* an entry for which `lstat` fails is left out with a message, so a directory that may be
  read but not searched is listed as empty;
* times further apart than an int can hold are not sorted.

### Bounds

* Two customers are enough for answers to be swapped, and for three processes to
  meet at the full queue; one item is enough for lost updates. That the lines of a cart
  are for different items makes no difference to a line: `LoneSuccessBacked` proves
  `SuccessIsBacked` for any.
* A queue of two messages (`QueueCap`) is full with one alert and one order, so every
  blocking `msgsnd` really blocks: in `ShopShutdown` the shop meets two alerts where it wants to
  answer. The real queue is some hundred messages long.
* `MaxRestock` bounds the units a manager puts in; with it `sold` is bounded too,
  and every other counter follows. It is a guard of `MgrInput`. `MaxSends` and
  `MaxRequests` bound the signals of a behaviour in the same way. `MaxCartItems` is
  ten in the code.
* A stock of one or two units with a threshold of one reaches both alerts, a
  rejection, and a sale after a restock. In `ShopShutdown` a cart of two lines of one
  unit fails at its second line, its repetition at the first, and after a restock of two the
  same cart succeeds, so that more was granted than the cart holds.
* Six descriptors (`MaxFds`) are the standard three, the two of a pipe and one more:
  with one lost, a pipe still works; one more redirection meets the limit. `MaxLost` is a
  guard of `ReadLine`. `MaxArgs` of three leaves room for two words, so that the loop over the
  tokens is left early; it is 64 in the code. A pipe of one slot (`PipeCap`) blocks
  the writer, and two items (`MaxItems`) fill it; files have up to two chunks
  (`MaxChunks`), and others act at most twice during a command (`MaxMeddling`), once for
  each side of a test.
* Sixteen sector numbers (`Wrap`), eight of them on the disk, hold an MBR, a chain of two EBRs, the
  leftover of an older table, links beyond the disk, and sums that wrap. `MaxLines`, twelve, stops the
  walk of a disk whose chain is a cycle; a walk that ends prints fewer. The disks do not change.
* `Initial` is 1 instead of 64, so that the array grows at every entry. While one
  directory is read each name comes or goes at most once. `IntHalf` is 4, so that the times 0, 3
  and 6 do not fit, and compare in a cycle.
* Deadlock is checked where a user can always go on. It is switched off where
  the processes may all have ended (shutdown, kills, signals, the end of a lister).

### Fairness

`FairSpec` of the shop assumes that a process that can run runs (weak fairness of
`ShopStep`, `MgrStep`, `Notifier` and `CustomerStep`), and that the kernel serves those who wait
for a semaphore or for room in a queue in turn (strong fairness of the locks, of
the two blocking sends and of the blocking receive: Linux keeps first-in first-out
lists of waiters). What users type and every signal and kill is never assumed to
happen. `ChildReaper` lets a child run for ever; `RtSignal` and `Logger` assume
that pending signals reach a running process. In `LqShell` each process of a line is weakly
fair, since none competes for anything another could take again and again; nobody has
to type the next line, and other users of the directory need not act. `PartitionTables` and
`ListDirectory` are one process that runs (`WF_vars(Next)`, `WF_vars(Main)`); the other
processes that create and remove entries are not assumed to.

## Proofs

`tlapm` proves the following for every value of the constants that satisfies the
named assumptions of the modules: any number of customers, items, children, applications
and devices, any stock, queue and cart size, any lines, files and descriptor limit, any
disks, any directories and options, with signals, kills and failing calls.

| module | theorem | property |
|---|---|---|
| `ShopProofs` | `TypeCorrect` | `TypeOK` |
| | `LockInvariant`, `SemaphoreAccounted` | `LockInv`, `SemAccounting` |
| | `LockIsOwned` | `NoOrphanLock` |
| | `SectionsExclusive` | `MutualExclusion` |
| | `NeverOversold` | `NonNegative` |
| | `StockConserved` | `Conservation` |
| | `Inductive` | `IndInv` |
| | `LedgerImplemented` | `ImplementsLedger` |
| | `NobodyForgotten` | `WaitersServed` |
| | `LoneSuccessBacked` | `SuccessIsBacked` |
| `ChildReaperProofs` | `TypeCorrect`, `ZombieNeverLost`, `ReapedReportedOnce` | `TypeOK`, `NoLostZombie`, `ReportedOnce` |
| `RtSignalProofs` | `TypeCorrect`, `HandledInOrder`, `EndsByFirstFatal` | `TypeOK`, `InOrder`, `FirstFatalEnds` |
| `LoggerProofs` | `LoggerTyped`, `StaleMessages`, `NoSignalKills` | `TypeOK`, `StaleBounded`, `SafeAfterInit` |
| | `RequestsObeyed`, `LinesStayWhole` | `LastRequestWins`, `WholeLines` |
| `LqShellProofs` | `NoEndHeld` | `EndsApart` |
| | `CopiesWhole`, `NothingIsDestroyed` | `CopyComplete`, `NothingDestroyed` |
| `LqStreamsProofs` | `ReadsAllWritten`, `PromptLeavesAsFound` | `PipeFaithful`, `LeavesAsFound` |
| | `StreamsArrive` | `StreamsAsAsked` (with `TypeOK`) |
| `PartitionTablesProofs` | `TypeCorrect`, `EntriesListed` | `TypeOK`, `GptListed` |
| | `OnlyPartitions`, `LoneLogicalFound` | `NothingInvented`, `LoneLogicalListed` |
| `ListDirectoryProofs` | `NoDoubleFree`, `NoLeak` | `FreedOnce` (with `TypeOK`), `NothingLeaked` |
| | `StayersAppear`, `TimesDescend` | `StayersListed`, `ShownInOrder` |

The argument for the shop has three layers above the types.

1. `LockInv`. The sum of value and adjustments alone is not inductive: the step
   that unlocks must know that the shop's adjustment was 1. So `LockInv` ties each
   adjustment to the program counter of its owner: exactly for the shop, and as an
   upper bound for the manager, which after an interrupted lock is in its section
   with adjustment 0 and leaves it with -1. Exclusion then follows by arithmetic:
   both adjustments 1 would make the value negative.
2. `StockInv`, which does not use the lock. What the shop is about to write is
   covered by the stock it read, and what the manager read is no *less* than the
   stock, because while the manager holds a value the shop only sells. So even
   a lost update can only leave too much stock, never a negative one.
3. `BalanceInv`, which uses the lock: until a signal breaks it, what either side
   read is still the stock when it writes, so sales and restocks add up.

`IndInv` is the conjunction of all four, and `ShopFailures` checks it too.

*The refinement.* Every step of the shop maps to one of `StockLedger` or to a
stutter. The two that write the stock need that the value they read is still there,
which is `StockInv` and `BalanceInv`; the one that receives an order needs that it carries no
decision yet (`OrdersAsSent`). The rest is what a step does at the ends of the
concatenated sequences.

*Waiting customers* are counted. `OrderHeld` says when the shop has an order in hand, and
the number of orders and answers under way is kept equal to the cardinality of the
set of waiting customers (with kills: at least as large). It follows that nobody waits for
nothing, even though answers go to whoever takes them first.

*A lone customer.* With several customers a success need not be backed
(`BadConcurrentOrders`), so `LoneSuccessBacked` assumes a single one, and one that is not
killed: its order would stay in the queue and be answered to its successor. Then at most
one message is under way, and it is that of the line the customer stands at
(`OneExchange`). `LoneInv` adds that the lines before it are sold (`Paid`), and that nothing
remains of an exchange once the queue is removed. Shop and manager may be signalled and
killed at will. The units of a cart are a sum by recursion over its lines.

*Reaper and receiver.* `ReportedOnce` needs that the children from `next` on are
unborn (`ForksInOrder`): otherwise a fork could reuse a reported child.
`FirstFatalEnds` needs that the running handler's value is the last one handled.

*Logger.* `Registered` (the loop over the five signals), `NestedOnce` (a level is blocked
while it is handled, so the frames are an injection into the levels and at most five
deep), `PendingRequested`, and `StaleInv`: a message that is past its test and still below
the level is the first one since the level changed. For `LastRequestWins`, as long as
requests come one at a time, the last one is either done with (`Obeyed`), pending as
the only signal (`Sent`), or in the only handler frame (`Handling`). For `WholeLines`,
`FileInv` gives the file of a lone application an arithmetic shape: so many lines of
`Width` units, and then the units `Written` of the line at hand.

*Shell.* `EndsInv` has the types of the tables, `Phases` (when the sides of a pipe and their
commands exist) and `Ends`: a table contains an end of the pipe only at the number
`pipe_fd` gives, and each side has no end of the other's once it is set up. That `open` returns
a descriptor of the table is the existence of a least element, from the well-foundedness of <.

*Files.* `FilesInv` says for each position of `cp_command` and `mv_command` what the
open files are, who made them, and (`Copying`) that the target is as much of the source
as has been read, unless somebody else meddled. Before `rename`, whatever has come to the
target since the test is another process's (`MovePlace`): that is the window the property
leaves out.

*Pipe, prompt and streams.* `PipeInv` follows what is written: a program with something
left to write has the write end (`Writing`), so when no process has it any more all was
written, and what was written is what is in the pipe and what was read (`Flow`). `HeldInv` has
the table of the shell at every position: the standard streams, and in the middle of a
line only what that position accounts for, unless `lost`. `AskInv` is about the loop over the
tokens: `Tied` relates each stream to the last redirection among the tokens
seen so far, each side of a pipe starts with its end of the pipe in the stream it is for,
and a command gets the table of the process that forks it.

*Lister of partitions.* The recursion along the EBRs defines a function, since it goes down
in n (the argument is that of a least counterexample), so the reference listing unfolds one EBR at
a time. `GptInv`: what is listed are used entries, and all of them below the index
(`Entries`, `Below`); when the loop is left the index is at the end or at the first that cannot
be read. `MbrInv`: in the second loop either the MBR is still in the buffer and the
primary partitions are listed, or the first logical one is too (`Walked`) and nothing that is
left in the buffer would start a walk (`Scanning`); in the walk it stands at the first
EBR (`AtFirst`), or behind it, where the next seek leads nowhere: the link is zero, or
the sector it lands on cannot be read or is bare (`Behind`). `Walked` is a prefix
of the full listing, and all of it when there is one EBR.

*Lister of directories.* `ListInv` says which blocks are in use at each point (`HeapInv`
from below, `LeakInv` from above), that there is room in the array for the entry in hand
(`RoomInv`), and that an entry is read once (`ReadInv`): its name is in the array, still
to be read, or in hand, and never two of them, although others create and remove entries
meanwhile. Without that the name freed after a failed `lstat` could be one that the array
still holds. Sorting keeps the blocks because `qsort` permutes (`SortedFacts`).

*What is printed.* `SeenInv` says that no name is in the array twice, that an entry nobody
touched is among those read, in hand or still to come if and only if the options ask
for it, unless `lstat` refused it (`GatherInv`), and that the array is in order of time once it is sorted, if the
comparator's difference fits an int (`OrderInv`). Then the columns: row r shows
the entries r, r + rows, r + 2 rows, ..., so every entry is in one row and at one place
of it (`OneRow`, `OnePlace`), and the printed lines contain each name as often as the array
does. `FlattenSeq` of the community modules is a recursive function; `FlattenFacts` says what it
computes, again by a least counterexample.

**Only model-checked:** the liveness properties, that is `OrderAnswered`,
`ShutdownReleases`, `ShopStops`, `ZombiesReaped`, `FatalEnds`, `RequestsSettle`,
`PromptReturns`, `AllDevicesShown` and `Ends`. They rest on fairness and so on ENABLED, which
is beyond the prover. Every invariant and every other action property that a passing run checks
is a theorem above. Where a definition is recursive (the chain of EBRs, the flattening of rows,
the units of a cart) its equations are derived in the proofs; the
induction theorems of the library take operators as parameters and cannot be
used, so each such lemma is an argument about the least number for which it fails.

## What could follow

A second start of the shop over live objects, with customers attached to a removed
segment; the bytes of `parse_input`'s array; the safety half of the liveness properties as
theorems, such as that a checkout that waits always has a step of some process that brings it on.
