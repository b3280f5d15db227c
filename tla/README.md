# Verification of the CSC360 programs

This directory holds TLA+ models of the programs of this repository, TLC
configurations that check them on small instances, and theorems about them
checked by TLAPS. The repository is four programs of a systems course:

| program | source | what it does |
|---|---|---|
| `PMan` | `a1/PMan.c` | a prompt that starts, lists, stops, continues, kills and inspects background processes |
| `A2` | `a2/A2.c` | an airline check-in simulation: a thread per customer, five clerk threads, two queues |
| `diskinfo` | `a3/diskinfo.c` | label, free space and number of files of a FAT12 disk image; `a3/diskinfo-2.c` is an older variant |
| `disklist` | `a3/disklist.c` | listing of all directories of a FAT12 disk image |

The rest are course handouts (`pt_*.c`, `pthread_*.c`, `sample_*.c`,
`mmap_test.c`), two jobs for PMan to start (`inf.c`, `args.c`) and a ring buffer
no program includes (`a2/customerQueue.h`).

## Inventory

### Check-in simulation (`a2/A2.c`)

*State.* Per queue (economy, business): a linked list, `queue_length`,
`queue_status` (the clerk that called last), `winner_selected` (whether a
customer has answered that call), a mutex and a condition variable. One mutex
and condition variable, `request_queue`, on which clerks wait for work; one pair
per clerk on which it waits for its customer. Counters of served customers.

*Operations.* A customer sleeps until its arrival time, joins its queue,
signals `request_queue`, waits to be called, dequeues itself if it is first in
line and the call is open, is served, and signals the clerk it believes called
it. A clerk waits while both sizes are zero, chooses a queue, signs it, opens it
for one winner and broadcasts, then waits for its customer. main creates the
threads, joins the customers and prints averages.

*Interaction and what is hard.* Everything is shared memory. Clerks read the
sizes without the queues' mutexes, customers signal clerks without the clerks'
mutex, business customers reset `queue_status` outside of any mutex, and no wait
of a clerk is guarded by a predicate that remembers the event waited for. So the
hazards are lost signals, stale sizes, calls that overwrite or erase each other,
broadcasts that wake many for one call, spurious wakeups, and a header of the
input file that promises more customers than there are.

*What makes it correct.* First come first served per class; one customer per
call and per clerk; the counters agree with the list; `checkHead` never sees an
empty list; whoever is called first in line gets to leave; the program reports
that all is done only when everybody has been served.

### Process manager (`a1/PMan.c`)

*State.* A linked list of the pids it started, with its nodes on the heap. The kernel keeps the rest: which
processes live, are stopped, are zombies, and whose pid is whose.

*Operations.* `bg`, `bglist`, `bgstop`, `bgstart`, `bgkill`, `pstat`; after most
commands `check_zombieProcess` reaps with `waitpid(-1, .., WNOHANG)` and removes
the reaped pids from the list.

*What is hard.* Children end whenever they like, also between a lookup in the
list and the `kill` that uses it; pids are reused as soon as they are reaped; an
empty list makes the check return without asking the kernel; `waitpid` with no
child is treated as fatal; a stopped process does not act on SIGTERM.

*What makes it correct.* The list is exactly the set of unreaped children, so
that no stranger is signalled or inspected and `waitpid` never fails; each check
reaps all the dead and returns; no walk along the list meets a freed node, and
no node is lost.

### Disk tools (`a3/diskinfo.c`, `a3/diskinfo-2.c`, `a3/disklist.c`)

*State.* None but what a walk needs: a position in the root, a stack of calls of
`parse_sub`, counters, and in disklist one path buffer shared by all calls. The
image is mapped and only read.

*Operations.* diskinfo looks for the label in the root, counts zero entries of
the table, and files through the root and, recursively, every subdirectory. The
older variant decodes the table in another way and counts in the root only. disklist prints the root, then for
each subdirectory a header with its path, its lines, and its subdirectories.

*What is hard.* Two 12-bit entries share a byte; directories are chains of
clusters that need not be contiguous; deleted entries and "." name clusters that
must not be followed; the root has a fixed size that diskinfo does not look at
and disklist looks at in one of two places; the path is appended to and never
cut back; chains are followed twice; the scan for the label takes deleted
entries, and the last one that matches; the older variant reads bytes as signed
and compares attributes as a whole.

*What makes them correct.* The counts are those of the tree; every entry is
listed once, under its directory, with the path of its directory; only
directories are parsed as directories; the walks end; the label is the disk's;
two programs for one purpose say the same, or differ in a known way.

### Ring buffer (`a2/customerQueue.h`)

*State.* An array, the places of its head and tail, and a size. *Operations.*
`enqueue`, `dequeue`, `getHead`, `getTail`. *What is hard.* The wrap-around, and
the capacities 0 and 1. *What makes it correct.* It answers as a bounded
first-in first-out queue does.

## The modules

| module | models | how |
|---|---|---|
| `FrontDesk` | what the check-in promises | customers line up, a call is made, the first in line uses it up, the office closes when all have left |
| `CheckIn` | `a2/A2.c` | the threads; its properties; the refinement mapping to `FrontDesk` |
| `CheckInInvariants` | | the inductive invariants, used by runs and proofs |
| `CheckInProofs` | | theorems about `CheckIn` |
| `CustomerList` | the lists of `a2/A2.c` | `Queue_Enqueue` and `Queue_Dequeue` on nodes and pointers, inside the steps of `CheckIn` |
| `CustomerListProofs` | | the lists are the sequences, in every behaviour |
| `MCCheckIn`, `MCCustomerList` | | small input files |
| `PMan` | `a1/PMan.c` | commands, the reaping loop, and the kernel around them |
| `JobList` | the list of `a1/PMan.c` | `bg_entry` and `removeNode` on a heap, one step per turn of their loops |
| `PManProofs`, `JobListProofs` | | theorems |
| `MCPMan`, `MCJobList` | | small sets of pids and addresses |
| `BoundedQueue` | what a bounded queue promises | a sequence and the answers to calls |
| `RingQueue` | `a2/customerQueue.h` | the array, its indices, and the mapping to `BoundedQueue` |
| `RingQueueProofs` | | the ring implements the bounded queue |
| `Fat12` | the table of `a3` | `get_FAT_entry`, and the layout it decodes |
| `Volume` | external: disk images | an operating system that creates, extends and deletes |
| `DiskInfo` | `a3/diskinfo.c` | label, free space and count, `parse_sub` as a stack of frames |
| `DiskInfo2` | `a3/diskinfo-2.c` | label, free space and count in three scans |
| `DiskList` | `a3/disklist.c` | the listing, `parse_sub` as a stack of frames |
| `DiskTools` | all on one image | composition, fairness and properties |
| `DiskToolsProofs` | | the decoding of the table, the images, free space and labels, for disks of every size |
| `DiskWalkProofs` | | the shape of the tree, and the number of files diskinfo's recursion arrives at |
| `DiskListProofs` | | the listing disklist's recursion arrives at |

`PROJECT.json` maps each definition to the lines it models.

### CheckIn and the code

`cust[c]` is where a customer thread is: *away* (before its lock), *entered*
(in the queue's critical section, counted but not yet waiting), *waiting* and
*woken* (in, or about to return from, `pthread_cond_wait`), *dequeued* (between
`Queue_Dequeue` and the unlock), *claimed* (a business customer before it resets
`queue_status`), *served*, *left*. `clerk[k]` is where a clerk thread is, one
value per unlocked read of a size and per critical section.

An action is a stretch of code nobody can observe half done: either it runs
under the mutex that protects all it touches, or it makes one access to a
shared field. The sizes are the exception that matters: a customer changes
them under its queue's mutex but a clerk reads them without, so `Enqueue` and
`TakeTurn` show the new size while the queue is still locked, and each read by a
clerk is an action of its own. Where several accesses are under a mutex that
every reader takes, they are one action. `Spurious` says which kinds of condition
variable may wake without a signal. The lists are sequences of customers;
`checkHead` compares ids, as the code does, so that two customers with the same
id may take each other's node. Arrival and service times are left out: a sleep
may take any time, so any order of arrivals and of services is explored, and a
service is the stay in *claimed* and *served*. The time sums are not modelled.
The class of a customer is 0 or 1, as the comment at `A2.c:236` says; the code
takes any number (`:197`), and a customer of another class would skip both
branches (`:245`, `:302`) and compare `curr_clerk`, which was never set, at `:354`.
`CheckInAssumption` excludes such input files.
pthread_create failing for a customer is modelled (`MainFails`); the clerks are
created before that and are there from the start.

`CustomerList` conjoins to `Enqueue` and `TakeTurn` what the code does there to
`head`, `tail`, `size` and the `next` of the nodes, under the same lock. A thread
creates its one node as it enqueues it, so the customer stands for its node. No
node is freed by the code, and a dequeued one keeps its pointer into the list.

### PMan and the code

`at` is where PMan is: at its prompt, about to call `kill`, about to read
`/proc`, in `check_zombieProcess`, between `waitpid` and `removeNode`, or dead
(fork failed, a NULL line, waitpid failed). `jobs` is the list. `proc` is what
each pid is: free, somebody else's, or a child that is running, stopped, stopped
with SIGTERM pending (*doomed*), on its way out (*dying*) or a zombie. Between
two system calls of PMan the kernel may do anything. The programs started are
assumed to leave the default actions of the signals in place. Tokenising, what
is printed and the texts read from `/proc` are left out.

`JobList` runs each step of `PMan` together with what it does to the heap, which
is a function on the addresses allocated at the moment: a step that reads freed
memory has no value, and TLC stops at it. The loops of `bg_entry` (to the last
node) and `removeNode` (to the node of the pid) take a step per node, during
which children die; PMan itself does nothing else meanwhile. `malloc` takes any
address that is free, and so reuses those just freed.

### The disk tools and the code

A *slot* is the place of a directory entry, numbered from the first slot of the
root through all data clusters, so that running off the root's end is reading
the next slot, as in the code. `SlotAt(c, i)` is the code's `(31 + c)`-th sector.
The code's numbers are constants: 14 sectors of root (`RootSectors`), 16 entries
per sector (`EntriesPerSector`), 19 printed sectors (`PrintSectors`). `entry` is
what is in each slot, down to what the tests of the code tell apart: the first
byte (unused, deleted, "."), the attributes (label, directory) and the first
cluster. The table is kept as numbers in `link`, but the tools see only its
packed bytes through `get_FAT_entry`. Names are slots, so paths are sequences of
slots. Each frame of `frames` and `calls` is a call of `parse_sub` with its local
variables. disklist's `print_directory` prints one entry in each step, so that the
listing is there in every state of its making; `shown` is the number of entries
it has looked at in the sector or cluster it prints.

`DiskTools` lets the system use the disk, then runs diskinfo, its older variant
and disklist. None of them writes to the image, so another order would show
nothing else. diskinfo and the older variant scan for something up to the first
unused entry, with no limit. On a full root they read on into what files contain;
what they find there is up to bytes that are not modelled, so the model only
recognises the case (`Astray`) and follows them no further, and every claim about
their results is about roots with an unused entry. disklist's walk over the root
has a limit, and it is followed on full roots, too.

The label scan is `LabelAmong`: the test looks at one attribute only, which a
deleted entry keeps, and each match overwrites the one before. The label of a
disk can be removed (`Unlabel`) and set again, which puts it into the first usable
slot, so a removed label may be printed in place of the current one, or when there
is none (`label_removed`). The older variant (`fetchDiskVolumeLable`) compares the
whole attribute byte: `flagged` are the slots of the root whose entry has one more
attribute, which for a label is the mark of archived things and for a file that
of hidden ones. It also reads the number of sectors from signed bytes
(`OlderSectors`): the 1440 sectors of a disk of 720 KB are taken for 1184, and the
clusters behind those are not counted; the 2880 of a floppy are read right.

`Volume` is not code of the repository. It stands for the system that wrote the
image, and takes the first usable slot and cluster. Deleting makes fragmented
and reversed chains. The contents of files are read as entries in one place that
is followed, the printing of nineteen sectors of root by disklist, which shows a
line for each entry of a file or directory; there they look like the entries of
files. The clusters that deleting frees read as cleared; the same printing is all
that could tell, and no property that holds is about it. Corrupt images (a chain with a cycle, an entry naming a
free cluster) are not generated.

### The ring buffer and the code

One action per function of `customerQueue.h`; `result` is what the last call
returned, so that a wrong answer is visible. The array starts with whatever
`malloc` found. No program of the repository includes the file, so no order of
calls is excluded, and there is no run of a program for it: what is claimed of
it is proved, `RingIsBoundedQueue`.

## The runs

| run | shows |
|---|---|
| `checkin_core` | 2 clerks, 2 economy and 1 business customer; a clerk's wait for a request may end without a signal: type and counters right, `checkHead` never sees an empty list, clerks exclusive, economy customers called, the threads implement `FrontDesk`, the called head leaves; the inductive invariant `CallIInv` of the proofs holds |
| `checkin_spurious` | 4 customers, 1 clerk, the lists with their nodes; every condition variable may wake at will, and the file is shorter than its header so that ids repeat: heads, counters and completion are still right, and each list is linked from head to tail as the sequence says |
| `lost_wakeup` (violation) | a clerk finds both queues empty, the only customer's signal comes before its wait: main never ends |
| `stranded_clerk` (violation) | the only customer is called, served and signals its clerk before that clerk has begun to wait: the clerk waits for somebody who is gone |
| `clerk_nobody` (violation) | a business customer's late reset erases the next call: a customer is served by clerk 0 |
| `pman_core` | 3 pids, 3 addresses, all commands with the list on the heap: list = children, only own children signalled or inspected, waitpid never fails, the check reaps all the dead and returns, and the heap holds the list and nothing else in the midst of every walk |
| `kill_stopped` (violation) | `bgkill` of a stopped process does not terminate it |
| `disk_tools` | every image of 4 clusters that 6 changes can produce: free space, count and listing are the tree's, the label is the disk's if none was removed, the two variants of diskinfo differ only by the attributes and the files that one of them tests for, only directories are parsed, the tools end |
| `disklist_path` (violation) | the second subdirectory of a subdirectory is shown below the first |
| `files_shown` (violation) | a file without contents in a subdirectory is missed by all three tools |
| `label_removed` (violation) | a label that was removed is printed |
| `root_full` (violation) | with the last sector of the root in use, data clusters are printed as root |

*Bounds.* For the check-in, two customers of one class are what it takes for a
head, a follower and a broadcast between them; two clerks for a call that is
overwritten; one customer of the other class for the choice between queues and
for the reset of `queue_status`. One of the two clerks is the last one, which
gets misdirected signals. `checkin_spurious` has one clerk, as wakeups and ids
and not clerks are its question, and four customers, for a queue of more than
two nodes and two nodes with the same id. For PMan, three pids allow two children and a
stranger, and every pid is reused; three addresses allow a list of three, so that
a node is removed from the front, the middle and the end, and memory is reused. For the disk, two entries per sector make
directories outgrow a cluster after one entry beside "."; two sectors of root
and three printed ones keep the proportion of 14 and 19; four clusters allow a
directory of two clusters with two children, and three levels of nesting. On
these bounds TLC reaches full roots, chains of three clusters and chains that go
backwards. A disk of the run has 25 sectors, too few for a signed byte to matter:
that case of `ToolsAgree` is left to the theorem `VariantsAgree`. `MaxChanges` is
the only bound on a counter.

*Deadlock* is not checked (`CHECK_DEADLOCK FALSE`) where the programs may stop:
the simulation ends with main, and clerks may wait for ever; PMan ends with its
input; the tools end.

*Fairness.* CheckIn: weak fairness of each thread's step and of main, because the
scheduler runs each runnable thread, sleeps end and mutexes are handed out.
`lost_wakeup` is therefore a real hang and no starvation. No spurious wakeup and
no failure is ever obliged. PMan: weak fairness of its own steps away from the
prompt and of the death of a process on its way out; the user, children and
strangers are obliged to nothing. Disk tools: weak fairness of a program that
has been started; starting one is nobody's obligation.

*`CalledHeadLeaves`* says more than that a call is answered: a broadcast that
has woken anyone of a class reaches its first in line, whatever other clerks do
in the meantime, and that customer leaves the office even if its clerk is
waiting elsewhere. It holds although `JobsGetDone` does not: what is lost in
`lost_wakeup` is the call, not its delivery.

*`ClerkExclusive`* leaves out the last clerk when there are business customers:
a customer that read 0 from an erased `queue_status` signals it by mistake, the
consequence of the finding of `clerk_nobody`.

*`CountsStoredFiles`* and what else is said of diskinfo is about roots with an
unused entry, *`ListsEachEntryOnce`* about those whose last sector is unused;
`root_full` shows why. Both are about files with contents and leave those without
open: a diskinfo or disklist that shows them, too, would satisfy
`ListsEachEntryOnce`, and that none does is what `FilesAreShown` is violated by.
That property is the weakest that the three programs' own words imply, so one run
shows for each of them where it departs from them.

*`ToolsAgree`* states in what the results of the two variants of diskinfo may
differ: the label, if one of the labels, present or removed, has a further
attribute; the free space, if a byte of the number of sectors is 128 or more, and
then the older variant has less; the number of files, by those in subdirectories
and hidden ones on the one side, and those without contents and the deleted ones
on the other.

## What is proved

All theorems hold for every value of the constants that satisfies the
assumptions of the module: `CheckInAssumption`, `PManAssumption`,
`JobListAssumption`, `VolumeAssumption` and `DiskListAssumption`. The ring's
capacity is any natural number.

**CheckIn.** The argument rests on three layers of one inductive invariant, all
in `CheckInInvariants`.
`IInv` ties positions to mutexes (`LockInv`), the length of each list and both
counters to the number of customers at given positions (`CountInv`), and main's
progress to customers that have left (`JoinInv`). The lengths are stated by
cardinality because a dequeue with equal ids may remove another customer's
node, so the list's *contents* are not invariantly the waiting customers, while
its length is their number. From it: `TypeCorrect`, `HeadNeverNull`,
`CountsCorrect`, `DoneMeansServed`. These need no hypothesis on wakeups or ids.
`SignedInv` adds that an economy customer is awake only after a clerk has signed
its queue; `EconomyIsCalled` follows if customers do not wake spuriously.
`CallInv` says, for each clerk no other signal is misdirected to, that it is
engaged as long as its call is open or it has a customer, that these exclude
each other, and that it never has two customers; `OneCustomerPerClerk` and
`CallsFitDesks` follow if neither customers nor clerks wake spuriously (a clerk
that waits for a request may). `Refinement` shows that every step of the threads
is a step or a stutter of `FrontDesk`, if the customers' ids are distinct.

**CustomerList.** `ListsRepresentQueues` needs no hypothesis on wakeups or ids.
`ListIInv` adds to `IInv` that a customer in line has arrived, is in the line of
its class and is in it once (`Placed`): the node that a customer links has never
been in a list, so the pointer that `createNode` clears and the tail that is
made to point to it belong to no other list. `ListsRefineThreads` is the step
to `CheckIn`, whose theorems so hold of the program with pointers.

**PMan.** `PInvariant` states that the list has no duplicates and is the set of
children (with the child just reaped while `removeNode` is pending), and that
the target of a pending signal or inspection is a child. `ListIsChildren`,
`NoStranger`, `WaitHasChildren`, `NoZombieAtPrompt` and `ListHasNoDuplicates`
follow, for any set of pids.

**JobList.** `HeapIsJobList`: for any pids and addresses there is at every moment a
sequence `cells` of addresses, the nodes of the jobs in order, that is all that
is allocated and is linked from `head` to NULL; a node being appended is the
last of them and not yet linked. The walks are placed in it: an appending one is
at a linked node, and a removing one has its `prev` right behind its `curr` and
has not passed the node it looks for. Each step of the proof names the `cells` of
the next state: the same, one longer, or one shorter. `HeapRefinesPMan` is the
step to `PMan`.

**RingQueue.** `RingIsBoundedQueue`: for every capacity, 0 included, and any calls
in any order, the ring's answers are those of `BoundedQueue`. `RingInv` says that
the slot behind the tail is the one `size` slots behind the head. Without it a
`dequeue` of the last item and an `enqueue` into the empty queue would not meet.
Machine words are not modelled, as no index or size exceeds the capacity.

**The table** (in `DiskToolsProofs`). `ReadsEntry`: in a table of any length with
any contents, packed three bytes to two entries, `get_FAT_entry` returns every
entry as written. The proof computes the three bytes of a pair (`PairBytes`) and
then each decoding.

**The images and the scans** (`DiskToolsProofs`). For disks of any size and with any
bound on the changes.
`VolumeInv` says what an image is: the table has a zero exactly for the clusters
nobody owns, and these are cleared (`FreeIsClear`); a chain stays with its owner,
which is a file or directory (`ChainsStay`); owners are entries in directories,
never the data of a file that looks like one (`OwnersInDirs`); the entry of a
directory names a cluster it owns, and "." the directory it is in (`EntriesLead`).
There is one lemma for each kind of change, of which deletion is the hard one:
what it clears must hold no entry of anything that stays, which is why only
empty directories go and why `OwnersInDirs` is needed. `ToolInv` adds that each
frame of both recursions is at a cluster of a directory, of the one it was called
for in disklist, or at the end of the chain, and what has been printed. From it:
`FreeSpaceIsRight` (by way of `ReadsEntry`) and `ParsesDirectoriesOnly`, for diskinfo
on roots with an unused entry and for disklist on all. `LabelIsRight` needs in addition that the entries in use of the root are in
front of the unused ones (`RootPacked`), so that the scan reaches a label that is
there, and that a nonempty part of `1 .. n` has a greatest element (`Greatest`,
from the well-founded order of the naturals), which is the one the last match of
the loop leaves. `SignedSectors` and `OlderCountsFree` are about the older variant:
its number of sectors is never above the real one, and is right if both bytes are
below 128; masking before a shift changes nothing. `ToolTypes` is the type invariant: the next cluster a frame holds
is an entry of twelve bits because decoding gives back what was written.

**The number of files** (`DiskWalkProofs`). What a recursion over a tree arrives at
is usually shown by induction over the tree, which is out of the provers' reach.
It is replaced by two invariants that quantify over sets. `ShapeInv`
(kept by the lemma `TreeIsWhole`) says that the image is a tree, without recursion: no two clusters
are followed by the same one (`ChainsApart`); the first cluster of a directory
follows none (`FirstsAreFirst`); a set that has the first cluster of a directory and
with each cluster its next has all of them (`ChainsWhole`); and a set that has the
root and with each directory its subdirectories has all (`TreeWhole`). Each
change of the image keeps them, deletion because only empty directories go.
`Roam` says where a walk is: for each frame the directory it is in, the clusters
of it that are behind, and the entries passed there; `V` is what was passed
altogether. A directory whose entry was passed is either on the stack or has had
all its entries passed, and those on the stack are different. `Counting` adds that
the total of the frames and the counter together are the number of stored files
among those passed, each frame with a share of its own. When the stack is empty
and the root has been scanned, the directories passed are a set that `TreeWhole`
speaks of, so that everything has been passed: `FilesAreCounted`. The step that
matters is the entry of a subdirectory, which must be shown never to have been
entered before; this is where `ChainsApart` and `FirstsAreFirst` are needed.
`VariantsAgree` combines it with what the scans of the older variant count.

**The listing** (`DiskListProofs`). `Roam` is stated of frames in general and holds
of the calls of disklist as well, which print a directory in one pass over its
chain and walk over its entries in a second. `Lists(o, P, h)` says that the
output `o` has exactly one line for each entry of `P`, each under the header of
the directory that holds it, and that the lines after the last header are those
of `h`. While a call prints, its directory is the last header and `P` grows by the
entries behind its place (`Prints`); the sections of the others are complete.
`ListInv` (`ListingIsRight`) puts this together with `Roam`: the directories whose
sections are there are those entered, and the rest is below entries the calls
have not reached. `print_directory` stops at the first unused entry of a cluster, as the
second pass of `parse_sub` does not; that it misses none behind it rests on the lemma
`NoneBehindEnd`, an invariant of the use of the disk, since a new entry takes the
first usable slot. `EachEntryIsListedOnce` follows
when the calls have returned. Like the property itself it is about
disks whose last root sector is unused (`RootIsPrinted`).

*Only model-checked*: the three liveness properties (`CalledHeadLeaves`,
`CheckReturns`, `ToolsEnd`), which are beyond the prover; and of course the
violations. Every invariant and every other action property of the passing runs
is stated by a theorem.

## Findings

1. `A2.c:314`: the signal is sent without `request_queue_mutex`; it can be lost,
   and the simulation hangs (`lost_wakeup`).
2. `A2.c:356`: the customer's signal at the end of its service is sent whether its
   clerk waits or not, and nothing records it; a clerk that comes to its wait
   (`:470`) later waits for somebody who is gone (`stranded_clerk`, against `:423`).
3. `A2.c:293`: `queue_status` is reset outside the mutex; a customer reports to
   clerk 0, whose signal goes to the last clerk (`clerk_nobody`).
4. `PMan.c:267`: `bgkill` does not terminate stopped processes
   (`kill_stopped`, against `a1/README.txt:12`).
5. `disklist.c:177`: wrong paths for second siblings (`disklist_path`).
6. `diskinfo.c:241`, `diskinfo-2.c:133`, `disklist.c:323`: the first and the last
   leave out files without contents, and the second all files of subdirectories,
   although each says "all" (`:260`, `:89`, `:406`; `files_shown`).
7. `diskinfo.c:51`: a removed label is printed (`label_removed`, against `:38`).
8. `disklist.c:213`: too many sectors printed as root (`root_full`). diskinfo's
   scan at `:238` has no limit at all; on a full root it leaves the root as well
   and may leave the mapping (`Astray`).

Two that no run of this project shows: `bglist` prints before the check removes
what has ended (`PMan.c:119`, against `a1/README.txt:11`), and the older variant's
sign-extended number of sectors (`diskinfo-2.c:69`).

## Not modelled

* times, dates, averages, formatting and names: they are data the control does
  not depend on. The command string of `pstat` and `bg`, built with `strcat` and
  measured with `strlen`, is one of them;
* overruns of buffers (`customerArray`, `argv` of PMan and its copies of strings
  without room for the end, the one-byte allocations of the disk tools): their
  outcome is undefined.
  They are listed as hazards, and the model assumes they do not strike;
* `malloc` without memory: the check-in reports it and goes on with the NULL, the
  other programs do not look;
* customers of a class other than 0 and 1 (see above);
* what diskinfo and its older variant make of a full root, once they have read
  past it;
* entries with attributes other than those of labels and directories, and hidden
  or archived ones (`flagged`) outside the root, where no test depends on them;
  the pieces of long names, which diskinfo and disklist skip;
* the boot sector fields diskinfo prints as it reads them (the system's name,
  the number of tables and sectors per table);
* corrupt images, which the code does not guard against;
* the handouts (`pt_*.c`, `pthread_*.c`, `sample_*.c`, `mmap_test.c`): they are
  the course's examples of library calls, and the programs do not use them.

## What is left

The order in which the project was built: `FrontDesk`, `CheckIn`, its runs and
proofs; `PMan` and its proofs; the disk tools; `CustomerList` and `JobList`, which
replace the sequences by pointers; labels and the older variant; the ring; the
proofs about images, about the scans over them, and about the two recursions.

What could follow: an abstract specification of the check-in that includes the
clerks, as far as the findings leave one; and a measure that each step of the
disk tools decreases, which is the part of `ToolsEnd` that needs no fairness.
