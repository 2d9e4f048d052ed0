# netwox / netwib in TLA+

`netwib` is the C library of this repository (`src/src/netwib-src`): ios that
are chained, threads and locks, sniff and spoof, packets. `netwox`
(`src/src/netwox-src`) is the toolbox built on it. This directory holds TLA+
modules of the parts of both whose correctness depends on *orders of steps*:
long sequences of legal calls, structures edited while they are walked, threads,
or packets that come as the network likes. TLC checks them on small instances;
TLAPS proves the most important invariants for every instance.

In what follows `NB` is `src/src/netwib-src/src/netwib` and `NX` is
`src/src/netwox-src/src/modules`.

Contents: 1 the system, 2 the modules, 3 the runs, 4 the proofs, 5 where the
code and its documentation disagree, 6 what is not modelled, 7 the plan.

## 1. The system

| component | state it keeps | operations | interacts with | what makes it correct |
|---|---|---|---|---|
| io chains (`NB/sys/io.c`, `ionew.c`, `priv/io.c`) | per io: next link and number of users in each way (read, write), ways supported | init, plug, unplug next/before/after, close, read/write/wait/unread/ctl | calls the callbacks of each link (`pfread`, `pfclose`, ...), which may call io functions back | counters equal the real number of users; a link is freed when nobody uses it and only then; close ends |
| compound ios (`NB/sys/pieces/iousual_rdwr.c`, `_tee.c`, `_debug.c`) | the two ios they use, whether to close them | init, read, write, close | count themselves as users of other ios | give back exactly what they took; never touch a freed io |
| rwlock on mutexes (`NB/sys/pieces/threadrwl_netwib.c`) | `prdmut`, `pwrmut`, `numreaders` | rdlock, rdunlock, wrlock, wrunlock, with three kinds of end time | threads | it is a read-write lock; pending calls return |
| threads (`NB/sys/pieces/thread_posix.c`) | `condmut`, `cond`, `condreached`, `threadjoined` | init, wait, close; the thread's own epilogue | POSIX threads, several waiters | joined once, freed after its end, waits return |
| lists of threads (`NB/sys/threadlist.c`) | a ring of threads | init, add, del, wait, close | polls `netwib_thread_wait` | each thread is waited for and closed once; close waits for all |
| TCP reordering (`NB/net/pieces/iosniff_tcpreord.c`) | hash of sessions (expected number, expiry, ring of early packets), two cleaning counters, `plaststhi` | read (new packet, pending packet), wait, close | sits above a sniff in a chain; rings, hash | data in order, once; early packets are given when due; no dangling `plaststhi` |
| IP reassembly (`NB/net/pieces/iosniff_ipreas.c`) | hash of datagrams with their fragments | read, close | as above | a datagram is given complete and once |
| conditions, mutexes, keys (`NB/sys/pieces/thread{cond,mut,tsd}_posix.c`) | POSIX objects, `reached`, `value` | init, broadcast, wait, lock, unlock | threads | no event lost or invented |
| rwlock on POSIX (`NB/sys/pieces/threadrwl_posix.c`) | a POSIX lock | as the rwlock above | threads | as above |
| rings and their indexes (`NB/dat/ring.c`, `ringi.h`) | linked items; per index last and next item | add, del, sort; index add/del/replace while walking | used by lists, reordering, waits | an index never leads to a freed item |
| hashes (`NB/dat/hash.c`) | table that grows, items | add, del, value, index | used by sniff ios, configuration | it is a function |
| buffers and pools (`NB/dat/buf.c`, `bufpool.c`) | storage; pool of free buffers, optionally under a mutex | get, free | threads | no buffer given to two users |
| waits (`NB/sys/wait.c`, `waitlist.c`) | list of events | init, add, wait | ios, threads, conditions | answers when an event or the end time comes |
| data ios (`NB/sys/pieces/iousual_data.c`) | per way: type, sizes, bytes stored, end reached | read, write, unread, set, end | link in a chain over a file or a socket | the items are those of the stream, however its bytes come; no byte lost or doubled |
| ranges (`NB/net/priv/ranges.c`) | array of intervals | add, del, contains, index | addresses, ports | it is the set it stands for |
| network configuration (`NB/net/conf.c`, `net/priv/conf.c`) | copy of the system's tables under a rwlock, made at the first use | update, index, add and search in the ARP cache | rwlock | nobody reads a freed table or the empty one of the start; no table is lost |
| virtual TCP/UDP stack (`NX/sockv`) | state machine, timers, buffers | open, read, write, close, events | spoof, sniff, wait | a stream survives loss and duplication |
| password search (`NX/brute.c`), web spider (`NX/webspider`) | worker pool, queues of jobs and results | manager loop, workers | threads, lists of threads, locks | each job done once, all threads waited for |
| cache of resolved names (`NX/dnscache.c`) | two hashes under a rwlock | add, ip, host | threads of the search and of the spider | answers what the system gave; no freed item is read |
| usual ios, files, time, screen; packets; formats; protocols; 200+ tools; netwag | - | - | - | sequential conversions and input/output, covered by the test programs of `src/test/netwib` |

What is hard to test: the drift of a use counter over a long sequence of legal
calls on chains in two ways; a callback failing in the middle of a close; the
gaps between two locks; spurious wakeups and end times that race with an event;
cleanings between two reads; sequence numbers that overflow. `PROJECT.json`
lists every such place with its line (`hazards`) and the properties that watch
it.

## 2. The modules

```
IoGraph <- IoChain <- MCIoChain          RWLock     <~ ThreadRwlock
IoOwner <~ IoChain <- IoChainProof       ThreadCond <- WaitSet
                                         ThreadRwlock, WaitSet <- MCLocks ==
RingLinks <- RingIndex ~> RingSeq            Brute, WebSpider, DnsCache, Conf
IoData ~> DataStream                     DnsCache, Conf == RWLock
RingIndex <- RingProof                   MCLocks <- WorkersProof
HashIndex <- HashProof
Ranges <- MCContainers ==                ThreadJoin <- ThreadList <- ThreadListProof
    Bufpool, RingIndex, HashIndex,
    IoData                               SockvTcp <- MCSockvTcp
MCContainers <- ContainersProof ==       SockvTcp <- SockvTcpProof
    RingProof, HashProof
                                         TcpSeq <- TcpReord
                                         TcpReord, IpReas <- MCSniff <- SniffProof

  A <- B   B extends A                     A <~ B, B ~> A   B implements A
  A == B   A has instances of B            (INSTANCE ... WITH)
```

The modules `MC...` are instances for TLC. Three of them (`MCContainers`,
`MCSniff`, `MCLocks`) hold several components that share no state: a behaviour
is about one of them, its *subject*, drawn in `MCInit`, and the others stay
idle, so that the states of the components add up instead of multiplying. (This
is why IpReas and WaitSet, which such a module extends with another, prefix their
`Init` and `Next`. *EndTime* has the end times that waits and locks share.)
Components that do interact are composed for real: `ThreadList` runs the waits
of `ThreadJoin`, `WaitSet` those of `ThreadCond`, `RingIndex` the relinking of
`RingLinks`, and `DnsCache` and `Conf` take their lock from `RWLock`, which
`ThreadRwlock` implements.

### IoGraph, IoChain, IoOwner: chains of ios

*IoGraph* has the walks along next pointers as operators: `Last`, `Found`,
`Prev` are `netwib_priv_io_last` and `netwib_priv_io_search`; `CloseRing` is the
ring of links that `netwib_io_close` collects; `Relinked` writes one pointer in
some ways. `Chain` is a recursive *function*, so that theorems may use the
module.

*IoChain* has one action per call: `Create` (`netwib_io_init`), `Plug`,
`UnplugNext`, `UnplugBefore`, `UnplugAfter`, `LoseSupport`
(`netwib_io_ctl_set_support`), `HolderInit` and `HolderClose` for the compound
ios. `netwib_io_close` is cut into its steps, as its loop is where links
disappear one by one: `CloseBegin`, then for each link `CloseKeep` (it has
users), `CloseFree`, or `CloseError` (its `pfclose` fails), then `NextPass` or
`CloseEnd`. A compound io that closes its ios runs this loop twice (`then`). The
library has no lock here and its user is one thread, so between calls nothing
else moves.

`alive` is the set of allocated links; `numusers`, `pnext`, `supported` are the
fields of the same name per way; `held` is what a compound io counted at its
creation (`havetodecread`, `havetodecwrite`); `close` are the locals of the
close; `before` is a history variable: the chains when the close began. A
counter is an integer; below zero stands for the unsigned one wrapped. Within a
pass the links come in *any* order: the code walks the ring in the order of the
chain, and the model allows more.

Callers are assumed to build chains without loops (`NoLoop`): `io.h:14` draws
them so and no code enforces it. Three constants switch on what callers may do
wrong: `SelfUnplug`, `SharedHold` (section 5) and `PfcloseFails`.

*IoOwner* is the abstract specification of a chain's owner: links and pointers,
no counter, no pass. A close frees, in one atomic step, the links reachable from
the one closed that no link outside and no compound io reaches; with an error it
frees only some of these. `IoChain!Owner` maps the detailed state to it (while a
close runs, what the owner sees is `before`), and `OwnerSpec` says IoChain
implements it. So `OwnerSpec` says that a close frees *exactly* what nobody else
uses.

### RWLock, ThreadRwlock: the read-write lock built on two mutexes

*ThreadRwlock*: each lock and unlock of `prdmut` or `pwrmut` in
`threadrwl_netwib.c` is a step, so every interleaving of the gaps is there; the
counter changes in the step that leaves the mutex. `RdLock`, `RdTakeWr`,
`RdTakeRd`, `RdCount`, `RdEnter` are `rdlock`; `WrLock` ... `WrEnter`, with
`WrLose` and `WrRetry` (a reader is there: give both mutexes back, return or
pause and try again), are `wrlock`; `abstime` keeps which of `NETWIB_TIME_ZERO`,
a date or `NETWIB_TIME_INFINITE` was passed. *RWLock* is the abstract lock: a
set of readers and a writer. `LockSpec` maps one to the other.

### ThreadJoin, ThreadList: threads and lists of threads

*ThreadJoin*: `WorkerLock`, `WorkerEnd` are the epilogue of a thread
(`thread_posix.c:27-33`), the `Wait...` actions are `netwib_thread_wait`: lock,
look at `condreached`, sleep with or without end time, unlock, lock again and
join if nobody has. Any number of waiters may be inside. *ThreadList* puts
`threadlist.c` on top: `ListWait`, `Clock`, `Ask`, `AnswerNo`, `AnswerYes`,
`TurnEnd` are the polling of `netwib_threadlist_wait`, whose calls of
`netwib_thread_wait` are the real ones of ThreadJoin; `ListClose` loops on it.
`Program` is the rest of the program, within what `thread.h` asks: a thread is
closed after a successful wait and when nobody waits for it, and is not waited
for elsewhere while it is in a list; once `Del` has taken it out, it may be.
`Spurious` allows POSIX's spurious wakeups.

### ThreadCond, WaitSet: conditions, and waits for several of them

*ThreadCond* is `threadcond_posix.c`: `Broadcast` writes `reached` and `value`
under the mutex and wakes those asleep, `Reinit` resets, and
`netwib_thread_cond_wait` is `Wait` (its first part, up to the answer or the
sleep) and `Slept` (what follows the sleep, by a broadcast or by the end time).
A thread that was woken takes the mutex later, and reads the fields as they are
then. *WaitSet* adds the polling over several waits: `PollCall`, `Clock`, `Ask`,
`Answer`, `TurnEnd` are the loops of `netwib_wait_wait5` and of
`netwib_waitlist_wait`, which asks each wait in turn, with no time, through the
`Wait` of ThreadCond, while the program broadcasts and resets. `steady` and
`since` are history: conditions reached for the whole call, or at some time in
it.

### Brute: the search of a password with threads

`brute.c` of netwox. `search` are the parameters and locals of `netwox_brute`,
`login` and `password` its two indexes, `list` the list of threads, `work` what
became of the trial of each couple, `manathr` and `thrmana` the memory that the
manager and a thread allocate for each other, `shown` the results displayed.
`Launch` and `LaunchNone` are the two halves of the manager's loop (launch one
more thread and look without waiting; launch none and wait), `WaitNext`,
`WaitTurn`, `WaitEvent` the walk of `netwib_threadlist_wait` step by step, as
threads end while it goes on, `CloseEvent` and `CloseEnd` the final
`netwib_threadlist_close`, `Try` the search without threads. `NextCouple` is
`netwox_brute_nextcouple`. A host answers good, bad or an error; an answer
"retry" is asked again and is a stutter. How a thread ends and is joined is
`ThreadJoin`'s affair: here its end is one step.

### WebSpider: the download of a web site with threads

`webspider/webspidermt.c` and what it calls of `webspider.c`, `webspiderurl1.c`
and `webspiderurl2.c`. `todownload`, `inprogress` and `downloaded` are the three
hashes, `spider` the locals of the manager, `list` its list of threads with what
each brings. `Begin` adds the urls of the user; without threads `Get`,
`GetFails` and `GetEnd` are the loop of `netwox_webspidermt_run_mono`; with them
`Launch` and `LaunchNone` are the halves of the manager's loop, `WaitNothing`,
`WaitEvent`, `WaitError` what its wait brings, `CloseEvent` and `CloseEnd` the
final close, and `WorkerEnds` a thread. `AddAll` is `netwox_webspiderurl1_add`
for the links of one page: the filters (type, level, access list), the search in
the hashes, and, of several links to one url, the first one that passes (`InfoOf`
is what is stored of it). A page is the sequence of the links it shows; `RunOutcome` says how far its treatment goes
before an error.

### DnsCache: names that threads resolve

`netwox_dnscache_ip` as threads call it at the same time: `Search` and `Read`
under the read lock, `Query` (the system is asked, without any lock), `AddBegins`
and `Add` under the write lock, where an item that another thread stored in
between is replaced and freed. The lock is an instance of `RWLock`: what
`ThreadRwlock` is proved to implement is what is used here. `stored` is the
memory, so that a freed item can be told from one in use, and `given` is
history.

### Conf: the configuration of the network

`netwib/net/priv/conf.c` and the indexes of `confdev.c`, `confip.c`, `confarp.c`
and `confrout.c`. `Call` is the test of `needtobeupdated`, which takes no lock;
an update is `Obtain` (the system is read into new rings), `SwapBegins`, `Swap`
and `SwapEnds` under the write lock, and `CloseOld`, where the rings swapped out
are freed without it. A walk is `Open` (no lock), `NextBegins` and `NextEnds` for
each entry, `IndexClose`; the search in the ARP cache with what follows it in
`netwib_eth_init_ip` is `FindBegins` .. `Add`. The four rings are swapped and
freed together, so that one stands for all. The lock (`sys/priv/mutex.c`) has the
two mutexes and the counter of the read-write lock, without its end times: it is
an instance of `RWLock`. `AsDocumented` chooses between what the comment of
`sys/global.h:27-30` asks of users and the rule that is enough (section 5).

### RingLinks, RingIndex, RingSeq: rings and their indexes

*RingLinks* has the pointers of `ring.c` (`pnext`, `pprevious` of each item and
of the head, `numberofitems`) and the ways the code relinks them, as operators on
a record: insertion, removal, the move of a grouping, the two halves of a merge.
*RingIndex* has the calls of `ring.c` and `ringi.c` as actions. Those that loop
over the ring and call the user back are *jobs* done in steps, one for each
callback: `DelCriteria`, `DelDuplicate`, `Group`, `Sort`, `AddRingCriteria` begin
one (`job` has the locals of the function), their `...Step` goes on, and
`DelCriteriaEnd`, `NextCompared`, `CompareFails`, `SortHalves`, `SortFails`,
`AddRingEnd` are what ends a loop or a callback that fails. An index
(`pcurrentitem`, `pnextitem`, `ppreviousitem`) moves and edits between jobs.
`Full` is the number of items at which the code refuses one more.
`AsDocumented` chooses which edits a user
allows himself: those that the comments of `ringi.h` permit, or only those that
are safe (section 5). *RingSeq* is the abstract specification: a sequence, and
what each kind of edit may do to it; `IsSequence` says that the links implement
it, through the sequence met from the head on; a job that reorders counts when
it is over, with what its last callback left.

### HashIndex, Bufpool, Ranges: the other containers

*HashIndex* is `hash.c` and `hashi.c`: a table of chains, which expands when it
has more items than positions (`Expand`: every item moves to the position of its
hash, each chain turned round), `HashAdd`, `HashDel`, criteria functions, and
indexes that go from position to position. `At`, `Rank` and `Precedes` are the
order in which the loops of the code meet the items. `AsDocumented` is as above. `map` is history: what the
calls put.

*Bufpool* is `bufpool.c`. A buffer is `<<array, place>>`; `inuse` are those
marked, `start` the `startsearchat` pair before which a search never looks;
`numinit` how many of an array were initialized. `BufInit` and `BufInitGrow` are
`netwib_bufpool_buf_init` without and with growth, `BufClose` is
`netwib_bufpool_buf_close`. The mutex makes each of them one step.

*Ranges* is `ranges.c` for the three types of lists. The array is the sequence
`inf, sup, inf, sup, ...` and the operators write edges and move its tail as the
code does: `AddRange`, `DelRange` with their cases (touching, covering, cutting
one range in two), the three searches, the index (`Next1`, `NextRange`, `ThisDel`)
that finds its place again after edits. The dichotomy is a recursive function of
the part of the list that is left; a deletion from an unsorted list is a function
of the number of turns of its loop. `asked` and `tour` are history.

### TcpSeq, TcpReord: reordering the TCP packets of a sniff

*TcpSeq*: `Add` and `Synchro` are the arithmetic of `sniff_tcp_expectedseqnum`
and `sniff_tcp_checksynchro`, modulo `SeqMod` (2^32 in the code) with a window
`Window` (100000); `Ahead` is the reference: the distance around the circle.

*TcpReord*: a read of a new packet is one of `Open` (its session is not in the
hash), `Give` (it is the expected one), `Store` (ahead: into the ring; else
dropped), each with the cleaning that precedes it (`MustClean`, `Kept`) and the
counting that follows (`Count`). When `plaststhi` is set the next reads are
`GivePending` and `EndPending`. The packets: a session's stream is cut at
*borders*, a packet goes from a border to a later or the same one, the network
may bring any packet at any time: loss, duplication, reordering, retransmission
of several segments as one, empty packets are all there. `out` and `early` are
history variables: what the user was given, and the packets received in advance
that could still be given. `Sifted` (the criteria deletion of the ring) is the
subsequence given by increasing places, a form that can be proved about.

### IoData, DataStream: streams cut into items

*IoData* is `iousual_data.c`, the link that cuts a stream into lines, chunks,
data of a fixed size, or nothing. `rd` and `wr` are the two
`netwib_priv_io_data2`; `Contain` is `netwib_priv_io_data_contain`, which says
whether the bytes stored have an item. A read is `ReadStored`, or `ReadThrough`
(transparent), or `ReadMore`: one read of the link below, whose answer is drawn
from `Below`: any number of bytes, none now, an error, or the end. A write is
`WriteThrough` or `WriteLine`, or `WriteBegin`, then `WritePiece` for each item,
any of which may fail, and `WriteEnd`. `Unread`, `End` and `Set` are the rest.

*DataStream* is the abstract specification: a reader takes the items of the
*whole* stream, those bytes included that have not come yet, so that their
arrival cannot matter; a writer's bytes leave in order, in whole items, once.
Its lines are defined over the stream by their text and the run of CR after it,
and not by a scan. The map is `toread <- rd.buf \o source`.

Callers are assumed to unread only what they have just read under the same
settings, not to retry a write that failed (section 5), and to use sizes of at
least one byte: with a size of 0 the loop of a write would not end.

### IpReas: reassembling the IP packets of a sniff

`iosniff_ipreas.c`: `Reads` is a read of a fragment, with the cleaning and
counting around it. Each fragment writes its blocks over the `data` of the item
of its key, the first last fragment gives the size, and the packet is given when
no block is missing. `given` and `seen` are history. The
network may bring any fragment at any time; a key may be used again by another
datagram; a datagram may be cut in several ways.

### SockvTcp: the thread of a virtual TCP client or server

`sockv/sockvtcp.c`. The thread alternates between a wait (`Wait`: an end of the
timer, a test of its events) and a turn of its state machine (`Machine`), which
has one action per state and event. `svt` are its variables: state, local and
remote numbers, the last acknowledgment, the window, the buffer of user data and
how much of it was sent, the pending events. `user` is the program at the other
end of its two TLV channels, `remote` a correct TCP host, `wire` what the thread
sent and is not lost. The remote host's packets are drawn from what it may have
sent so far, any number of times, with any window of its set: loss, duplication,
delay and reordering in both directions.

## 3. The runs

| run | shows | states |
|---|---|---|
| `IoChainLinks` | three links, `pfclose` may fail, no compound io: nothing dangles, close implements the owner's view and ends | 266 356 |
| `IoChainHolders` | the same with a compound io and links of any ways: counters exact, no freed link closed | 394 881 |
| `Locks` | the read-write lock with three threads, waits for conditions, the password search and the web spider with their threads, a cache of names and a network configuration that two threads share | 167 335 |
| `ThreadList` | two threads, the list's owner and another waiter: joins, closes, and all waits end | 206 295 |
| `Sniff` | two TCP sessions whose numbers overflow, three fragmented datagrams, cleanings | 535 013 |
| `Containers` | a ring, a hash table and lists of ranges edited while they are walked; a pool of buffers; a data io over a link that fails | 1 222 584 |
| `SockvTcp` | a virtual TCP client or server against a correct remote host on a bad network | 230 760 |
| `IoChainSelfUnplug`, `IoChainSharedHold`, `ThreadListSpurious`, `RingUseFreed`, `SockvTruncates` | the disagreements of section 5 | counterexample |

The properties, and what they are about:

- `CountsMatch`: a counter is exactly the number of next pointers and compound
  ios that lead to the link, also half way through a close. `NoDangling`: no
  pointer of a live link and no compound io leads to a freed one.
  `ClosesLiveLink`: no close is called with a freed link. `OwnerSpec`: a close
  frees what nobody else uses, all of it, and nothing else. `CloseTerminates`.
- `WriterAlone`, `LockSpec`: a writer let in is alone; the implementation is a
  read-write lock. `EventsAreReal`: a wait tells only of conditions that were
  reached while it ran, and of each one that lasted; the value it reads was
  broadcast; nobody sleeps on a condition that is reached. `JobsAreDone`:
  never more threads than asked, none left at the end; each couple is tried once
  and each result shown, and, without an error, no memory is left; an url is in
  one hash only, those in progress are those of the threads, and a download
  without error has all that the user asked and all that the pages refer to.
  `CallsReturn`: once no new call is made, all pending calls of the lock return
  (readers may starve a writer for as long as they keep coming: the algorithm
  allows it); whoever waits for a condition that is reached for good returns;
  the search and the download end.
- `CachesAreTrue`: no thread reads an item of the cache of names that another
  one freed, nor a ring of the configuration that an update freed; the cache
  loses no item and answers what the system gave for that name; the
  configuration loses no ring, is never searched before its first update, and
  has what was added since the last one.
- `JoinsAreSafe`: a thread is joined at most once and after its end is certain.
  `ClosedIsOver`: an object is freed after its thread's end, and nobody uses a
  freed one. `WaitsEnd`, `ListCloses`: waits and closes of lists return.
- `InOrder`: what the user of a session gets is contiguous and without
  duplicates. `NothingForgotten`: a packet received in advance is given when its
  turn comes. `RingIsAhead`: between two runs of pending reads a ring holds
  packets strictly ahead within the window. `LastIsLive`: `plaststhi` leads to
  an item of the hash. `PendingEnds`: reads of pending packets come to an end.
- `GivesTheDatagram`: the fragments of one datagram give that datagram, and as
  soon as it is whole. `GivenOncePerItem`: late copies give it again only after
  the expiry of its item.
- `LinksAreSound`: the links of ring and hash, and the array of ranges, obey the
  debug checks of the code after every call, those that fail half way included.
  `NoFreedUse`: no index reads a freed item.
  `WalkIsComplete`: a walk meets once each
  item that was there at its start and was not deleted. `IsSequence`: the links
  implement a sequence, sorts are stable, failures lose nothing; and a data io
  implements a stream cut into items.
  `FindsWhatWasPut`: searches find what calls put, and nothing else.
  `GivenOnce`, `GrowsWhenFull`: a buffer has one user, and the pool grows only
  when no buffer is free.
- `Streams`: both directions of a connection are in order, without holes, once.
  `BufferIsTheRest`: the buffer is exactly what the user wrote, was read and is
  not acknowledged, and no byte left it before the remote host had it.
  `FatherAnswered`: the thread tells its father once how the connection went.
  `ThreadEnds`: a close ends it in any state. `DataFlows`: through a window that
  stays open each byte gets there.

Every property of a passing run has a mutant (`PROJECT.json`, `mutants`): a
faulty form of one definition, kept beside it in the module and named after its
fault, under which TLC finds the property violated.

### Bounds, and why they are enough

- Chains: three links in two ways give chains of length three, a link shared by
  two chains, chains that differ in the two ways, and, in `IoChainHolders`, a
  compound io with two links and a third that uses one of them. Symmetry of the
  links is used in `IoChainHolders` only; no liveness is checked there. Way
  types are spread over the two runs to keep them short.
- Lock: three threads are one reader inside, one leaving or arriving, one
  writer; or two writers and a reader.
- Conditions: two threads that may sleep on one condition with two values, so
  that a value can be overwritten between a wakeup and the read; one thread that
  polls one condition or two. `DebugBuild = FALSE`: in the debug build a reinit
  overwrites the value (section 5).
- Search: two logins and two passwords with one, two or three threads, stopping
  at the first success or not, so that more couples, as many and fewer remain
  than threads; and lists with one word or none.
- Spider: four pages that refer to each other and to themselves with one, two or
  three threads; a row of pages under each limit of recursion; six pages of
  which one is met at two levels, with `LevelMax = 5` (65535 in the code), so
  that the level reaches its greatest value; a site with refused urls, an error
  page and one that is no HTML.
- Names: two threads, and two names, so that both look for one or each for its
  own; addresses that change, one of them common to both names; three items, so
  that one may be in the hash and one in each hand. A fourth one adds states
  but no case: what a thread makes is told from the others by its owner.
- Configuration: two threads, one entry of the system and one more; three rings,
  the current one and one in the hand of each thread; `TableMax = 2`.
- Threads: two threads and two waiters give two waiters on one thread, and a
  list of two whose members end in both orders.
- Reordering: `SeqMod = 16` and `Window = 6` keep the window below half of the
  circle, as 100000 is of 2^32; `MCStart` = 13, 14, 1, 3 puts the overflow in
  the stream's middle and borders on both sides of it, so that both cases of
  `sniff_tcp_checksynchro` are taken (the theorem `WindowIsRight` covers every
  width). `NewItemsClean = 0`, `PktClean = 1`, `Timeout = 0`, `MaxNow = 1` make
  cleanings happen after two packets or one new session instead of hundreds, so
  that they fall between any two reads. `MaxRing = 2` bounds the ring, which has
  no bound in the code: with two packets the one searched can be first or last,
  with another to sift.
- Reassembly: the same thresholds. Datagrams of 5, 3 and 3 bytes in blocks of
  2, so that each has a block filled in part; the first is cut in two and in
  three with overlaps; two share a key.
- Ring: four items and an index, three and two indexes, for the jobs that add and
  delete; three items and an index, six and none (in a ring that is full with
  five: an odd and an even half in a merge, at three levels) for those that
  compare; two classes of equal items, so
  that a sort can be seen to be stable. `MCRingSetups` lists these bounds. Items
  are not allocated again once freed.
- Hash: a table that starts with two positions and grows twice; six items, two
  of one key, keys that share a position before an expansion only.
- Pool: arrays of two buffers, two arrays at a time, at most four: it grows
  once, and buffers come back in any order on both sides of the growth.
- Ranges: items 0..4 for the sorted type (three ranges that can all be
  touched), 0..3 and 0..2 for the two others; `MaxRanges = 3` bounds the list
  with duplicates. Ranges are added with their lower edge first.
- Data io: every stream of up to four bytes of text, CR and LF, read line by
  line through any answers of the link below, which is every case of the comment
  at `iousual_data.c:77-90` but those of five bytes or more, and two of five and
  four bytes while the settings change between the four types; five numbered
  bytes cut into chunks of 2 or 3, pairs, or as they come; three writes of 1, 4
  and 1 bytes, so that one call has several items and ends in the middle of one,
  with each setting, kept or changed.
- Virtual TCP: `NumMod = 16`, and `RemoteIsn = 14`, so that the numbers of the
  remote host overflow. Those of the thread do not (`Isn = 9`): with an `Isn`
  close below 16 the 0 of a packet without ACK counts as an acknowledgment
  (section 5), and `BufferIsTheRest` (14) or `DataFlows` (15) fail; the theorems
  on `Streams` and on the types hold for every `Isn`. There are two bytes from
  the user and one from the remote host; windows that stay open, that shut and open, that are larger
  than what is to be sent; remote hosts that close before, after, or reset.
  `MaxSyn = 1` is one retry of the SYN instead of five.

### Fairness

- Close: `WF(CloseLoop)`. The loop is sequential code; nothing waits in it.
- Lock: strong fairness of each thread's steps. A refused writer sleeps before
  it tries again (`netwib_priv_pause2`, `NB/sys/priv/pause.c:42-60`), so that a
  mutex is free again and again for whoever wants it, and the scheduler gives it
  in the end. Threads are not obliged to call anything; those inside may stay.
- Waits: weak fairness of each thread inside a call: it runs, or was woken.
- Search and spider: weak fairness of the manager and of the workers: a host
  answers something else than "try again" in the end, and the download of a page
  has an end time (`httpclictx.timeoutms`).
- Threads: strong fairness of each thread and of each waiter at `condmut`, which
  is held for a moment only; weak fairness of the list's polling, which sleeps
  between two turns. The function of a thread is assumed to end. End times may
  or may not come.
- Reordering: weak fairness of the reads of pending packets, for
  `netwib_priv_io_sniff_tcp_wait` answers at once while `plaststhi` is set; new
  packets need not come.
- Virtual TCP: weak fairness of the thread's own steps; strong fairness of the
  end of its timer and of the test of its user's channel, which it makes again
  and again between other events. Of the network: what is sent again for ever
  is not lost for ever (strong fairness of `RemoteAccepts` and `LastAck`).

Deadlock is checked in the passing runs but `Containers`, where items and calls
come to an end by their bounds, and `SockvTcp`, where a thread that is over does
nothing more. A search that is over stutters by an explicit disjunct of
`MCLocks`, as do a download, and two threads that both want to add to a table
of the configuration that is full (`TableMax` is a bound of the check). The violation
runs have `CHECK_DEADLOCK FALSE` because the faulty program may really stop.

## 4. The proofs

All hold for any set of links, threads, sessions, users, and any value of the
thresholds.

**IoChainProof.** Under `Careful` (callers never unplug before the head of a
chain; no `pfclose` fails when there are compound ios), `TypeCorrect`,
`CountersAreRight` (`CountsMatch`) and `NothingDangles` (`NoDangling`).
`Careful` is needed: without the first part the run `IoChainSelfUnplug` is a
counterexample; a failing `pfclose` of the first io of a compound one leaves that
one without its uses. The inductive invariant is `TypeOK`, `CountsMatch` and
`NoDangling` with `Bookkeeping`: a freed link has no pointer, the links of the
ring of a close in progress are alive and what is left to do is in the ring, no
compound io is closing outside of a close, and a compound io uses the io it
closes first. Types are proved with counters in `Int`; that none is below zero
then follows from `CountsMatch`. The step that matters is `CloseFree`: a link
with no user according to its counters has no pointer to it, by `CountsMatch`,
so freeing it leaves nothing dangling; its next links lose one user and one
pointer at once. `CountsMatch` counts with cardinalities, so lemmas say how the
cardinality of the set of predecessors changes when one pointer is written.

`ClosesAreLive` (`ClosesLiveLink`) adds `~SharedHold`: the run
`IoChainSharedHold` shows that it is needed.

`ImplementsOwnership` (`Careful => (Spec => OwnerSpec)`): the counters implement
ownership. Outside of a close each action of IoChain is the one of IoOwner with
the same name; within a close the owner sees the chains as they were when it
began, so that only the last step counts, which must free exactly what nobody
else reaches. The invariant about the passes so far (`PassSoFar`) is that what
was freed was in the ring, that only freed links pointed to it and no other
compound io uses it, and that, as long as a pass has freed nothing, each link
that it has passed is in use. When a whole pass frees nothing all that is left is
thus in use, which is not yet enough: links could use each other. `Ordered` rules
this out: chains have no loops, so that a set of links that nobody outside
reaches would have a link above all the others, with no user. That `Plug` keeps `Ordered` is where `NoLoop`
is used. `TopOf` finds this topmost link by the least element of a set of numbers,
which is how induction is written without an operator parameter.

**WorkersProof, the lock and the waits.** `LockTypeCorrect`, `Exclusion`
(`WriterAlone`), `Implements`
(`LockSpec`) for any finite set of threads. The inductive invariant says who
owns each mutex at each place of the code (`Owners`), that `numreaders` is the
cardinality of the threads between `RdCount` and `RdLeave` (`Counter`), and that
there is none while a writer has seen it at zero and keeps `pwrmut` (`Empty`). It
is needed because `WriterAlone` alone says nothing of a reader between the two
mutexes.

`WaitTypeCorrect` and, in the release build (`~DebugBuild`), `TellsTheTruth`
(`EventsAreReal`), for any threads, conditions, values and lists. The invariant
of conditions is that a reached one has a value, and that whoever was woken may
be told the value that the condition has *now* (`WokenMayHear`): this is why a
second broadcast before he runs does no harm. A reinit keeps the value, which the
debug build does not. That of a call (`PollInv`) is what it knows at each place
of its loops: the answer it waits for is of the condition it asked for, and is
no only if that one was reset (`PollAsks`), and each condition that the turn has
passed and that lasted is among those it got (`PollPassed`).

**WorkersProof, the search and the spider.** `JobsDone` (`JobsAreDone`): the search and the spider do each
job once and leave no thread, for any words, any site and any number of threads
that `LocksAssumption` allows. Of the search (`BruteInv`): the couples that were
tried are those up to the current one, in the order of the code (`InOrder`); each
thread of the list has a couple of its own and there are as many threads as
elements (`ThreadsApart`); until an error, what is shown, allocated by the
manager and allocated by a thread is told by what became of the trial and by
whether its thread is still in the list (`NothingIsLost`); and a launch refuses
only when there is nothing left or enough was found (`StopsInTime`). Of the
spider (`SpiderInv`): an url is in one hash at most, those in progress are those
of the threads (`Apart`), and every wanted link of a downloaded page is in one of
the hashes (`NothingIsMissed`), which `AddAll` keeps because the first link that
passes the filters is the one that it stores.
`TypesCorrect` (`TypesOK`): all components of `MCLocks` keep their types, in the
release build and under the rule of the configuration (below).

**WorkersProof, the caches.** `SharedIsTrue` (`CachesAreTrue`), for any threads, names,
entries and memory, when `~AsDocumented`: nobody updates the configuration while
another thread walks it, first uses included. The invariants say which places of
the code hold the lock (`NamesLocked`, `ConfLocked`). Of the cache of names: an
item between its making and its insertion belongs to one thread and is in no
chain (`NamesPlaces`), and every allocated item is in the hash or in a hand
(`NamesHash`); so what an insertion frees is read by nobody, the writer being
alone. Of the configuration: whoever reads or adds uses the *current* ring, and
whoever updates holds a ring of his own that is not the current one
(`ConfPlaces`); rings are allocated if current or held, and held once
(`ConfRings`). The exchange keeps this because another thread with the current
ring in hand would have the lock, or be walking: `WalksAlone` is what the rule
of the user gives, and the only place where the rule is used.

**ThreadListProof.** `TypeCorrect`, `SafeJoins` (`JoinsAreSafe`, when there are
no spurious wakeups) and `FreedIsOver` (`ClosedIsOver`), for any sets of threads
and waiters. The inductive invariant says who holds each `condmut` (`Held`),
that a joined thread is over (`Joined`), that a list names a thread once
(`Distinct`) and only its owner waits for those in it (`Alone`), that the owner
who was told yes asked about a thread that is joined (`Answer`), and
`ClosedIsOver` itself with who waits for whom (`Over`). `Distinct` carries the
removal at the place of the walk: the thread that was closed is then in the list
no more.

**SniffProof.** Of the reordering, `WindowIsRight`: the two cases of
`sniff_tcp_checksynchro` compute exactly "at most `Window` ahead around the
circle". `NextIsBorder`: the sum that overflows is the number of the border where
the packet ends. `LastStaysLive`: `LastIsLive`, with the typing of the hash as
strengthening (`IsHash`): a cleaning happens only in a read that starts with
`plaststhi` NULL. `GivesInOrder` (`InOrder`), `RingStaysAhead` (`RingIsAhead`)
and `ForgetsNothing` (`NothingForgotten`), from one invariant stated for each
session (`Sound`): what was given ends at the number expected (`Follows`), and
the ring has all the early packets, which are within the window (`Holds`). Two
facts carry it: the numbers of the borders differ (from `ReordAssumption`, for
streams shorter than the circle), so that a number tells which packet is due;
and what `Sifted` takes out of a ring is what it was asked to, for every order
of the ring.

Of the reassembly, `ReassemblyTypeCorrect`, `Reassembles` (`GivesTheDatagram`)
and `GivesOnce` (`GivenOncePerItem`), for any finite set of blocks, any datagrams
and any cuts of them that `IpReasAssumption` allows: fragments begin and end on
blocks but at the end of their datagram. The invariant is that an item that has
not given its packet holds exactly what its fragments brought, and is not
complete. It is stated for the item and the history of what it received together
(`Fills`), and for the items whose fragments are all of one datagram says what
each block holds and what the size is (`Pure`). The rest is the arithmetic of
blocks: those that a fragment covers are those of its bytes (`BlocksHold`,
`CoversOwn`), and the last fragment covers the last one (`LastCovers`); the run
of blocks that is scanned has an end because they are finite (`RunExists`).
`TypesCorrect` (`TypesOK`) is about both together, as `MCSniff` composes them.

**SockvTcpProof.** `TypeCorrect` (`TypeOK`), `StreamsAreRight` (`Streams`) and
`FatherIsAnswered` (`FatherAnswered`), for any width of the numbers, any first
numbers, streams, windows and remote hosts that the assumption of the module
allows. The invariant relates the numbers of the thread to places of the two
streams: what it counted as received is a beginning of what the remote host
sent, what the remote host received is a beginning of what the user wrote, and
every packet in the network starts at a place of the stream that it had when it
was sent. `BufferHoldsTheRest` (`BufferIsTheRest`) needs `NoAckOfZero`: no byte
of the user comes just before the number 0, or the 0 of a packet without ACK
would acknowledge it (section 5); the instance of the run satisfies it.

**RingProof.** `RingIsRight` and, with the rules that are enough
(`~AsDocumented`), `IndexesAreRight`, for any items, keys, number of indexes,
jobs and `Full`. What makes a ring hard is that it is a ring only between two
jobs: in the middle of a merge, of the addition of another ring, some of its
links are stale. The invariant (`RingInv`) therefore has, in each step of each
job, the *order* of the items as a sequence of distinct ones, and says that the
links are those of this order but at the places that the job has cut, which it
still holds in its locals: a merge has the items in place up to `sorted`, the
rest of the two half rings from `p1` and `p2`, and what follows from `end`
(`TypeOK` and `RingIsSound` follow when no job runs). A failing comparison
relinks exactly these pieces. Of an index it says that what it still has to meet
is ahead of the place it goes on from, what it met is behind, and that this place
is alive: `MayDelete` and `MayDeleteAt` are used there and nowhere else.

**HashProof.** `TableIsRight` and, with the rules that are enough,
`WalksAreRight`, for any items, keys, hashes and first size. The invariant of the
table is `HashIsSound` with the positions and chains typed, and that `map` is
what a search answers: the *first* item of a chain that has the key is also the
last one put there. An expansion keeps it because a chain without repetition is
told by the set of its items and their order (`Backwards`, `Unlinked`: lemmas
say that they list a set without repetition, by cardinalities). The invariant of
walks says that the items a walk must still meet are among those it will test
and those it met are not, in terms of `After` and `Candidates`.

**ContainersProof.** The lists of ranges, the pool and the data ios, then the
five containers as `MCContainers` composes them.

`RangesAreRight`, for any type of list, any largest item and any bounds: the
edges stay sound (`RangesAreSound`), the list holds, lists and finds what was
asked (`HoldsWhatWasAsked`), and walks are complete (`TourIsComplete`). The
invariant (`RangesInv`) has the edges `Formed` (in order, with a gap if the list
is sorted), the list `Holding` what was asked, and of a walk that what it must
still meet is ahead of its place and what it met is behind. Each edit is a `Splice`; a
lemma for each of its four cases says what ranges, in order, it leaves and which
items they hold. That the dichotomy finds what the linear search would is proved
by the least counterexample, as is what the turns of a deletion from an unsorted
list leave, so that neither takes an induction theorem. An unsorted list with
duplicates is compared to what was asked by the sequence of its items.

`PoolTypes`, `GivenOnceHolds`, `NoUndefinedMark`, `GrowsWhenFullHolds`: the
invariant is that all the buffers before `startsearchat` are in use
(`FullBefore`) and that a buffer in use was initialized (`Initialized`): then
what the search skips is never free, and what it reads was written.

`DataTyped`: the buffers of a data io keep their types, for any settings; needed
are the sizes of at least one byte that section 2 states.

`TypesOKHolds`, `LinksAreSoundHolds`, `FindsWhatWasPutHolds`, `NoFreedUseHolds`
and `WalkIsCompleteHolds` are the invariants of the run `Containers`, the last
two when `~AsDocumented`; `RingUseFreed` shows that this hypothesis is needed.
They follow from the theorems above, those of `RingProof` and `HashProof` being
used by instances under the names of the variables of `MCContainers`: a
behaviour of the composition is one of each container
(`RingBehaves`, `TableBehaves`, ...).

Every invariant of every passing run is thus a theorem. Only model-checked are:

- everything under fairness (`CloseTerminates`, `CallsReturn`, `WaitsEnd`,
  `ListCloses`, `PendingEnds`, `ThreadEnds`, `DataFlows`), which is out of the
  prover's reach;
- `IsSequence`, the refinements of `RingSeq` and of `DataStream`: these two are
  written with operators that compute over sequences by recursion (`SelectSeq`,
  `FlattenSeq`, `FoldLeft`), of which nothing can be proved for every input
  without an induction theorem. What `RingProof` shows of a sort is that it loses
  no item and keeps the links; that it sorts, and stably, is TLC's.

## 5. Where the code and its documentation disagree

With a run:

1. `netwib_io_unplug_before(pio, type, pio)` cuts nothing but takes a user away
   from `pio` (`NB/sys/io.c:177` and the other branches): a link in use is freed
   by the next close. Run `IoChainSelfUnplug`.
2. A compound io asked to close its ios closes both, though they may be one
   (rdwr) or one may be above the other: the second close works on a freed link.
   Run `IoChainSharedHold`.
3. `netwib_thread_wait` takes any return of `pthread_cond_wait` for the end of
   the thread. After a spurious wakeup it joins with `condmut` locked, which the
   thread needs to end: deadlock. Run `ThreadListSpurious`.
4. The comment of `ringi.h:4-39` says "No problem." of `this_del` while other
   indexes walk, and allows a `del_criteria` that spares the current items when
   no `this_del` came before. An index without current item goes on from the
   neighbours it noted, which may be freed by then. Run `RingUseFreed`. The rule
   that is enough, and that `Containers` checks, is `MayDelete` and
   `MayDeleteAt` of `RingIndex`: an index without current item also protects the
   items it noted.
5. When the user of a virtual TCP socket closes, the FIN is sent with the number
   that follows the data sent, although the window held some back, which is then
   never sent (`NX/sockv/sockvtcp.c:512-523`); the comment at 1060-1062 says the
   close is dealt with afterwards. Run `SockvTruncates`.

Seen while modelling, without a run of their own:

- `netwib_threadlist_wait` with an end time in the past returns an internal
  error (`NB/sys/threadlist.c:204-210`), where `threadlist.h` promises *pevent
  FALSE. `netwib_waitlist_wait` does so with `NETWIB_TIME_ZERO` whatever its
  waits answered, for lack of a return (`NB/sys/waitlist.c:161-165`);
  `EventsAreReal` leaves that case out.
- With `NETWIB_TIME_ZERO` the lock over POSIX sets `*plocked` when it is refused
  but not when it succeeds (`threadrwl_posix.c:138-145`).
- A condition wakes on any return of `pthread_cond_wait`; in the debug build a
  waiter woken before a reinit, and running after it, returns a value that is
  not set (`ThreadCond`, `DebugBuild`).
- The expiry of a TCP session is not "updated on each packet received for this
  session" (`iosniff_tcpreord.c:109`) but only by those whose number is the
  expected one (211).
- An expansion of a hash during a walk may skip items or give them twice, which
  `hashi.h:19-23` does not say. `add_after` after a `this_del` at the same index
  hides the item that followed from the walk (`ringi.c:334-356`).
- `iousual_data.c`: at its end a stream of which only CRs are left gives one CR
  as text (122-127), where the comment says of `abc\r[end]` that the CR is not
  text (87); DataStream states it as the code has it. A write that fails below
  has stored its data (274), which leave with the next call: a caller who
  retries the write sends them twice.
- `iousual_mem.c` and `iousual_tlv.c` with locks: reads and unreads, which move
  the bounds of the buffer, hold the lock of the read buffer for reading only
  (`iousual_mem.c:83`, 269), so that two threads may be given the same data; a
  write tests `plockbufread` where it locks `plockbufwrite` (112-118).
- `netwib_priv_io_last` with `NETWIB_IO_WAYTYPE_SUPPORTED` has no break and
  always returns `NETWIB_ERR_PAINVALIDTYPE` (`NB/sys/priv/io.c:88-96`).
- `ranges.c`: a search for a range in a list that is not sorted may end in an
  internal error (1081); the type with duplicates accepts a range whose edges
  are exchanged (653-663), which the debug check refuses (228); after a
  `this_del` the walk of an unsorted list is over (1391-1394, 1463-1466).
- `sockvtcp.c`: a packet that only opens the window, with the number that was
  acknowledged already, is not looked at (328), so that after a window of zero
  the "We'll retry later" of line 202 does not come; the number 0 of a packet
  without ACK is taken for an acknowledgment, which shuts the window (186-192)
  and, when the number after a byte that was sent is 0, takes it out of the
  buffer before the remote host has it (328-331): with `Isn = 14` instead of the
  run's value `BufferIsTheRest` fails, hence the hypothesis `NoAckOfZero`;
  an error in the thread's loop (1050-1073) ends it before the answer at 1099,
  for which its father polls for ever; the state CLOSEWAIT lasts 100 ms and then
  drops what the user had still to send.
- `brute.c`: `netwib_threadlist_wait` writes the id of the thread that ended
  into the variable that numbers the next one (285), so that two live threads
  may share an id, which is only displayed; after an error the memory of that
  thread (216) and the results of the others are not freed, contrary to the
  comments at 113-114 and 164-165.
- `conf.c`: `global.h:27-30` asks those who call an update to see that nobody
  walks the configuration. The same care is needed at the first use, which
  nobody calls an update: two threads may both find `needtobeupdated` set, and
  the second one frees the rings that the first one walks by then
  (`conf.h:22`, `conf.c:252-257`). With `AsDocumented = TRUE` TLC finds
  `CachesAreTrue` violated that way in fourteen steps. What is enough, what
  `Locks` checks and `SharedIsTrue` proves: no update, of a first use either,
  while another thread walks. A search in the ARP cache needs no rule: it keeps the lock.
- `confarp.c:159-193`: an entry added before the first use goes with the tables
  that the first search replaces, where `confarp.h:80-81` says "Then resolving
  functions can find the value". Of two updates at the same time, the one that
  read the system first may swap last.
- `ip_init_eth.c:128`: the address just found is in `ipa`; what is put in the ARP
  cache is `pip`, which is not set yet. (`netwib_eth_init_ip`, which Conf models,
  adds the right one.)
- `webspiderurl1.c`: an url keeps the level at which it was first met (121), so
  that under `maxrecursion` the pages that are downloaded depend on the order in
  which hosts answer. Nothing promises more.

## 6. What is not modelled

- The walks of read, write, wait, unread and ctl over a chain: they change no
  link; planned (`IoWalk`).
- Init and close of locks, conditions, pools: start and end of a behaviour.
- Failures of `malloc`. Two were read to leave a trace: a pool keeps its mutex
  locked (`bufpool.c:151`, `170-177`), and `netwib_ring_index_add_ring_criteria`
  a ring half extended (`ringi.c:540`).
- Two threads on one chain, ring, hash or list: the library documents no such
  use, and only the pool has a mutex.
- Waits for an io, and lists of waits that change during a wait. The copy of a
  ranges index, and ranges written as text (decoded item by item into the calls
  that are modelled).
- The other usual ios (files, memory, TLV, exec, shell): each call is one
  operation of the system or of a buffer.
- In TcpReord and IpReas, packets that cannot be decoded (given as they are, no
  state), and the hash function.
- Virtual UDP and the choice of addresses and routes (`NX/sockv/vstack.c`): the
  UDP thread keeps no state between two packets.
- Of the web spider: what is kept of each page for the user (index, links made
  relative, lists of urls) and its configuration file. Of the cache of names:
  names of addresses (`netwox_dnscache_host`), which no caller uses.
- `threadrwl_posix.c`: next on the plan. Of the configuration: how each system is
  read (`net/priv/conf/`), and the search for an IP address (`ip_init_eth.c`).
- The Windows implementations, the operating system adapters, encodings,
  packets, formats, application protocols, tools and graphical interface. They
  are most of the source by lines: conversions, input and output, one call at a
  time, where a model would restate the code; pcre and the Windows binaries are
  vendored.

## 7. The plan

Done: chains, data ios, lock, conditions and waits, threads and lists, search,
spider, cache of names, configuration, containers, reordering, reassembly,
virtual TCP; and the proofs of section 4.

Next, in this order:

1. `IoWalk` on IoGraph: read, write and wait over the links of a chain, with the
   answers of links (`PLEASELOOPTIME`, `PLEASECONSTRUCT`, ...), and end of links
   on the way.
2. `threadrwl_posix.c`.
3. Virtual UDP, and the accept of a server with several connections.

To prove: `IsSequence` of the ring, with the order of `RingSeq` stated by ranks
instead of by filters; what a line of `DataStream` is, in the same way.
