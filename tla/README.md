# TLA+ verification of tinypinba

tinypinba receives statistics datagrams from PHP processes over UDP, counts the
requests in them into named reports, and shows reports at a console. This
directory holds its TLA+ specifications, the TLC configurations that check them
on small instances, and the theorems about them that TLAPS proves.

The source is work in progress: it does not build as it stands (some functions
are called and not defined, `Report` is abstract and instantiated, `base_data.cc`
and `report_data.cc` define the same methods) and has neither tests nor docs. The
specifications say what the code does as written; where it calls something that
is not there, the reading taken is stated below under *Readings*.

## 1. Inventory

### Components

| Component | Source | State | Operations |
|---|---|---|---|
| report container, one per worker | `report_container.*` | deques `empty_chunks`, `full_chunks`; `cmd_map`, a queue of commands per list; mutexes `chunk_lock`, `cmd_lock` | `get_emty_list`, `return_full_list`, `get_full_list`, `return_empty_list`, `add_report`, `del_report` |
| report lists | `report_list.*` | the reports of a list, by name; the main list also has a mutex | `add_report`, `del_report`, `get_report`, `return_report`, `add_request_to_reports`, `merge_reports` |
| worker threads (5) | `worker.cc` | the list held, the time to swap it | the loop: swap lists, `recv`, unpack, check, count, free |
| merger thread | `merger.cc` | the container and list it is at | the loop: for each container, take a full list, merge, clear, return; sleep |
| console (main thread) | `main.cc` | the name typed | show a report, or create it |
| report manager | `report_manager.*` | the containers, the main list | `add_new_report`, `delete_report`, `get_report` |
| reports and report data | `reports.*`, `base_report.cc`, `report_data.*` | per report, a map from index (server name) to counts | `add_record`, `del_record`, `merge_report`, `clear`, first and next entry |
| datagram decoder | `pinba.pb-c.*` | the tree of requests being built, its heap blocks | `unpack`, `unpack_merge`, `free_unpacked`, `check` |
| wire format | `protobuf-c.h` | none; a buffer that grows | size, pack, read and skip of each type; `append`; lookup of a field by number or name |
| encoder and descriptors (called by clients) | `pinba.pb-c.c` | the buffers being written | `get_packed_size`, `pack`, `pack_to_buffer` |
| start and socket | `main.cc` | the socket, the argument blocks of the workers | `main`, `pinba_socket_open`, `pinba_socket_free` |
| error log | `main.cc` | the last message and its time, under a mutex | `pinba_error_ex` |
| dictionary | `dictionary.*`, `pinba_request.cc` | the number of each word | `new_request`; never called |
| request tag report | `rtag_report1.*` | | disabled |
| MySQL handler | `ha_pinba.*` | a share that is never assigned | stubs |

### How they interact

    datagram --recv--> worker --counts into--> its list
                         |  ^                      
            full list    |  |  empty list          one container per worker
                         v  |
                       container <--commands-- console (new report)
                         |  ^                      |
            full list    |  |  cleared list        | adds, looks up, walks
                         v  |                      v
                        merger --merges into--> main list

A worker and the merger never share a list: a list is handed from one to the
other through the container, and has no lock of its own. Reports are created in
a list by *commands* that the console queues and the merger executes when it
returns the list. The console takes the main list's lock for its lookups and its
insertions; the merger works on the main list without it.

### What is hard

- *Ownership.* All safety of the unlocked lists rests on the container's
  queueing. A list that is lost stops a worker for good (it has two).
- *Commands at different times.* Each list executes each command when it passes
  through `return_empty_list`; a command may come between the release of
  `cmd_lock` and the push of the list.
- *Creation of a report*: containers first, one after the other, main list last,
  and the check for the name is made before, under a lock released in between
  (it holds until then: one console thread adds all names).
- *The unlocked main list*: the merger's lookups race with the console's
  insertions, and the console's walk with the merger's insertions.
- *Merge, then clear*, in steps, of entries that stay in the list afterwards.
- *Waiting*: a worker only swaps lists after a datagram; one merger serves all.
- *Decoding*: allocation or input may fail anywhere in a tree of nested
  requests; arrays grow without a stored capacity.
- *Encoding*: the length of a nested request is known only after it is written,
  and takes one byte or more; buffers grow, or fail to.
- *Clocks*: the workers' period and the error log go by wall-clock time, which may
  be set forward and back.
- *Starting*: a worker reads its argument some time after `main` filled it, while
  `main` is at the next one; every call on the way may fail.
- *In place*: the dictionary renumbers tags that it still has to compare.

`PROJECT.json` lists each hazard at its line with the properties about it, or
why there is none.

### What makes each component correct

- container: every list has one owner; owners change along the cycle empty,
  worker, full, merger; all lists are on their way to the same reports; reports
  change only in the merger's hands.
- worker, merger, console together: a request is counted at most once in each
  report, stays counted, and reaches the main list while there is traffic; no
  request is dropped for want of a list; no report is made twice; a created
  report reaches every list.
- reports: per index, what the list and the main list hold adds up to what was
  recorded; the walk leaves nothing out.
- decoder: nothing leaks or is freed twice; no element without room; what is
  accepted is complete; each well-formed request of the tree is counted once.
- wire format, encoder: what is packed is read back and skipped whole; both ways
  of writing a request give the bytes of the descriptor, in the size counted; a
  field is found if it is there.
- error log: what is dropped is the last line, no older than the clock admits; no
  line twice a second; lines in order; the mutex comes back.
- period: a list is handed in neither before its period ends nor later than the
  clock says.
- start: each worker has its own container and the bound socket; a failure closes
  what was opened.
- dictionary: each tag is renumbered once, from the number it was sent with.

## 2. Plan

Order of the modules, most important behaviour first:

1. `ListCycle`, `ReportContainer`: the hand-over. *Done, with proofs.*
2. `Accounting`, `Pinba`: the threads, composing the containers. *Done; types,
   use of the containers and `NoRequestDropped` proved.*
3. `Report`: one report entry by entry. *Done, with proofs.*
4. `RequestUnpack`: one datagram. *Done, with proofs.*
5. Proofs about `Pinba`: `MissingOnlyWhileCreated`, `NoReportTwice`,
   `CountedOnce`, and that it implements `Accounting`. *Done.*
6. `WireFormat`, `Varint`, `FieldLookup`, `RequestCodec`: the bytes of a
   datagram. *Done, with proofs.*
7. `ErrorLog`, `WorkerClock`, `Startup`, `Dictionary`. *Done, with proofs.*
8. Left: a composition. `Report`, for each name and list, under `Pinba`'s
   multiplicities, would show that "merge one index" in `Pinba` is what `Report`
   does entry by entry; `RequestUnpack` under `RequestCodec` would replace "every
   read may fail" by the bytes that make it fail.

Abstract specifications: `ListCycle` (what a container promises) and
`Accounting` (what the program promises of a request); `ReportContainer` itself
is the abstract specification of the use the threads of `Pinba` make of it.

## 3. The modules

| Module | Models | Notes |
|---|---|---|
| `ListCycle` | promise of a container | owner of each list |
| `ReportContainer` | `report_container.*` | one action per critical section |
| `MCReportContainer` | | bounds the commands that wait on a list |
| `Accounting` | promise of the program | status of each request in each report |
| `Pinba` | `worker.cc`, `merger.cc`, `main.cc`, `report_manager.cc`, `report_list.*` | instantiates `ReportContainer` |
| `MCPinba` | | gives requests their indexes |
| `Report` | `reports.cc`, `base_report.cc`, `report_data.cc` | one report of a list and its namesake in the main list |
| `RequestUnpack` | `pinba.pb-c.c`, `worker.cc:7-48` | one datagram from `recv` to `free_unpacked` |
| `WireFormat` | `protobuf-c.h` | size, pack and skip of a value, as operators on words and bytes |
| `Varint`, `MCVarint` | `protobuf-c.h` | one value from client to server, byte by byte |
| `FieldLookup`, `MCFieldLookup` | `protobuf-c.h`, tables of `pinba.pb-c.c` | the two binary searches in a descriptor |
| `RequestCodec`, `MCRequestCodec` | `pinba.pb-c.c`, `protobuf-c.h` | a request written, in either way, the blocks of its buffers, and what is read of it |
| `ErrorLog` | `main.cc`, `pinba.h` | `pinba_error_ex` in several threads |
| `WorkerClock`, `MCWorkerClock` | `worker.cc`, `pinba.h` | when a worker swaps its lists |
| `Startup` | `main.cc`, `worker.cc`, `report_manager.cc` | from `main` to the threads' loops |
| `Dictionary`, `MCDictionary` | `dictionary.*` | `Dictionary::new_request` |
| `...Proofs` | | theorems; `WireProofs` is on `Varint` and `FieldLookup`, `CodecProofs` on `RequestCodec`, `ThreadProofs` on `Startup`, `WorkerClock` and `ErrorLog`, the others on the module they are named for |

`PROJECT.json` maps every definition to its lines. Definitions called
`<Name>_<what>` next to a definition `<Name>` are mutants: plausible bugs in the
same code that the properties must notice.

**ReportContainer.** Lists are numbered 1 to `ChunkCount`, 0 is NULL. Each
critical section under `chunk_lock` is one deque operation and so one action.
`return_empty_list` is taken apart: take `cmd_lock` (`LockCommands`), execute
commands one by one (`RunCommand`), release (`UnlockCommands`), push under
`chunk_lock` (`PushEmpty`). `Next` is the freest use the methods allow; the
history variables `worker_has`, `merger_has`, `flushed` and `commanded` say who
has what and what was asked for.

**Pinba.** Every thread has a program counter. A worker's turn is `KeepList` or
`TakeEmptyList` and `SwapLists`, then `Receive`. The merger's is
`GetFullList`/`SkipContainer`, per report `FindReport`/`MissReport`, per index
`MergeData`, `ClearReport`, then the four steps of the return. The console's are
`ShowReport`/`ReturnReport`, and `NewReport`, `TellContainer` per container,
`BeginInsert`, `EndInsert`. The container actions are `ReportContainer`'s own,
through `INSTANCE` with the history variables defined from the threads' locals.
Counts are multiplicities of requests, so that "twice" and "lost" are visible.

**Report.** A map from index to count for the list's report and for the main
one; records added and deleted while the list is the worker's; merge and clear
one entry at a time while it is the merger's; the console's walk beside it.

**RequestUnpack.** A stack of calls of `unpack_merge`, each with the
`buffer_end` it reads up to, and one `buffer` for all of them: a nested call starts
where its caller is, and the caller goes on where it ended. The tree built so far;
the heap as a set of blocks. Every read may fail, and so may every allocation. Then
the walk over the accepted tree and its release. `pinba__request__check` is the
condition the walk tests. What `free_unpacked` visits (`Tree`) is the least set that
has a message and all in it, and a power of two (`IsPowerOf2`) what comes from 1 by
doubling: neither needs recursion, so that both can be proved about.

**WireFormat.** A word is the set of its 1 bits within its width, so that shifts
lose the bits they lose in C; a byte is a word of 8 bits. `Varint` sends one
value: packed by the client, cut anywhere by the end of the datagram, read by the
server one byte per step.

**FieldLookup.** One turn of a search loop is a step. A table of ranges or of
names is a constant, of the form that protoc writes (`IsRangeTable`,
`IsNameTable`); `MCFieldLookup` has Pinba.Request's own among them.

**RequestCodec.** Fields in the order of the generated code, with its literal tags,
which must agree with the descriptor. Nested requests are calls on a stack. Each value
that `pack` writes is a step; `pack_to_buffer` fills `scratch` (`AppendValue`) and then
has one or two pieces to `append`, each of which may find its buffer full and get no
larger block (`LoseBytes`). The heap is a set of blocks, each named by the depth of the
call and its size; the block of a nested call goes with the piece it is appended as.

`Counted` is `get_packed_size` up to a place in a request, a field and how many of its
values, and `Meant` the bytes that the descriptor asks for up to there: recursive
functions of the place. When `pack` has returned the server reads what it wrote, one
value per step, nested requests as calls on the stack (`ReadField`, `ReadRequest`): what
well-formed bytes become. The control of the decoder on any bytes is in `RequestUnpack`.

**ErrorLog.** Per thread: call, lock, `time`, compare, then `Drop` or
`WriteLine`. `PassSecond`, `SetForward` and `SetBack` are the clock.

**WorkerClock.** What `Pinba` has as the flag `due`: `gettimeofday`, `timercmp` and
`timeradd` on the code's two fields, `get_emty_list` as a count of empty lists. The
variables `elapsed`, `set`, `read` and `swapped` are not in the code; they say how
much time really passed.

**Startup.** `main` call by call, each failing or not; a worker reads its argument
block when it is scheduled. `Pinba` starts where this ends.

**Dictionary.** One dictionary entry is a step; `Mark` is the top bit, and a number
is below `2 * Mark`. A number given out at or past `Mark` (`cur_pos > Mark`) is taken
for one already renumbered; `TagsTellWords` is claimed up to there.

### Readings

- A lookup of the merger that races with an insertion of the console into the
  same `std::map` may miss a name; one of the console that races with an
  insertion of the merger may miss an index. That such a race, undefined
  behaviour in C++, crashes the program is left out.
- `Report::merge_report` calls `create_new_data(ReportData *)`: taken to give an
  entry with nothing counted, as the one implementation there is
  (`rtag_report1.cc:14-20`) does. `add_report_data` stores it under the index.
- `base_report.cc` calls `get_or_create(request, index)` and
  `create_new_data(request, index)`: taken to store the entry they create.
- `ReportProducer::create_report` makes an empty report, and never fails.
- A report data is that of `report_data.cc`: the request count.
- `uint32_t` and `int32_t` are 32 bits wide and shifts of a negative `int32_t`
  bring the sign in; zigzag of large values wraps. A float's bytes are those of
  little-endian memory.
- `pinba__request__check` looks at the pointers of the arrays only. The required
  fields are checked by `unpack` itself, and so they are in `RequestUnpack`.
- `dictionary.cc:15` assigns a number to the pointer `tag_value`, which does not
  compile: left out. `add_word` is declared and not defined: taken to keep a word's
  number and give a new word the next.
- When `calloc` fails for a worker's argument, `main` writes through NULL: taken to
  end the process. So do `exit` and `return`, some time after the call that failed.
- `pinba_error_ex` is modelled from the formatted message on.
- Printing is left out. As written the walk prints nothing, since
  `print_record(0)` returns -1 (`report_data.cc:9-14`).

## 4. The runs

| Run | Bounds | Shows |
|---|---|---|
| `container` | 1 worker, 2 lists, 2 names, up to 2 commands waiting on a list | `TypeOK`, `OneOwner`, `ListsConverge`, `ReportsStable`, refinement of `ListCycle` |
| `two_workers` | 2 workers, 2 lists each, 1 report, 1 request | `TypeOK`, `CountedOnce`, `NoRequestDropped`, refinement of `ReportContainer`, `FullListsReturn` |
| `two_reports` | 1 worker, 2 lists, 2 reports, 2 requests of different indexes | `MissingOnlyWhileCreated`, `NoReportTwice`, refinement of `Accounting`, `TrafficIsMerged`, `ReportReachesLists` |
| `report` | 3 indexes, at most 1 record more or less than none per index | `Conserved`, `WalkIsComplete` |
| `datagram_nested` | 5 fields, depth 5, 6 arrays, first block 2 | `HeapIsExact`, `ElementsHaveRoom`, `AcceptedIsComplete`, `EachCountedOnce`, `BackToRecv` |
| `wire_values` | all types; words at the edges of bytes, groups and sign | `ReadsBack`, `SkipsWhatItReads` |
| `field_lookup` | up to 4 ranges of up to 2 numbers, up to 9 names, and Pinba.Request's tables | `FindsTheField` |
| `request_codec` | 4 shapes of nesting, each around 10 messages, and one deeper still | `BothWaysAgree`, `NoBlockLeaks`, `ServerReadsIt` |
| `error_log` | 2 threads, 2 messages, 2 seconds, clock up to 3, back by up to 2 | `DropsOnlyRepeats`, `NotTwiceASecond`, `InOrder`, `LogIsFree` |
| `worker_clock` | 6 microseconds, of which 3 make a second; 2 lists | `NotBeforeThePeriod`, `NotLaterThanTheClock` |
| `startup` | 5 workers | `WorkersHaveOwnContainer`, `SocketIsBound`, `NullMeansClosed`, `EveryThreadStarts` |
| `dictionary` | up to 3 entries of 3 words, 2 tags, a mark of 3 | `Renumbered`, `TagsTellWords` |

Why these bounds:

- *Lists.* Two per container is the code's own number
  (`report_container.h:25`).
- *Workers.* Containers share nothing but the merger, which visits them in turn;
  two show a container waiting behind another. The code has five.
- *Commands waiting* (`MaxPending`). Two let a deletion follow a creation, and
  the creation of one report the deletion of another, on a list that has executed
  none, one or both. `Pinba` needs no such bound: a name is created once.
- *Requests.* Each is received once, so that counting it twice shows; two in one
  datagram with different indexes reach both turns of the loop over a report's
  entries.
- *Report.* Three indexes give the walk an index behind it, one it is at and one
  ahead, and merges that find, insert and skip in one round. Counts of -1, 0, 1
  are all that `is_empty` tells apart.
- *Datagrams.* `Size` bounds the fields; five allow an array past its first block
  of two and past its second of four, two nested requests side by side and three in
  one another. The code's first block is eight: only the number differs, for the
  test of a full block is the same power of two test from the first block on.
  `MaxDepth` bounds nesting; the code has no bound but the datagram's length, and
  the machine's stack is not modelled.
- *Words.* Each bit goes the same way whatever the others are; what differs is where
  a byte, a group of seven bits or the sign begins. Runs of ones between all these
  places have every highest and every lowest bit that a size or a carry depends on.
- *Messages.* Their lengths are on either side of what takes one and two bytes of
  length (127, 128), of the scratch buffer of 256 bytes, and of twice that.
- *Tables.* Odd and even numbers of entries up to nine go through every way of
  halving three times; ranges touch or have a gap between them.
- *Clocks.* Three seconds of the log, set back by two, have the same second come
  three times. A second of three microseconds has `timeradd` carry and not; the
  theorems hold of a million.
- *Dictionary.* A mark of three, for the bit of `2^31`, is just enough for three
  words: the numbers of entries and those the server gives are the same ones, which
  the mark must tell apart.
- *Startup* has the code's own number of workers.

**Deadlock** is checked in every run but two: the threads run for ever. A search
(`field_lookup`) ends with a result, and `startup` with `main` at the console, which
is `Pinba`'s, or with the process.

**Fairness.** `Pinba!FairSpec` has weak fairness of each thread's own steps, which
the operating system's scheduler gives, and of `PeriodElapses`, since time goes
on. Weak is enough: `chunk_lock` is held for one step at a time, the merger
takes `cmd_lock` from the console only while it executes finitely many commands
that nobody adds to meanwhile, and what is checked of a new report starts when it
is in the main list. `Receive` and the console's input are *not* fair: a worker may
wait in `recv` for ever, so that the properties about traffic assume it
(`[]<>(worker_pc[w] = "top")`). `RequestUnpack!FairSpec` has weak fairness of the
worker's steps after `recv`. `MergerFairSpec`, for `FullListsReturn`, has
weak fairness of the merger alone: the lists come back whatever the other threads
do. `ErrorLog!LogFairSpec` has weak fairness of a thread that has the mutex, none of
waiting for it; `Startup!FairStartupSpec` of `main` and of each thread that was created.

## 5. What is proved

By TLAPS, for every value of the constants.

**ReportContainerProofs.** From `Init` and the freest use of the methods:
`TypeOK`; `OneOwner`; `ListsConverge`; `ReportsStable`; and that the container
implements `ListCycle`. `OneOwner` is inductive with one addition: the list whose
commands are being executed (`cmd_lock`) is one the merger has and has not
finished with (`MergerLists`). `Partition` is shown one user step at a time from
lemmas about taking the head of, and appending to, an injective sequence.
`ListsConverge` rests on two lemmas about `Outcome`: executing the first command
of a queue does not change it, and a command appended decides its name.

**PinbaProofs.** `Inv` is `TypeOK`, `Locals` (which thread-local pointers are set
at which program counter, and that a worker past its first turn has a list),
`MergerLists` and `OneOwner`. `UsesContainers` says that each step of a thread is
a step of `ReportContainer` or leaves it alone, so the theorems above hold of the
program. `NothingDropped` needs more than the shape of the loop: a worker has no
list only before its first turn, and then the list it finds must be there, which
follows from `OneOwner` (all lists are in the queue of empty ones, for no one else
has them) and from there being a list at all (`ListCountAssumption`).

Two more invariants stand on `Inv`. `Registry` is about names: on every list, the
reports it has and those its queued commands create are all among the ones asked
for, each once, and a name the console is about to create is not in the main list;
from it, `MissingOnlyWhileCreated` (`MissingNames`) and `NoReportTwice`
(`NamesOnce`). `Counts` is about requests: a request is in a list's report at most
once, at most one list owes it to the main list, and none does once the main list
has it, where an entry that the merger has added and not yet cleared is not owed
any more. It is inductive because only a list that is a worker's is counted into,
only one that is the merger's is merged, and by `OneOwner` none is both; and
because a request is received once. From it, `CountedOnce` (`NeverTwice`), and that
the program implements `Accounting` (`StaysCounted`).

**ReportProofs.** `Conserved` is inductive with `Loops`: the entries the clearing
loop has behind it are zero, and the entry being inserted is not in the main
report before and is after. `WalkIsComplete` is inductive with: what was there
when the walk started is there still.

**RequestUnpackProofs.** For a datagram of any size, any nesting, any required
fields and arrays. The messages form a forest (`Forest`): a message hangs below one
that was allocated earlier, there once, and none whose call still runs hangs
anywhere. The calls (`Calls`) are on later messages the deeper they lie and end no
later than their callers. Then:

- `HeapIsOwned`: the heap is what the trees of the running calls, or the accepted
  tree, point to. When a call fails its whole tree goes and its caller's stays, for
  trees of two messages that hang nowhere have nothing in common; when it succeeds
  its tree becomes part of its caller's. From it, `HeapIsExact` (`HeapExact`).
- `Rooms`: a block's size is the first block doubled some times and the array's count
  is at most that, so that the test "n is a power of two from the first block on" is
  met exactly when the block is full. From it, `ElementsHaveRoom`
  (`RoomForElements`). It needs that the first block is itself a power of two
  (`FirstBlockAssumption`); the code's is 8.
- `Complete`: all that hangs below a message was decoded to its end, and so has its
  required fields (`AcceptedComplete`).
- `Visiting`: the trees still on the walk's list are apart from each other, and of all
  others in the accepted tree the well-formed ones were counted, each once
  (`CountedOnce`).

The lemmas on forests (`BelowIsClosed` to `RootBelowNone`, and those that add a message
to a tree or take one off) say of a least closed set what recursion over the tree would.

**WireProofs.** For every value of every type and both widths. The packers shift and
mask in several ways: four loops, a negative `int32_t` as ten bytes, a 64 bit value in
two halves with a byte that has bits of both. All of them write the groups of seven bits
of one word, lowest first, all but the last with the top bit set, as many as were counted
(`IsVarint`, `PackIsVarint`). That word (`WordOf`) is the value, or its zigzag, or the
negative value extended, and `ValueOf` leads back. The invariant `Reading`: after i bytes
the reader has the lower 7 i bits of that word. From it, `ReadsBack` (`RoundTrip`).
`SkipsWhatItReads` (`SkipsTheSame`) follows without another invariant: of a varint only
the last byte lacks the top bit, and a fixed value's length is that of its wire type.

Also for every table that protoc may write, with any number of entries
(`LookupFinds`): the entry that is wanted, if there is one, is among those left, and
the middle of two or more is inside the table.

**CodecProofs.** For all requests that fit in a datagram, nested to any depth.
`Counted` and `Meant` recur over the values of a request and the requests nested in it.
That there are such functions is itself a theorem to prove, and what they compute for
every input is an induction: both rest on the places of requests being well-founded
(`Before`: by nesting depth, then field, then value). A function is defined on all
places when each value is made of those before it (`Recursion`: take, for each place,
what the functions that are right below it agree on). Place by place, then, the size
counted is the number of bytes meant (`AllAgree`).

`BothWaysAgree` (`CodecAgrees`) has one invariant for each way. `pack` (`IsPacking`):
what is written is the bytes meant up to the place of the call on top, behind those of
its callers, each of which has left one byte for the length of the call above it. When
a call returns, its bytes move up as far as its length needs, which is known to fit
in what was counted (`PackedSize`). `pack_to_buffer` (`IsAppending`): while no
allocation has failed, what is in a call's buffer, with the pieces still to pass on to
it, is what is meant up to its place. Once one has failed, some call's buffer is shorter
than what it has passed on, or holds what nobody wrote (`Junk`), and neither is ever
made good: a nested buffer that is too short comes out as junk in its caller's.

`ServerReadsIt` (`ServerReads`) joins the writer to the reader. When `pack` returns, what
is sent is what is meant. Invariant (`IsReading`): each call of
`pinba__request__unpack_merge` has stored the values up to a place of its request, is
where the bytes up to that place end, and its bytes end where those of the request do; a
call that waits for another has all but the value that one reads. A field without values
leaves no bytes, so a call that goes on may be taken to be just before the next value, or
to be done (`NextValue`). No two tags have the same first byte (`TagBehind`), so the one
in front is that value's; behind it `ReadUint32`, four bytes or a length give back what
was packed (`GivesBack`, `NestedPart`; a string fits in its array with its NUL, so nothing
is cut), whatever follows; and what is stored then is what there is up to the next place
(`GotStored`). The assumption is that of the writer: requests are what the structures
can hold, and fit in a datagram (`SizeAssumption`), which the length of a nested one
needs to be a number that the word holds.

And for buffers that grow any number of times and any allocation that fails
(`NoBlockLost`): the blocks in the heap are those that the calls of
`pack_to_buffer` have still to free. Invariant (`CodecInv`): only the call on top of the
stack has pieces to append, and only the last piece comes with a block, that of the
nested call which made it. So a block has one owner, and it stays owned while the nested
call returns (`AppendLength`), when its buffer is gone and the block is still to be read.

**ThreadProofs.** *WorkerClock:* `timeradd` adds and `timercmp` compares microseconds
as long as the values are normal; the clock is what passed and what it was set by; so
`next` is the time of the last swap and the period. *ErrorLog:* holding the mutex
(`Exclusion`) makes what is kept the last line (`Kept`) and orders the readings of
the clock (`Ordered`): how far the clock is ahead of real time never falls, if the
seconds it was set back by are added. *Startup:* nothing is started before `bind` and the manager (`Order`), and a
block that was filled is not filled again (`Given`).

**DictionaryProofs.** `Renumbered` is inductive with the types: a marked number is
not below the mark, and so is no entry's. With `WordsDiffer`, that no two words have
one number, it gives `TagsTellWords` (`EqualTags`).

The types of `Report`, `RequestUnpack`, `ErrorLog`, `WorkerClock` and `Startup` are
proved and are not among the runs' properties.

Assumptions on constants: there are finitely many workers numbered from 0, at
least one list (`Pinba`), indexes are natural numbers (`Report`; this stands for
the order of the map), the value for "no name" is not a name; `Million`, `Mark` and
the bounds are natural numbers, the first two not zero; a datagram has at least one
field, no array is called `requests` or `message`, and the first block is a power of
two (`RequestUnpack`); the words of `Varint` have 32 and 64 bits; a request's
dictionary has at most `Mark` words, and tables are as protoc writes them; the requests
a client writes are what the structures can hold, nest to some depth, and fit in a
datagram (`RequestCodec`).

## 6. What is only model-checked

- Liveness (`FullListsReturn`, `TrafficIsMerged`, `ReportReachesLists`,
  `BackToRecv`, `LogIsFree`, `EveryThreadStarts`): beyond the prover.
- In `WireFormat`, `skip_bytes`: the number a word stands for is a sum of powers of two.
  `CodecProofs` has that sum for the lengths a datagram can hold.

## 7. What is not modelled

- `delete_report`: never called, and it would call `create_report` on NULL. The
  commands that delete a report from a list are in `ReportContainer`.
- In `report_list.*`: `del_request_from_reports`, `SharedReportList::del_report` and
  the counters `req_count` and `version`, which nothing calls or reads.
- In `protobuf-c.h`: the default allocator, lookups of enumerators and of services
  (the searches of `FieldLookup` on other tables), unknown fields, and the
  declarations of what the program has no part of.
- `dictionary.cc`: what `tag_value` becomes, and `get_string`, which is not defined.
  `pinba_request.cc` has no effect.
- `ha_pinba.*`: stubs around functions that are not in the source; its share is
  never assigned.
- `rtag_report1.*`, `base_data.cc`: disabled or superseded.
- `pinba_config.h`, `pinba_limits.h`, `pinba_types.h`: constants and types.
- Values: strings, and `size_t` or `ssize_t` at their limits, which counts of
  requests do not reach. Formatting and printing.
- The `#if 0` block of `merger.cc`.
