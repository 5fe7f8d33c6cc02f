# Verification of the mangoxx firmware SDK

TLA+ specifications of the parts of this SDK that have state and can go wrong:
an event kernel, an HTTP and WebSocket client with its socket layer and example
programs, a flash file system down to its pages, and the two text libraries the
firmware builds trees with. Each module is a translation of the C or C++ code
named in `PROJECT.json` ("map" gives the lines). TLC checks small instances;
TLAPS proves theorems for every instance.

Contents: 1 the system, 2 the modules, 3 the runs, 4 the proofs, 5 what the
work showed, 6 what is not modelled, 7 the plan.

## 1. The system

`apps/sample_fcmd` is a Linux program that simulates firmware: a command shell
calls test functions of the components linked with it. The components do not
call each other, apart from the pairs noted below.

| component | state | operations | hard behaviours |
|---|---|---|---|
| **fsm_simple** (`fsm.c`) | a ring of events and a state handler per task, a timer pool, `next_dispatch`, a hook, shared transition variables | post, dispatch, set/reload/delete timer, tick, transition, power lock | interrupts that post between any two statements; a dispatcher that asks for itself; transition variables shared by all tasks |
| **mango** (`mangoSM.c`, `mangoDP.c`, `mango.c`, `mangoHelper.c`) | connection state, subscribed event, timeout, working buffer with two indices, one input and one output processor with one shared argument pointer | build a request, process it, send data, poll, send a frame, close | the peer: late, wrong, cut at any byte, silent; timeouts; a buffer that fills |
| **mango port** (`mangoPort.c`, `mangoWS.c`, `mangoCrypto_base64.c`) | a blocking socket, SSL objects, certificates, a millisecond clock of 32 bits | connect, read, write, disconnect; frames and numerals | a peer that stalls; the clock's wrap; a step of connecting that fails; numbers at the end of their width |
| **mango examples** (`mango_httpc_test/`) | a client, a file being sent | a script of calls per program | one way out for every failure |
| **spiffs files** (`spiffs_hydrogen.c`, `spiffs_cache.c`, parts of `spiffs_nucleus.c`) | objects on flash, descriptors with a copy of the size, write-cache pages, one work buffer | creat, open, read, write, lseek, stat, fflush, close, remove, fremove, rename, mount, unmount | several descriptors on one file; cached writes; power cuts; a full flash; stale copies |
| **spiffs pages** (`spiffs_nucleus.c`, `spiffs_gc.c`, `spiffs_check.c`) | pages with headers, object lookup tables, index pages, page counters | page allocation, move, delete; collection; consistency check; listing | power cuts between two page writes; the collector inside a call; space for the collector itself |
| **flash image** (`flash_device.c`, `flash_spiffs.c`) | a byte array that is loaded from and saved to a file | read, write (clears bits), erase, flush, mount | double start and stop |
| **cJSON** (`cJSON.c`) | items in doubly linked lists, allocated blocks | create, add, insert, replace, detach, delete, duplicate, parse, print | list surgery; memory that runs out half-way; sizes added up before writing |
| **tinyxml2** (`tinyxml2.cpp`, `tinyxml2.h`) | nodes with parent, child and sibling pointers, four pools with counters | parse, load, save, print, create, insert, clone, delete, attributes | surgery again; a parser that gives nodes back; white space and depth kept in one variable |
| **jpge** (`fb_io.h`, `my_cache.c`, `jpge.c`, ...) | a ring, a worker with events, encoder buffers | DMA writes, worker drains, reader reads | three contexts on one ring |
| **fcmd** (`fcmd.c`, `cmd_*.c`) | the command line being parsed | scan arguments, call | quoting |
| **crc**, **minilzo** | none | pure functions | widths |

Who uses whom: `flash_spiffs.c` mounts SPIFFS on `flash_device.c`; `my_cache.c`
writes frames of the `fb_io` ring to flash; `mangoPort.c` is the socket layer
below mango, mango calls back into the application; `fcmd.c` calls the tests.
The event kernel calls task handlers that are not in the repository.

What makes each component correct:

* **event kernel**: a queue never loses, repeats, reorders or invents an event; a task
  gets ENTRY before anything else in a state (but for events that were posted while the
  kernel started) and never runs in another task's state; a periodic timer is stopped by
  nobody but its owner; a queued event is eventually handled, and a kernel that goes to
  sleep has been asked to wake up if something is left.
* **mango**: no `MANGO_ENSURE` (an endless loop) is reachable; the processors
  resume where a read stopped; a final status code means the body has been
  delivered, complete, and is the answer to *this* request; WebSocket data stay
  in order under their message's id; a timed wait ends once the server stops sending.
* **mango below and above**: whatever fails, sockets, certificates and memory
  are given back once; a request in the working buffer is whole or as it was;
  sizes and frames mean the same on both sides; transfers keep their time.
* **spiffs files**: any mix of descriptors sees one file content; a cached write
  belongs to an open descriptor of the right file, exists once and leaves the
  cache usable; a flush that reports success survives a power cut.
* **spiffs pages**: no page is lost or referred to twice, the counters that decide
  whether there is room are right, descriptors follow their moving pages, the
  collector is not visible, and the check mends what a power cut leaves.
* **cJSON, tinyxml2**: the pointers always form one tree per root, nothing leaks
  when a step fails, blocks are large enough, and what is printed parses back.

## 2. The modules

| module | models | kind |
|---|---|---|
| `Fsm` | `fsm.c` | state machine |
| `FsmMailbox` | what the queues promise: bounded FIFO mailboxes | abstract specification |
| `FsmProofs` | | theorems about `Fsm` |
| `Mango` | `mangoHttpClient_t`, `mangoSM_ENTER`/`THROW`, the working buffer | state and shared operators |
| `MangoDP` | input processors of `mangoDP.c` | extends `Mango` |
| `MangoSM` | state machine, API, output processors, the server | extends `MangoDP`, a complete specification |
| `MangoProofs` | | theorems about `MangoSM`: types, assertions, pointers |
| `MangoStream` | | the upgraded connection: frames and messages; extends `MangoProofs` |
| `MangoAnswer` | | requests and bodies; extends `MangoStream` |
| `MangoWire` | numerals, header look-up, base64, frames, elapsed time | pure operators |
| `MangoPort` | `mangoPort.c`, connect and disconnect of `mango.c` | extends `MangoWire` |
| `MangoApps` | the programs of `mango_httpc_test` on the port | extends `MangoPort`, a complete specification |
| `MangoAppsProofs` | | theorems about `MangoPort` and `MangoApps`: resources, time, frames |
| `MangoWireProofs` | | numerals, base64, heads and uploads; extends `MangoAppsProofs` |
| `FileApi` | what SPIFFS promises its callers | abstract specification |
| `SpiffsFiles` | file API, write cache, descriptors, objects | state machine, implements `FileApi` |
| `SpiffsProofs` | | theorems about `SpiffsFiles` |
| `SpiffsRefinement` | | `SpiffsFiles` implements `FileApi`; extends `SpiffsProofs` |
| `SpiffsNucleus` | pages, lookup tables, allocation, move, delete, object events | operators on a file system |
| `SpiffsGc` | `spiffs_gc.c` | extends `SpiffsNucleus` |
| `SpiffsObjects` | create, open, append, modify, truncate, read, mount | extends `SpiffsGc` |
| `SpiffsCheck` | `spiffs_check.c` | extends `SpiffsObjects` |
| `SpiffsPages` | the calls, the power cut, the listing | extends `SpiffsCheck`, implements `ObjectStore` |
| `ObjectStore` | what the page level promises: named files | abstract specification |
| `JsonText` | strings and numbers of cJSON, byte for byte | pure operators |
| `CJson` | items, lists, parser, printers | extends `JsonText`, implements `JsonLists` |
| `JsonLists` | what the list calls promise: sequences of children | abstract specification |
| `XmlHeap` | nodes, pointers, pools of tinyxml2 | operators on a document |
| `XmlText` | parser and printer | extends `XmlHeap` |
| `XmlChars` | entities, character references, UTF-8 of tinyxml2, byte for byte | pure operators |
| `TinyXml` | an application that types, parses, edits and saves | extends `XmlText` |
| `MCFsm`, `MCMango`, `MCMangoApps`, `MCSpiffsFiles`, `MCCJson`, `MCTinyXml` | | instances for TLC |

### Fsm

`tasks_queue[t]` is a `queue_t` with its `head`, `tail`, `used` (an unsigned byte) and
`buf`. The main context has a program counter: `os_dispatch` is cut where it can be
interrupted (the test of `used`, the removal, each handler call), and so are
`os_timer_update` and the loop of `os_init_tasks`, which posts ENTRY to one task after
the other (`InitTask`). `IsrPost` is `os_post_message` called from an interrupt, at any
of these points, in and before the start-up loop too: an early event is then in front of
its task's ENTRY, or fills the queue so that ENTRY is refused. With a hook,
`os_register_hook` comes before interrupts are let in. `Masked` says whether
`PORT_CPU_DISABLE` works; `fsm.h` defines it empty on this platform, and then a post of
the main context can be interrupted between the two halves of `used++` (`MainPost`,
`FinishPost`, `Torn`). Handlers are external: while one runs it may call any kernel
function of `HandlerOps`, any number of times, then it returns. One rule is assumed of
them: a handler asks for a transition to a state of its own task, and not while it
handles EXIT or ENTRY (section 5 says what happens otherwise); `OwnState` and
`EntryFirst`, checked and proved, rest on it. `wake`, `entered` and `refused` (tasks
whose start-up ENTRY found a full queue) are history variables.

### Mango, MangoDP, MangoSM

One action per event case of each `mangoSM__...` handler. `Enter` is
`mangoSM_ENTER` with the ENTRY handler that follows at once. `pc` is "app" (no
call in progress), "loop" (in `mangoSM_PROCESS`) or "idp" (an input processor
called by a PROCESS event runs, one action per turn of its loop).

Bytes become tokens, one for each syntactic unit the client can tell apart: start
and end of a head, a chunk size, the newline after it, a byte of data, CR, LF, the
two halves of a frame header, an extended length. A token takes one place of the
working buffer; a read takes any number of tokens that fits. So every place a read
can stop, and every way the buffer can fill, is there; the characters of a header
are not. The server is external: it answers the request it got with any reply of
`Replies`, or sends frames, at any time it may. It frames its bodies correctly
except for the replies that are malformed on purpose.

Time is two Booleans: a timeout is set (`timed`), and it has passed (`expired`,
by `Tick`). A late answer is an answer that arrives after `Timeout`. New data of a body
restart the timeout (`ReadData`, `mangoSM.c:634`). One reply has a Transfer-Encoding
whose value is longer than the buffer it is copied to.

### MangoWire, MangoPort, MangoApps

`MangoApps` is the same client seen from the socket: the state machine is left to
`MangoSM`, and a call is the reads and writes it makes. `MangoPort` has the two loops of
`mangoPort.c` (`Select`, `SelectTimesOut`, `SelectFails`, `Recv`, `Send`, cut where the
clock can tick or the peer can act) and the life of a connection: `held` is the set of
things allocated or opened, `Acquire` gives and takes them along the labels of
`mango_connect` and `mango_sslconnect`, and `misuse` is set by anything given back
twice. `Script` gives each example program its requests and headers. TLS is external;
`mangoPort_sslread` and `_sslwrite` repeat the plain loops. A head that was accepted
into the working buffer is a sequence of its parts with their sizes.

Widths hang on one constant: `Hex`, the base of a hexadecimal digit. A byte is two
digits, a 16-bit length four, the clock and sizes eight. With `Hex = 16` these are
the code's; the run uses 4, so that all limits and the clock's wrap are in reach
and the frame's three length forms keep their order.

### FileApi, SpiffsFiles

An object is its header (name, live or marked for deletion) and its data; pages
are below this model. `fs` holds objects, descriptors, cache pages and the work
buffer in one record, so that C functions become operators from `fs` to the set of
outcomes `[fs, ok]` and an API call is an existential choice of an outcome.
Pages of data and index are below this model, but for two things that show: a seek to
the end of a file looks for an index page that is not there when the file ends where
one begins (`IxStarts`), and on a full flash an append stops after any part of its
data, with the header's size behind what the descriptor already counts.

Two constants describe the surroundings. `MayFill`: any write to flash may fail because
the flash is full, an append also half-way (`ObjectAppend`). `Careful`: callers keep to
three rules that the repository's own callers keep trivially (they use one descriptor at
a time): do not remove or truncate a file that another descriptor has a cached write to,
do not truncate an empty file, do not open a file with and without `SPIFFS_DIRECT` at
once. The rules are not written anywhere in the code; section 5 says what happens
without them.

A power cut takes place between two calls: the cache is lost, the objects are
kept. A cut inside a call needs pages (`SpiffsPages`).

### SpiffsNucleus to SpiffsPages

A routine of the code is an operator from a file system record to a file system
record. Every write to the flash appends the flash as it is then to `log`, so a
power cut before any write of a call is a choice of an element of `log`; after the
cut come `SPIFFS_mount` and `SPIFFS_check`. A write is a bitwise AND with what the
page holds. Pages carry header flags, object id, span index, and an index, a name
and size, or data; a block is one lookup page and `Entries` pages. Descriptors
write through (the cache is `SpiffsFiles`'s). `lub` is `fs->lu_work`, the one buffer of
lookup entries: every search leaves the block it ended in there, the scans of the
collector and of the check go on with what it holds, and read their block again only
where the code does (`Reload`, `Reloading`). Loops of the check that restart after
each repair are bounded by `MaxRestarts`, and reaching the bound is the result
`ENDLESS`; a decision on locals that are uninitialised (an index page of which lookup
and page name different objects, one of which has no data: `OtherIndex`) is the result
`UNDECIDED`; `CheckMends` says, among other things, that neither happens.

The model is one session from a formatted flash to the cut. Its callers close a
descriptor whose write failed and call `SPIFFS_gc_quick` with 0 only (`QuickFree`);
section 5 says why.

### JsonText, CJson, JsonLists

`h.it` are the items with their pointers; an allocation fails when `Mem` blocks are in
use, so every call runs out of memory at every place. Parser and printers work on
tokens; a string token is the bytes that `print_string_ptr` writes or that `Spelling`
gives (escapes, surrogate pairs) and what it means is what `parse_string` makes of them,
its two passes apart: the first finds the closing quote and the size of the block, the
second unescapes and may step over that quote (`Close`, section 5). Numbers are three
with their texts; "flt" is one that `sprintf` rounds. The printers are modelled by what
they write and by the sizes they add up before. The application keeps to what `cJSON.h`
asks for; section 5 lists what it asks silently.

### XmlHeap, XmlText, TinyXml

A document is an array of chunks with the pointers of `XMLNode`, and the counters of the
four pools that the debug build compares. A call that goes through a null pointer ends
the program (`ok` of the document is FALSE and no call follows). Texts are sequences of
tokens typed piece by piece, so the parser meets tags, attributes, text, white space,
comments, declarations, CDATA and the byte-order mark in every order, closed or not.
`XmlChars` has the bytes: `GetStr` decodes a text in the buffer it reads, `PrintString`
encodes it. `CharactersReturn`, part of `SavedIsLoaded`, tries every string of four of
seven bytes, code points around each UTF-8 length and broken references. Both
white-space modes and both printer modes are there. The edits use `EditTexts` and the
empty document.

## 3. The runs

| run | instance | states | what holds, or what fails |
|---|---|---|---|
| `fsm_events` | a task of 2 states and one of 1, 2 slots, 1 user event, interrupts from before start-up on, masked | 51 k | `TypeOK`, `QueueCoherent`, `OwnState`, `EntryFirst`, `FifoMailboxes` (refinement), `EveryQueueServed` (liveness) |
| `fsm_timers` | 1 task, 2 timers, 2 slots, hook, interrupts, unmasked | 2.5 M | `HookAsked`, `PeriodicStaysArmed` |
| `mango_http` | 2 requests, 3 calls, buffer of 5 tokens, 12 replies | 331 k | `EnsuresHold`, `InStep`, `ArgsMatch`, `AnswerComplete`, `WaitsEnd` (liveness) |
| `mango_ws` | 2 requests with interim responses, upgrade, then up to 3 of 11 frames, buffer of 4 tokens | 1.36 M | `EnsuresHold`, `InStep`, `MessagesInOrder` |
| `mango_apps` | 9 programs, 3 buffer sizes, 5 credentials, 7 payloads, 5 sizes, calls that begin at 0 or just before the wrap | 109 k | `Released`, `HeadComplete`, `SizesUnderstood`, `FramesWhole`, `GivesUpOnTime` (action property) |
| `mango_hang` | one program | | `CallsReturn` fails (liveness) |
| `spiffs_api` | 2 names, 2 files, 2 descriptors, 4 cache pages of 2 cells, length 3, an index page that begins at 2, reads of 2, flash never full | 100 k | `ImplementsFileApi` (refinement) |
| `spiffs_full` | the same, reads of 1 and 3, flash may be full | 71 k | `FdCacheOwned`, `OnePagePerFile`, `ReadPagesLeft`, `NoSizeBehind` |
| `spiffs_pages` | 4 blocks of 3 pages, 2 names, 2 values, files of up to 2 data pages, 2 descriptors, 4 calls, then a cut | 96 k | `Counted`, `NoPageLeaked`, `DescriptorsFollow`, `ListingComplete`, `CheckMends`, `ImplementsObjectStore` (refinement) |
| `spiffs_cut` | the same, 1 descriptor, 3 calls | | `OneCutKeepsFiles` fails |
| `cjson_lists` | 4 items, 7 blocks, 2 names, 7 texts, 5 calls | 73 k | `NothingLost`, `PrintedParses`, `PrintersFit`, `ImplementsLists` (refinement) |
| `xml_docs` | 9 chunks, texts of 4 of 16 pieces, 3 edited documents, 4 calls | 161 k | `TreeSound`, `PoolsTracked`, `SavedIsLoaded`, `MovesLand` (action property) |

Why the bounds are enough.

* Two tasks are needed for anything shared to go astray, two slots for a ring to
  wrap and to be full with something behind, two timers for a hole before an
  existing one. One user event beside ENTRY makes the order in a queue visible. The
  proofs (section 4) take over for larger numbers.
* Two requests let the answer to the first arrive in the second; a buffer of five
  tokens is smaller than the complete chunked replies, so that the processors are
  cut at every place; a request line of six tokens does not fit.
* The three working buffers of `mango_apps` hold no line, a line and some headers,
  and everything; the payloads lie on both sides of each length form and of the
  16-bit length of a write; the sizes on both sides of a word; the credentials have
  all three base64 tails, and one more byte than the code accepts.
* Two descriptors are needed for one to be stale, two files for one to be hit by
  the other's data; a cache page of two cells distinguishes a small write (one
  cell) from a big one (two); length three lets a write start in, span and lie
  behind a page. Four cache pages are the code's minimum for two descriptors
  (`SizesAssumption`).
* With one index entry per index page a file of two data pages already has a header
  and an index page of its own, so every routine that walks from one to the next
  does. Twelve pages fill up within four calls, and the collector runs inside them,
  with free and deleted pages in every block. Larger sessions without a cut (nine
  calls with one descriptor, six with two) were explored as well.
* Four items are a list of three, so that head, middle and end differ, or two levels;
  seven blocks are fewer than four items with their strings. `StringsReturn` takes
  every string of up to four of nine bytes and every text of three of ten escapes.
* Four pieces of text make every pair of nested or adjacent constructs, closed or not.

Deadlock is checked in `fsm_events`, `spiffs_api` and `spiffs_full`. It is
off where the system may stop: a hooked kernel sleeps when nobody asks for it, a client
and a program end, and the bounded sessions (pages, cJSON, tinyxml2) end with their last
call.

Symmetry: `fsm_timers` permutes the user events, which the kernel copies and compares;
the runs with a liveness property use none. `spiffs_api` and `spiffs_full` permute names
and object ids, which the specification only compares. The view of `MCSpiffsFiles`
leaves out the returned value (nothing reads it) and the work buffer (only the
truncation of an empty file reads it, which careful callers do not do), and shows a cache
page by what it holds, since pages differ in nothing but their index; the properties
checked with it look at none of these, except the refinement, which is a property of
steps and is evaluated on every step.

Fairness. `Fsm`: the main loop goes on, handlers return (weak fairness of the steps of a
call), and it starts `os_dispatch` again and again: strong fairness, because ticks and
start-up disable `DispatchBegin` now and then, and a main loop `for (;;) {
os_dispatch(); ... }` reaches it all the same. Interrupts are not fair. `MangoSM`: a
call that has been made runs on (weak fairness of the client) and time passes (`Tick`).
The server and the application are not fair; a server of this model sends finitely much,
so `WaitsEnd` is about one that stops, at any place. One that trickles for ever keeps
the call, since each new piece restarts the timeout (section 5). `MangoApps`: the
program goes on, a system call that can return does (select with its time-out included)
and the clock ticks; the peer is not fair, it may stall for ever.

## 4. The proofs

`FsmProofs` proves seven theorems for any number of tasks, queue slots (up to 255),
timers, events and states, from `FsmAssumption` alone:

* `TypeCorrect`: `Spec => []TypeOK`, whatever interrupts do, with or without
  working critical sections. `TypeOK` is split into `StoreOK` (data) and `CursorOK`
  (program counter and loop index), because the loop index bounds are inductive on
  their own and the data's need them.
* `QueuesCoherent`: if `~Torn` (interrupts do not post, or are masked),
  `[]QueueCoherent`. Inductive: `RingInv`, which adds that no post is half done,
  and that the queue `os_dispatch` is about to take from is not empty (it tested `used`
  one step earlier, and posts only add).
  The heart is two lemmas on one ring, `EnqueueCoherent` and `TakeCoherent`.
* `StatesOwned`: `[]OwnState`. Inductive: `TranInv`: a transition is pending only
  while a handler runs, and the state asked for belongs to the task whose turn it
  is. It needs nothing of the queues, so it holds even when they are torn.
* `EntryComesFirst`: if `~Torn`, `[]EntryFirst`: a handler gets an event other than ENTRY
  only when its state has had ENTRY, or ENTRY is still queued behind events posted
  before `os_init_tasks` came to the task, or these had filled the queue and it was
  refused. Inductive: `EntryInv` over the two above, which says the same of every task
  the start-up loop has passed, whether its handler runs or not.
* `HookAlwaysAsked`: `[]HookAsked`, for torn queues too. Inductive: `HookInv`:
  `next_dispatch` is set only by a post that called the hook, and the hook is
  there once the kernel has been started.
* `PeriodicTimersStay`: the action property `PeriodicStaysArmed`. It needs only the
  types; the work is in `os_timer_set`, which looks for a timer it may reuse
  among slots that expiries and deletions have left in any order.
* `QueuesAreMailboxes`: if `~Torn`, `Spec => Mailbox!Spec`. A queue maps to the
  sequence of its `used` events from the head on, around the end of the ring.
  `ContentsEnqueue` and `ContentsTake` say
  that the two ring operations are `Append` and `Tail` on it; every other step is
  shown to stutter. `RingInv` keeps the indices in step.

`MangoProofs` proves three theorems for any size of the working buffer, any request
and chunk sizes, replies and frames, from `MangoAssumption` (types of the
constants, and that the buffer has room for something):

* `ClientTypes`: `[]TypeOK`.
* `EnsuresAlwaysHold`: `[]EnsuresHold`, that no `MANGO_ENSURE` (an endless loop in
  the firmware) is reachable.
* `ArgsAlwaysMatch`: `[]ArgsMatch`, that the untyped `dataProcessorArgs` is the one
  of the processor about to be called.

One inductive invariant, `IndInv`, carries all three, because they need each other:
`FlowInv` (which events a state can be subscribed to, and that a timeout is only
set where `mangoSM_PROCESS` waits), `StatusInv`, `BufferInv` (what is left and what
is processed fit in the buffer together, and a read is only asked for when there is
room: the clean-up of the buffer before every read is what keeps it), `PieceInv` (how
much of a chunk or frame is passed on; a frame that fits in the buffer is passed on
whole) and `PointerInv` (from the headers of an upload to the next parsed head the
pointer stays the output processor's, so an interim 100 can go back to sending).
The server's tokens are arbitrary in these proofs: nothing is assumed of the stream.

`MangoStream` and `MangoAnswer` are about the contents of the stream, for any number
of requests and frames and however it is cut into reads:

* `MessagesAlwaysInOrder`: `[]MessagesInOrder`, for any replies and frames of the
  server. The stream since the upgrade is described by slots, one for each frame sent
  and one for the next: its place among the tokens, how much data was sent before it and
  the number of its message (`Laid`). A slot depends only on the one before it, so a new
  frame adds one, and no fold over the stream is needed. Inductive: `StreamInv`. `WsInv`
  says in which slot the processor stands and that its `done`, `sz`, `op` and `frameID`
  are that slot's (`Stands`); that what was passed on is what was sent follows, but not
  alone: `HeadsInv` (behind the head of a 101 that is not read yet the stream already
  starts with frames) gives it at the moment of the upgrade, and `NotYet` (no frames
  before) gives that one when the server answers. A 101 with a body behind it is a case
  of its own: the processor refuses it (`Stuck`) and passes nothing on.
* `AnswersAlwaysComplete`: `[](WellBehaved => AnswerComplete)`, and `AlwaysInStep`,
  `[](WellBehaved => InStep)`. `WellBehaved` is the server that keeps to HTTP: every
  reply is framed as its head says (`Proper`) or has a token that fits no rule where the
  client looks for one, and a 100 is sent only to a request that expects it; a body may
  fall short of its length. TLC evaluates `Proper` of the replies of both runs
  (`ProperReplies`). Without it both fail, rightly: a final response behind an interim
  100 that was not expected is dropped (section 5). Inductive: `AnswerInv`, one part for
  each phase. `ReadyInv`: between requests nothing is under way, which is why a late
  answer is never taken for the next one's (a timeout leaves the client aborted).
  `AskedInv`: the stream is exactly what the server has sent to this request.
  `UploadInv`: while data are offered the server waits for them. `BodyInv`: what is left
  is the end of one reply's body, the processor's counters say which end (`RawAt`,
  `ChunkedAt`: the last size is `done` + 1 tokens behind), and the data before it have
  been handed over. `DoneInv`: a final status comes with the whole body.
* `FramesAlwaysInStep`: for frames `InStep` needs only that no reply has a body it did not
  announce (`~Unframed`), with interim responses too. This is what `mango_ws` checks.

`MangoAppsProofs` proves three theorems for any timeout, clock values, working
buffers, file sizes, credentials, payload lengths and behaviour of the peer, from
`WidthAssumption`, `PortAssumption` (a timeout is shorter than the clock's period)
and `PayloadAssumption`:

* `ReleasedAlways`: `[]Released`. Inductive: `HeldInv`, which says for each phase of a
  program exactly what it holds; the labels of `mango_sslconnect` and `sslcert_load`
  are then set equations.
* `TransfersPunctual`: the action property `GivesUpOnTime`: both loops go round only
  within their timeout, and a write gives up with part of its bytes only after it. It
  says nothing of a blocking `recv` or of `select` in a loop (section 5). Inductive:
  `CallInv`, that the clock is the start of the call plus its age, modulo the width of a
  word. `ElapsedIsAge` is the fact about `mangoHelper_elapsedTime`: exact while the
  clock has not wrapped, one millisecond short after it has.
* `FramesAlwaysWhole`: `[]FramesWhole`. `FrameDecodes` says that a server that follows
  RFC 6455 decodes the frame `mangoWS_frameSend` builds, for every payload of up to
  65535 bytes: type, both length forms and the key byte of every payload byte.
  Longer payloads never count as sent: `FrameInv` keeps what the port returned below
  2^16, the width of its length argument, so it cannot equal their frame's length.
  `TornInv` says that after a frame that was cut short the program can only leave.

`MangoWireProofs` proves what the two sides make of each other's bytes, with the same
assumptions, `DigitsAssumption` (`DecDigits` digits are enough for a word: 10 in the code,
the size of the code's arrays) and `AppsAssumption` (the types of files, buffers and
credentials; the file's length is a word):

* `HeadsAlwaysComplete`: `[]HeadComplete`. Inductive: `HeadInv`, which adds to it the
  types, that a header is only set while there is a request, and that the credentials
  come first.
* `SizesAlwaysUnderstood`: `[]SizesUnderstood`. Inductive: `SizeClear`, `UploadInv` (the
  server has got what was sent of the earlier buffers and of this one) and `GivenInv`: a
  program that uploads has set all the headers of its script by then, so the first name
  that begins with Content-Length is Content-Length itself.

Both rest on facts about the conversions, for every number and every sequence of bytes.
`NumeralRead`: a reader that takes digits from the left, multiplying modulo a word, gets
the number whose digits were taken by division from the right, zeros in front and blanks
behind included, when it fits a word; the two loops of the code are recursive functions
here. The credentials survive base64 of all three tails (group by group, a group being
three bytes or what is left). `Size`, the sum over a head, grows by what is put in. The
library's induction theorems cannot be used (they take an operator), so induction is
proved once for sets of numbers (`Smallest`, `Induct`): from it that a recursive function
is what its equations say (`Recursion`) and that two that agree step by step are equal
(`Agree`).

`SpiffsProofs` proves five theorems for any number of names, objects, descriptors
and cache pages, any buffers, and a flash that may or may not run full, from the
assumptions of `SpiffsFiles` (the strongest: two cache pages more than
descriptors, which only `ReadPagesAlways` uses; `flash_spiffs.h` gives 8 pages and at
most 3 descriptors):

* `TypeCorrect` and `SizesNeverBehind`: `[]TypeOK` and `[]NoSizeBehind`, for any
  callers, careful or not. Inductive: `Good`, the types together with `Opened`: an
  open descriptor has the size its object's header has (undefined or 0 if it is
  empty), or, on a flash that may fill, is ahead of it. The two are proved together:
  where a write is laid over a file is decided by the descriptor's copy of the size
  (`spiffs_hydro_write`), and `AheadKept` is the lemma that an append which a full flash
  stops leaves the copy ahead and never behind.
* `CachePagesOwned`, `OnePageAlways` (`[]FdCacheOwned`, `[]OnePagePerFile`) if
  `Careful`. Inductive: `Cached`, which adds to the two that descriptors of one file
  agree on `SPIFFS_DIRECT` (`Agree`) and that a direct file has no write page
  (`Direct`): a direct descriptor skips the flush when it is closed, and without
  these two it could leave a page behind. `Named`, that an open descriptor's object
  exists, keeps a new object from getting an id that is still in use.
* `ReadPagesAlways` (`[]ReadPagesLeft`) if `Careful`, by counting: different write
  pages belong to different files, those have different open descriptors, so there
  are at most as many write pages as descriptors.

The lemmas go from the inside out, one per function of the code
(`HydroWriteGood`, `ReleaseGood`, `WriteBackGood`, `FlushCacheGood`, ...), then one
per API call (`WriteKeeps`, ...). `SPIFFS_unmount` loops over the descriptors, a
recursive function in the model; that the recursion defines a function
(`UnmountUpToDef`) and keeps the invariant (`UnmountUpToGood`) is proved by taking
the least descriptor for which it fails.

`SpiffsRefinement` proves the refinement, from the same assumptions:

* `FileApiImplemented`: if `~MayFill` and `Careful`, `Spec => ImplementsFileApi`: every
  call of the file API, the unmount and the power cut are one step of `FileApi` or
  none. `Files` maps an object to what its readers see (`View`: the data on the flash
  with the cached write laid over it) and to what a power cut leaves (the data on the
  flash); `Handles` maps a descriptor to its object and position. Both hypotheses are
  needed, and `spiffs_api` has both: a write-back that finds the flash full drops data
  without telling the caller who wrote it, and a careless removal leaves a cached
  write to the next file with that id (section 5).

The inductive invariant is `Whole`: `Good` and `Cached` of `SpiffsProofs` and four
facts more (`Tidy`). `Live`: an object with a name is live, so a name `FileApi` does
not know is one the code does not find. `Reset`: a closed slot has no id and position
0, so closing is `FileApi`'s closing and a new descriptor starts at 0. `Placed`: a
cached write begins within the data on the flash, so laying it over leaves no gap.
`Inside`: no position lies behind the end readers see, so a write is never moved.

The argument goes from cells to calls. `OverlayTwice`, `OverlayNested` and
`OverlayParts` say when two writes are one, whichever of them was cached.
`WriteBackIs` and `FlushIs` say that a flush changes the flash and not the view;
`SmallWriteIs` and `BigWriteIs` that a write through the cache, past it, or through a
page that had to be written back first, changes the view by that write; `Only` that
no other file's data or pages change. One lemma per call (`WriteImplements`, ...)
then gives the step of `FileApi`; `UnmountImplements` needs the least descriptor whose
closing fails, as above.

Only model-checked, and why:

* liveness (`EveryQueueServed`, `WaitsEnd`, `CallsReturn`): fairness and `ENABLED`
  are out of TLAPS's reach;
* the pages of SPIFFS, cJSON and tinyxml2 (`ImplementsObjectStore` and
  `ImplementsLists` included): their modules recurse over lists, indices and texts with
  `RECURSIVE` operators, the page modules use `Bitwise`; both cost the prover its SMT
  backend.

## 5. What the work showed

Two runs end in a violation (the quotations are in `PROJECT.json`, "findings"):

1. `spiffs_cut`: a header page that is moved exists twice between two writes
   (`spiffs_nucleus.c:641`). One power cut there, and the check takes the data pages
   both headers refer to for those of two objects and deletes the file, where
   `spiffs.h:456` expects such a loss only from repeated cuts in mending or gc.
2. `mango_hang`: `mangoPort_write` repeats `select` with the set the timed-out call
   has emptied and without looking at the clock (`mangoPort.c:195`): a peer that
   takes no bytes for the length of the timeout keeps the call for ever, where line
   163 promises that it waits until the timeout expires. `CallsReturn` fails for reads
   too: one that has got bytes goes back to a blocking `recv` for the rest (`153`, `143`),
   where line 114 says that it returns on the first successful read.

Four more places are in the models as the code has them, and the properties say exactly
where they except them:

* `InsertAfterChild` tests `afterThis->_next` before the node is unlinked and follows it
  afterwards (`tinyxml2.cpp:859`): moving the last child behind the child it already
  follows dereferences a null pointer, where `tinyxml2.h:806` describes such moves.
  `MovesLand` holds for every other move.
* After `\u` the second pass of `parse_string` steps over four bytes (`cJSON.c:435`). With
  fewer before the closing quote it passes the quote that the first pass measured up to,
  goes on into the text behind it and writes more than the block was measured for.
  `PrintedParses` is about the texts without such an escape.
* The size of an empty file is undefined, and `SPIFFS_lseek` compares the position with it
  as -1 (`spiffs_hydrogen.c:472`): seeking to 0 fails. The end of a file that exactly
  fills an index page is refused too, since the next one is looked for. `spiffs.h:343`
  says that the position shall be set; `Seek` of `FileApi` allows the refusal.
* Every piece of data restarts the response timeout (`mangoSM.c:634`): a server that sends
  one byte now and then keeps the call for as long. `WaitsEnd` is about answers that are
  finite.

Seen while modelling, without a run of their own:

* fsm: `os_dispatch` takes one event per task and clears `next_dispatch` first, so
  with a hook a task with two events keeps one until somebody posts again
  (`fsm.c:64`); `os_timer_set` of an existing timer arms a second one when an earlier
  slot is free (`fsm.c:231`); with the empty critical-section macros (`fsm.h:43`) an
  interrupt between the halves of `used++` leaves a queue incoherent; `timer_pool` is
  zero (task 0) until `os_init_tasks`; a hook registered after initialisation misses
  the posts before it; an event an interrupt posts before `os_init_tasks` comes to the
  task is handled before ENTRY, and a queue full of them loses ENTRY (`fsm.c:103`); an
  `os_stm_tran` called while EXIT or ENTRY is handled leaves
  `stm_ret_value` set, and the next task that handles an event is moved into the
  state it named.
* mango: a 100 response to a GET is reported as "continue with the data" in a state that
  refuses data (`mangoSM.c:569`); a WebSocket frame without payload is handled only when
  another byte arrives (`mangoDP.c:435`); `wsFrameSend` and `wsClose` that fail leave
  ABORTED and return `MANGO_OK` (`mangoSM.c:964`, `1003`); the check for a short upload
  can never fire (`mangoDP.c:273`); a 204 or 304 with a Content-Length waits for a body
  (`mangoSM.c:453` against the comment at `524`); a head the peer does not accept is
  retried for ever (`mangoSM.c:262`); a final response read together with an interim 100
  is dropped (`mangoSM.c:724`); surplus bytes after a body keep it from completing
  (`mangoDP.c:60`); a body that ends with the connection is dropped (`mangoSM.c:565`); a
  chunk-size line of 256 bytes or more wraps an 8-bit length (`mangoDP.c:116`); callbacks
  that call the API meet `MANGO_ENSURE` (`mangoSM.c:445`).
* mango port: an EOF looks like a timeout (`mangoPort.c:112`); a `select` that fails
  makes a read return 0, like one without data, and a write select again; the elapsed
  time is one millisecond short across the wrap (`mangoHelper.c:325`); a header look-up
  gives up at a header whose name only begins with the one it looks for; a numeral of
  ten digits may exceed a word; `mangoWS_frameSend` returns 0, that is `MANGO_OK`, when
  memory is short, ignores what becomes of a pong or a close frame, sends on the plain
  socket even when the client is secure, and cannot send a payload of 65528 bytes or
  more, since its length is 16 bits wide; `d2i_X509` moves `cacrt`, so that
  `sslcert_free` frees another pointer than was allocated.
* spiffs files: a file removed while another descriptor has a cached write to it leaves
  the write behind for the next file with that id (`spiffs_nucleus.c:817`);
  `SPIFFS_TRUNC` of an empty file writes whatever header the work buffer holds
  (`spiffs_nucleus.c:1578`); a write-back that fails drops the cached data and
  `SPIFFS_read`, `lseek` and `close` do not report it (`spiffs_hydrogen.c:641`; this is
  why `spiffs_api` keeps the flash from filling); a flush through a `SPIFFS_DIRECT`
  descriptor skips a write that another descriptor has in the cache; a big write behind
  a cached one is done twice (`432`, `440`); error returns keep the lock (`386`, `417`,
  `432`, `434`, `441`, `457`), which is empty here; an append that a full flash stops
  has already moved the descriptor's size, so the descriptor is ahead of the file until
  its next successful modification (`spiffs_nucleus.c:1074`; `NoSizeBehind` allows it),
  and an append through it may fail for an index that is not there;
  `platform_spiffs_exit` leaves freed pointers that the next `platform_spiffs_init`
  frees again (`flash_spiffs.c:149`).
* spiffs pages: `SPIFFS_gc_quick` with a limit above 0 may erase the block of the free
  cursor and count it twice; a write that fails leaves the descriptor's size ahead of
  the header's, which the callers of this model meet by closing it; calls after a
  remount can fail for lack of room after they have deleted data; `SPIFFS_check` drops
  the results of its scans, and its repairs need pages, so it fails on a nearly full
  flash, and may collect the block it is mending; a second header of an empty file
  survives the check; a listing misses a header in the last entry of a block right
  behind another header (`ListingComplete` allows that one); a repair that searches and
  does not ask for a reload (`spiffs_check.c:230`, `330`) leaves another block's lookup
  in the buffer the scan goes on with.
* cJSON: `AddItemToObject` frees the name of an item that has a constant one;
  `ReplaceItemInObject` leaks a name the new item has; `Duplicate` copies
  `cJSON_StringIsConst`, so that the copied name is never freed; the `Create...Array`
  calls and the printers do not expect a failed allocation of an item or a name;
  `Minify` reads past the end of an unterminated string or comment (`cJSON.c:1835`,
  `1846`).
* tinyxml2: white space in mixed content is not kept by the indented printer
  (`tinyxml2.cpp:2198` against `readme.md:120`); a failed `LoadFile` does not empty the
  pools: the `Clear` that follows skips its check because of the error
  (`tinyxml2.cpp:1788`, `1805`), and the one after it meets the assertion; inserting a
  node behind itself breaks the list (`TinyXml` leaves that to the caller); a stray end
  tag at document level ends the parse without an error, and an end tag that closes
  itself counts as an element; an ampersand that begins no entity, behind one that was
  decoded, leaves a stale byte in its place (`tinyxml2.cpp:327`); `&#;` and `&#x;` end
  the text with a NUL.

## 6. What is not modelled

* The frame ring and its cache (`fb_io.h`, `my_cache.c`): DMA and camera driver are not
  in the repository, so their order of steps would have to be invented.
* The JPEG encoder and colour converters: arithmetic on pixels, where a model would be
  a transliteration. minilzo: an unchanged third-party compressor, likewise. crc: two
  pure functions a test compares.
* The shell, `mkspiffs`, the Python server, test data: callers of what is modelled, or
  pure I/O. Of the examples, `ssl_cs.c`, which uses OpenSSL without mango.
* Inside modelled parts: SPIFFS's read cache (it only shortens reads), `SPIFFS_info` and
  the visualisation; several sessions on one flash at page level; mango's TLS library;
  cJSON's hooks and texts that end inside a string; tinyxml2's look-up, visitors and
  number conversions, and character references of more than seven digits.

## 7. The plan

1. *Event kernel*: `Fsm`, `FsmMailbox`, `FsmProofs`. Done: all its safety properties are
   proved.
2. *mango*: done; all its safety properties are proved, state machine, port and
   programs.
3. *SPIFFS files*: done; its safety properties and the refinement of `FileApi` are
   proved.
4. *SPIFFS pages*: done, model-checked. A proof would need page operators without
   recursion and without `Bitwise`.
5. *cJSON, tinyxml2*: done for what changes state.
6. *Frame ring*: `FbRing` (producer, worker, reader), once the driver's order of steps is
   documented.
