# A TLA+ model of the vehicle logger

The program (`src/src`, C for an ATmega1284) polls a car through an ELM327
adapter on a serial line, shows values on an LCD over a two-wire bus, and has
the layers to log them to a FAT32 file on an SD card.  One thread of control
runs `main`; one interrupt, `USART1_RX_vect`, runs against it.  Nothing is
ever cancelled and almost nothing has a timeout, so the questions worth asking
are about the interrupt, about answers that come late, long or not at all,
about sectors cached in two places, and about a card that fails half way.

Paths below are relative to `src/src`.  The modules state what the code does,
including where it is wrong; a definition named `Mut_*` is not part of the
model, it is a plausible bug kept beside the definition it would spoil.

## 1. The parts of the program

| Part | State | Operations | Talks to | Hard because |
|---|---|---|---|---|
| Receive FIFO (`fifo.c`, handler in `main.c:215`) | `f_buf`, `f_head`, `f_tail`, `f_status` | `initialize_fifo`, `fifo_write_byte`, `fifo_read_byte`, `fifo_writen`, `fifo_readn` | written by the interrupt handler, read by `elm_read` | no lock: the handler runs between any two accesses of a read |
| ELM327 link (`elm.c`) | the answer buffer; nothing between commands | `elm_command` = `elm_write` + `elm_read` | FIFO, UART, the device | answers are known only by their prompt; no timeout, no discarding |
| Byte layer (`io.c`) | one sector buffer for reading, one for writing, with 16 bit sector numbers | `io_read_nbytes`, `io_write_nbytes`, two flushes | `sd_get_sector`, `sd_put_sector`; used by `fat.c` | the buffers are not coherent; each half of a sector change may fail; power cuts |
| SD card driver (`sd.c`, `spi.c`) | `sd_ctx`, the chip select line | `initialize_sd`, `sd_get_sector`, `sd_put_sector` | the card over SPI | protocol with bounded and unbounded waits; chip select on every way out |
| FAT32 layer (`fat.c`, `list.c`) | volume geometry, cached root directory, lists of clusters | `initialize_fat32`, `fat32_creat_file`, `fat32_write_file_nbytes` | `io.c` | cached directory not updated, order of flushes, ignored results |
| OBD layer (`obd.c`) | table of commands, list of the supported ones | `initialize_obd`, `obd_command`, `obd_handle_*` | `elm_command` | text to bytes, answers of unexpected shape, bytes never set |
| Two-wire driver (`i2c.c`) | the bus | `i2c_io` | the LCD | ways out that leave the bus taken |
| Main program (`main.c`) | - | start-up, then the cycle of commands | all of them | ignores the failures of the parts it starts |
| UART, standard output, pins, delays, helpers | registers | - | hardware | register writes only |

What makes each of them correct:

* FIFO: every byte the handler stored is handed out once and in order; the
  reader never gets a slot that holds nothing; a byte that was stored is
  eventually readable; characters are refused only when there is no room.
* Link: an answer belongs to the command that was sent, is whole, and the wait
  for it ends.
* Byte layer: bytes put are at their places for the next reader of the store
  and survive the failure of a later step; the buffers always belong to the
  sector they claim.
* SD driver: the card is deselected on every way out, commands go out only to
  a selected and idle card, the type recorded is the type of the card.
* FAT32: no two files share a cluster, the size in the directory never counts
  bytes that are not in the file, chains end.
* OBD: the set of commands polled is the one the car announced; a value is
  decoded from the bytes of the answer and no others.
* Two-wire: a transfer that ends leaves the bus free, and its result tells
  whether it was done.
* Main program: every command comes round, whatever the car refuses; a number
  on the display is the one its place is for.

`PROJECT.json` lists the components with their status, and under `hazards`
each place in the code where one of these can go wrong.

## 2. The modules

### `RxFifo` refines `ByteQueue`

| Code | Model |
|---|---|
| `struct fifo_t` | `f_buf`, `f_head`, `f_tail`, `f_status` |
| the USART's receive buffer, its overrun flag | `rx`, `overrun` (external) |
| program counter inside `fifo_read_byte`, `*byte` | `rpc`, `ch` |
| `ISR(USART1_RX_vect)` with `fifo_write_byte` | `Isr`, one step: it runs to completion |
| `initialize_fifo` | `InitializeFifo`; before it `rpc = "boot"`, with the interrupt already enabled (`main.c:87`, `:91`) and the FIFO cleared memory, whose status 0 is `FIFO_FULL` |
| `fifo_read_byte` | `ReadTest` .. `ReadReturn`, one step per access to the shared structure |

`ByteQueue` is the promise: a bounded queue.  The refinement mapping is
`Pending`, the bytes from the slot of the next unread byte up to `f_head`.
Equal indices mean empty or full, and `f_status` tells which - except before
`initialize_fifo` and from the moment the byte is taken to the end of the
call; `Count` spells that out.

What the model assumes of the machine:

* `Arrive` finds a character in the USART only while the FIFO is `FULL`: the
  handler takes microseconds, a character 260 of them.
* The handler re-enters for ever while the FIFO is `FULL`, since it does not
  read `UDR1` then; each entry changes nothing, and the processor executes an
  instruction of `main` between two of them, so these entries are stutters.
* At 38400 baud and 7.3728 MHz a character takes 1920 cycles and
  `fifo_read_byte` some tens, so at most one byte is stored during one call
  (`Burst <= 1`, an assumption of the module).  No other interrupt is enabled
  that could stretch the call.
* The steps of a read are those of the source text.  An optimising build joins
  `f_tail++` and the wrap into one store and may load `f_head` early: joining
  removes states in which the handler can run, and an early load of `f_head`
  gives the outcome of a handler that runs after the comparison.
* How fast `main` polls is left open: it may be arbitrarily slow between calls.

### `ElmLink` extends `RxFifo`

| Code | Model |
|---|---|
| where `main` is in `elm_command` | `mpc`: send, poll, call, done, stuck |
| the list of commands, and the current one | `NCmds`, `cmd` |
| `buf` of `elm_read` | `buf` |
| the ELM327 | `dev`: the bytes still to send; it answers a command with a member of `Answers`, and is silent otherwise (external) |
| `elm_write` and the `memset` | `ElmWrite` |
| `if (f_status == FIFO_EMPTY) continue` | `ElmPoll` guarded by `DataReady` |
| `fifo_read_byte` | `ElmCall`, the steps of `RxFifo` |
| `*cur = ch`, `len--`, the test for `>` | `ElmStore`, `Leaves`, `ResponseComplete` |
| return to the caller, next command | `ElmReturn` |

A byte is a pair of the command it answers and its kind (data, prompt, NUL), so
that a property can ask whose answer was read.  `strstr` stops at a NUL, and so
does `ResponseComplete`; the answers checked hold no NUL.  The index of the
commands wraps: the list in `main` is cycled for ever, and `initialize_elm` is
three more such commands.  `elm.c` sees the FIFO through a pointer that is not
`volatile`, so the polling loop may be compiled to a single load; with
`PollMayStick` the model allows a poll that found `EMPTY` never to look again
(`ElmPollSticks`), and does not require it.  `fifo_read_byte` tests `f_status`
a second time; `PollHolds` is why the model needs no path for that test to
fail.

### `IOCache` refines `WriteBackStore`

| Code | Model |
|---|---|
| the sectors of the card | `card` (external) |
| `struct io_ctx` | `input_sector_addr`, `input_sector_buf`, `output_sector_addr`, `output_sector_buf`; the two byte addresses are written and never read, and left out |
| a call under way, its result | `pc`, `op`, `pos`, `left`, `moved`, `ret` |
| `initialize_io`, and `main` going on when it failed | `PowerOn` |
| loss of power or reset between any two steps | `PowerCut` |
| `io_read_nbytes`, `io_write_nbytes` | `Call`, then one step per byte |
| `io_get_byte` | `GetHit`, `GetMiss`, `GetFails` |
| `io_put_byte` | `PutHit`, `FlushFails`, `FetchFails`, `PutMiss` |
| the flushes | `FlushWrite`, `FlushRead` |

A byte offset is a pair `<<sector, offset>>`, as `io.c` splits it, and
`Kept` is the assignment of a 32 bit sector number to the 16 bit field
(`include/io.h`), with `ADDR_SPAN` for 2^16.  A failed `sd_put_sector` may have
changed the card or not; a failed `sd_get_sector` fails before the first byte
and leaves the buffer as it was.  `io_put_byte` has no `return` after a
successful put: the result is any value, so `Stored` continues or leaves
(`io_write_nbytes` tests for a negative one).  `moved` holds the bytes of the
last call with their places and exists for the properties.

`WriteBackStore` has two variables, the contents and the card.  Putting to one
sector writes back every other one, `Sync` writes back all, `PowerLoss` takes
the contents from the card.  The mapping is `Contents`: the card with the output
buffer laid over its sector.  When `initialize_io` fails, the output buffer is
cleared memory that claims to be sector 0, so the promise is made for `Trusted`,
the sectors other than 0, if that may happen.

### `SdDriver`

| Code | Model |
|---|---|
| `struct sd_ctx`, the chip select pin | `sd_type`, `sd_status`, `cs` |
| where the driver is; the loops it is in | `pc`, `then` (where a busy wait returns to), `trials`, `tries` |
| the command `sd_command` sends, what it returns | `cmd`, `r1` |
| `sd_command` | `Send`, then one `Reply` per byte read |
| `while (sd_is_busy())` | `BusyWait`, one step per byte read |
| `initialize_sd`, `sd_acommand` | `InitializeSd`, the actions named `*Answered`, `AcommandRetry`, `CheckType` |
| `sd_get_sector`, `sd_init_read_sector` | `CallGet`, `StartRead`, `AwaitToken`, `GetBytes`, `Close` |
| `sd_put_sector`, `sd_init_put_sector`, `sd_put_bytes` | `CallPut`, `WriteBlockAnswered`, `PutBytes`, `Ack`, `Close` |
| the card and the bus | `kind`, `card`, `cstate`, `initLeft`, `app`, `out`, `recv`, `busy` (external) |
| a reset of the processor | `Reset`: the driver starts again, the card keeps its state |

Bytes are numbers, and the tests on them are the tests of the code, so a byte of
a checksum, of an answer or of data can be mistaken for another wherever the
code lets it.  What the card sends next is the sequence `out`; `GAP` in it
stands for any number of 0xFF, possibly for ever, so an answer may come at any
byte of a loop that looks for it, also at the last one, which `sd_command` reads
and throws away.  Two things are taken from how the card is specified: one that
is deselected gives up what it was sending or waiting for (`Abort`), and the data
response follows the block at once or never.  A `rough` behaviour is one where
the card is late, a command or a response is garbled or lost, or the processor
is reset; the others have a card that answers in time.  The branch for version 1
cards in `initialize_sd` is not in the model: the loop before it
(`sd.c:269`) ends only with `R1_IDLE_STATE`, so a version 1 card is never
started.  `EnabledIsReady` (only a card of the two other types is ever enabled)
and the exception in `Starts` say so.

`IOCache` uses of this module that a call succeeds, with the block stored or
returned (`PutIsStored`, `GetIsBlock`), or fails, a read before its first byte
(`AwaitToken`) and a write after it happened or not (`OnlyThatBlock`).  That the
sector addressed is the one of that number is so on high capacity cards only,
which is the kind `IOCache` takes the card to be.

### `I2c`

| Code | Model |
|---|---|
| where `i2c_io` is | `ipc`: idle, or the condition or byte it waits for the interface to finish |
| what is left of `ap` and `wp`, what is in `rp` | `out` against `acked`; `rn`, `got` |
| the interface and the bus | `bus`: free, ours or in error; `acked` (external) |
| `i2c_io` up to the START condition | `I2cIo` |
| each `if (status != ...)` | one action per condition and byte; a NAK goes to `Stop`, any other status returns as it is |
| a lost arbitration, a misplaced START or STOP | `Disturbed` |

Addresses are left out: a slave acknowledges or not, and may stop doing so at
any byte.  The status of a bus error is 0, which is also that of success, and
`i2c_io` returns it as it is (`i2c.c:57`); `ResultIsOutcome` therefore leaves a
bus in error out.

### `Obd`, and `Logger` over `I2c` and `Obd`

`Obd` is `obd.c` without its state, as operators: the table (`obd_cmds`),
`linked_list` for `obd_set_supported_ops` and the loop of `initialize_obd` (the
numbers of the commands `InOrder`, reversed since each is pushed to the head),
`obd_resp` and `obd_fmt_resp` for the search of the data in an answer,
`obd_command`, and `handle_data` for the handlers.  `Agrees` is the reference
they are compared with, the comments of `obd.h:44-67`.  An answer is a sequence
of tokens, two hex digits being one; a displayed number is kept in hundredths.
An `int` has 16 bits on this machine: `Sums` is what `256 * A + B` may be,
which from `A = 128` on is the wrapped sum or the full one, the overflow being
undefined and the quotient taken of either.

| Code | Model |
|---|---|
| `obd.linked_list`, `ptr` | `list`, `ptr` |
| `buf[13]` of `main` | `buf`, the four bytes of it that anybody looks at |
| `initialize_obd` with its `dat`, never set | `Boot`; `Garbage` is what was on the stack |
| the first message to the display, the one of each cycle | `Setup`, `Home` |
| `obd_command` and the handler of a command | `Command`, `Skip` for a command that has none |
| `continue` | `Continue` |
| the command to the display and the text | `PlaceCursor`, `ShowText`, each a call of `i2c_io` whose steps are those of `I2c` (`Transfer`) |
| the display | `cursor` (external), where it puts what it is sent next; `Display` |
| what `i2c_io` returned for the command before the text | `placed` (ghost): it was reported as sent |

The car answers as announced, with a second control unit behind a first one,
with an answer that is cut or a refusal, or with the late answer to another PID
(`Answers`).  That an answer comes at all is the subject of `ElmLink`.  `said`
and `announced` remember what was said, for the properties.

Of the display the model assumes that it obeys a command when the last byte of it
has arrived and forgets one that is cut off, that a text goes where the cursor is,
and that the cursor moves on in the order of the addresses.  It is not reset with
the program, so its cursor may be anywhere at the start (`Cursors`).  A text of
twenty characters is sent in two halves.  `main` sends it whatever became of the
command to place the cursor (`main.c:174-176`); when that has failed, the text is
put where the last one ended, in a row that belongs to another number.  The model
does so, and `TextInItsRow` says how far it goes: a text whose own command was
reported as sent is in its row, whatever failed before, and in no other PID's.

### `Fat32` extends `IOCache`

The calls of `io.c` are the actions of `IOCache`, with their failures and with
power cuts between any two steps; nothing is abstracted to the store.  A cell of
the card is what `fat.c` reads or writes with one call: the partition entry, the
boot sector, an entry of the FAT, a directory entry, a byte of a file.  (A
directory entry of 32 bytes lies in one sector, so that a call for one fails
or succeeds as a whole.)

| Code | Model |
|---|---|
| `struct fat32_ctx` | `geo`, and `cache` for `root_dir_entries` |
| `struct fat32_file` of the caller | `file`; `nbytes` while a write is under way |
| `initialize_fat32` | `Mount`, `ReadPartition`, `ReadBootSector`, then `ReadEntry` and `ReadFat` for `fat32_cache_root_dir`, `fat32_open_file` and `fat32_get_fat` |
| the record on the stack of `fat32_cache_root_dir` | `local`, which keeps the entry before if a walk fails |
| `fat32_creat_file` | `Creat`: `OpenCached` or `CreateNew` |
| `fat32_write_file_nbytes`, `fat32_update_file_size` | `Write`, `FlushInput`, `FlushOutput`, `ReadSize`, `WriteSize`, `Finish` |
| `main` starting the parts one after the other | `Boot` |
| loss of power | `Cut` |

The lines of `main.c` that log (129-134, 168, 206) are commented out; the model
calls the layer as they do, any number of times.  There is one restriction, `Ready`:
they are called once a volume was mounted.  `main` would not ask, it ignores what
`initialize_fat32` returns (`main.c:114-117`), and a program that logs without a
volume writes to sectors computed from a context that was never set.  That is not
modelled; every property about the volume would have to except it.
What the code does and a reader may not expect, all of it in the model:

* `initialize_fat32` returns success without a volume if the SD card is disabled
  (`fat.c:361`), and after a read error while it caches the directory
  (`fat.c:309`); then it may not know of entries that are in use, and the next
  file takes the slot of one.  `EntriesKept` therefore speaks of mounts without
  a read error (`sound`), and of the sixteen entries that are cached
  (`fat.c:301`): in a longer directory the seventeenth is overwritten.
* A file found in the directory is not written at its end, nor at its first
  cluster, but from the beginning of the cluster two behind it (`fat.c:267`,
  `:681`), while its size goes on growing: it counts bytes that are not in the
  file.  `SizeExact` speaks of such files too, of the number alone;
  `SizeBehindData`, that the bytes counted are in the cluster the entry names,
  is so of files created since power-on only.
* A file created is not put into the cached directory (`fat.c:651`): a second
  creation before the next start gets the same slot and the same cluster, and
  cuts the first file to nothing.  `EntriesKept` allows it for entries the
  program itself created (`made`).
* The walk along a chain begins two entries too far (`fat.c:257`); the
  `ClusterIsDedicated` run shows what follows.  That cluster 2, the root
  directory, is not handed out is owed to the volume label, whose cluster 0
  becomes 2.
* A cyclic chain is followed for ever (`fat.c:201`); `MountEnds` says that this
  is the only way for a mount not to end.
* The parts of long names are skipped, and their slots count as free.
* A file that outgrows its cluster goes on into the next one on the card
  (`fat.c:722`).  The files of the runs are shorter.

The volumes are any that meet `VolumesAssumption`: everything is on the card and
the root directory at cluster 2, as `fat.c:448` says; its first entry is the volume
label, which has no cluster; it has no name twice and nothing behind the entry
that ends it; and it has more room - entries not in use or the program's own -
than calls may fail.  The last is needed because an entry that could not be read
is written back as whatever is on the stack, and so a failure can cost a slot.
`SizeBehindData` asks for an entry in use: a deleted entry may still hold the name.

## 3. The runs

| Run | Shows | Bounds |
|---|---|---|
| `rxfifo` | the queue of `ByteQueue`, no stale slot offered, at most `Burst` bytes hidden, out of `FULL` only by draining and always eventually, a backlog is read | `FIFO_SIZE` 4, two byte values, three characters in the USART |
| `rxfifo_hidden` | **violated**: a read is refused only when nothing is there | `FIFO_SIZE` 2 or more shows it |
| `elmlink` | each command gets its own whole answer, the line is quiet when one is sent, nothing is lost, the `'\0'` stays inside, `elm_read` ends but for a stranded byte or a stuck poll | FIFO of 4, three commands, answers of 1, 2 and 4 bytes, buffer of 5 |
| `elmlink_long` | **violated**: what a command returns was sent in answer to it | an answer one longer than the buffer |
| `iocache` | the store of `WriteBackStore`, bytes put stay, staleness only as stated | 3 sectors of 2 bytes, 2 byte values, calls of up to 2 bytes |
| `iocache_wholecard` | **violated**: bytes put stay | 3 sectors, numbers that tell 2 apart |
| `sddriver` | blocks returned and stored are those addressed, nothing else on the card changes, the card is idle when a call returns, cards are started and recognised, deselected on the ways out named, every call returns | each type of card and none, 2 sectors of 2 bytes, loops of 3 trials, 3 token bytes and 2 response bytes |
| `sddriver_address` | **violated**: the block is at the sector of that number | standard capacity card, 3 sectors of 2 bytes |
| `logger` | the commands polled are those announced, a complete answer is shown as documented whatever the array held, a text is in the row of its own PID whatever transfers failed but its own command to place the cursor, the bus is released, results tell the outcome, the cycle comes round for ever | four announcements, data bytes 7 and 255, one value of garbage |
| `obd_documented` | **violated**: every complete answer is shown as documented | the oxygen sensors, data byte 100 |
| `fat32` | other files' entries are kept, the size is exact, for a file created since power-on counts no byte that is not in its cluster, the directory stays well formed, a mount ends | 14 sectors of 2 cells, 5 volumes, writes of up to 2 bytes to a file of up to 3, 4 cached entries, one failing call |
| `fat_clusters` | **violated**: a file that is created gets a cluster of its own | a volume with one file of another system |

Why these are enough.  The FIFO meets every case with 4 slots: empty, one byte,
full, wrapped, and a distance of `FIFO_SIZE - 2` before an interrupt, the one
its invariant turns on; the theorems below hold for every size.  In `elmlink`
the longest answer fills the FIFO, and three commands tell "of the previous
command" from "of the command before that"; the buffer is one longer than the
longest answer, which is what `obd_command`'s 64 bytes are for the usual
answers.  In `iocache` a call of two bytes crosses a sector border, three
sectors make the read buffer, the write buffer and a third one distinct, and a
sector of two bytes tells a byte put from its neighbour.  In `sddriver` the data
bytes are 0x00, which looks like a busy card or a good answer, and 0xFE, which
looks like a token; with three trials an answer can be used at once, be late and
used, or be late and thrown away, a token can be late and found or missed, and a
card may ask for another ACMD41.
In `logger` the announcements are the whole table but the four numbers on
the display, these four, the two ends of the bit mask, and nothing; the cursor of the
display begins in the first or the third row; 7 and
255 are on both sides of the bytes that make a sum overflow or a quotient be
cut.  In `fat32` the volumes have a label, a long name, a deleted entry and a
live one in orders that the caching tells apart, a walk that ends at once, walks
that run into a free entry and on from entry 0, a cyclic one, and a partition of
another type; four entries are cached, and files are created behind the last
entry and in a slot between two; two cells to a
sector put directory entries that are neighbours into one buffer and others into
two, and a write of two bytes crosses a border.  One failure at any call, with
power cuts and restarts as often as one likes, is what the properties about
failures speak of.  `MaxSize` stops the writes at three bytes, in two or three calls;
the numbers that grow with every write are the reason for that bound and for
`MaxFailures`.  No other run limits the number of steps: their state spaces
are finite and complete.

`CHECK_DEADLOCK FALSE` is set where the system may stop: the device falls silent
in `RxFifo`, the poll sticks in `ElmLink`.  The other runs are checked for
deadlock.

### Fairness

`RxFifo` assumes that a pending interrupt is served and that `main` keeps
polling: `elm_read` polls in a loop, and the interrupt is enabled throughout.
It assumes nothing of the line, which may fall silent at any time.  `ElmLink`
adds that a device that has begun an answer sends it to its end (`DevSend`);
answers that break off are members of `Answers`.  That the poll sticks is never
forced by fairness.  `IOCache` states no liveness.  `SdDriver` assumes that the
driver goes on, as a single thread does, and that a card that is programming
ends some time; calls are not forced to happen, a late answer is not forced to
come.  `Logger` has one thread whose calls all end: `elm_read` if a prompt
comes, which `ElmLink` is about, and a transfer because the interface ends every
operation with a status.  `Fat32` assumes that the program goes on while there is
power, and nothing of the power, of the card's answers or of the caller.

### What the violations say about the code

* `rxfifo_hidden`: a byte stored between the comparison of the indices and the
  store of `FIFO_EMPTY` (`fifo.c:82-83`) is in a FIFO that says it is empty.
  The next byte uncovers it; if it was the prompt there is no next byte, and
  `elm_read` waits for ever.  The window is a few cycles wide and opens only
  when the reader drains the FIFO just as a character arrives; the model says
  that it exists, not how often it is hit.
* `elmlink_long`: an answer longer than the buffer is cut, and the rest is read
  as the answer to the next command.  The trace goes as far as the second: command 0
  returns four bytes without a prompt, and command 1 returns the prompt that was left.
* `iocache_wholecard`: sectors from 65536 up (32 MB) are buffered under the
  number of a low sector and written there.
* `sddriver_address`: a card of type `SD_TYPE_2` that is not high capacity counts
  bytes.  Sector number n is sent as the address, so sector 512 is written to
  sector 1, and numbers that are not multiples of 512 are refused.
* `obd_documented`: the voltage of an oxygen sensor is the quotient of two
  integers (`obd.c:425`), so it is shown as 0.00 or 1.00.
* `fat_clusters`: the walk along the FAT begins at the first cluster plus 2
  (`fat.c:257`), the first cluster of a file is on nobody's list, and the
  file that is created next gets it.

Two things the passing runs imply.  `fifo_read_byte` never changes `FIFO_FULL` to
`FIFO_READY` (`fifo.c:82`), so a FIFO that was full once refuses characters, and
the USART loses them, until the last byte has been read (`FullUntilDrained`).
`elm_read` has no timeout (`elm.c:69`), so the ways in which it does not end had to
be named in `EndsUnlessStranded`; an answer without a prompt would be one more.

## 4. The proofs

`RxFifoProofs` holds for every `FIFO_SIZE` from 2 to 255, every alphabet, every
depth of the USART, and `Burst` 0 or 1.

The type invariant and the properties are not inductive: what `f_status` says
about the indices holds only at some steps of a read.  `IInv` adds, step by
step, what does hold:

* `RestInv` - when no read is in its critical part, `READY` means a byte is
  there and `EMPTY` means at most `Burst` are;
* `CallInv` - the status is not `EMPTY` from the test on, since the handler never
  stores `EMPTY`;
* `RoomInv` - once a byte is taken at least one slot is free unless the handler
  has filled it during this call, so the indices that are compared cannot be
  equal because the FIFO was filled.  This is where `Burst <= 1` is needed: with
  two stores in one call the FIFO fills up, the comparison finds equal indices,
  and a full FIFO is declared empty;
* `ClearInv` - when `EMPTY` is about to be stored, the only bytes in the FIFO
  came during this call.

From it follow `TypeCorrect`, `Readable`, `HiddenAtMostBurst`, `FullIsSticky`,
and `Implements`: `Isr` is `Write`, `ReadLoad` is `Read`, every other step
stutters; the lemmas `PendingAfterWrite`, `PendingAfterLoad` and
`PendingUnchanged` are the arithmetic of the ring.

`IOCacheProofs` assumes `NSectors <= ADDR_SPAN`: the card has no more sectors than
the context can number.  `iocache_wholecard` shows that the assumption is needed.
The invariant adds to the type invariant that the loop has bytes left, that the
bytes moved lie before the next one (so a later put does not overwrite an
earlier one of the same call), and that a read that has moved a byte either
still has the buffer it began with or has one it fetched itself.  From it follow
`TypeCorrect`, `PutsAreThere`, `ReadsAreFresh`, `OnlyFlushMakesStale` and
`Implements`, the refinement of `WriteBackStore` with all failures and power cuts.

`ElmLinkProofs` assumes `Fit`: every answer ends in its only prompt, holds no NUL,
and is no longer than the FIFO and than what `elm_read` is given to fill, whose
array has room for the `'\0'`.  `elmlink_long` shows what happens otherwise.
The invariant follows the bytes of the answer: what is in `buf`, the byte taken
out of the FIFO and not stored yet, what is in the FIFO (`Pending` again), in the
USART and still with the device are, joined, the answer to the current command
(`Stream`).  Each step moves a byte from one part to the next, so the order is
kept.  Nothing is lost although a FIFO that was full refuses characters:
the answer is no longer than the FIFO, and so the FIFO is full only when all of
it has arrived.  When the prompt is stored nothing can be behind it, and the line
is quiet when the next command is sent, which gives the next answer the
same start.  From it follow `ElmTypeCorrect`, `OwnAnswer`, `QuietWhenSent`,
`PollIsValid` and `LosesNothing`; `LinkUsesFifo` shows that every behaviour of
the link is one of `RxFifo`, so that the refinement of `ByteQueue` carries over.

`LoggerProofs` is about two modules. For `I2c` it holds for all messages and any
number of bytes to read. The invariant ties `acked` and `got` to the step of the
transfer: what was acknowledged is always a beginning of what is to be written,
and the whole of it before anything is read. From it follow `Typed`, `Released`
and `Outcome`. For `Logger` over it, it holds for all sets of announcements, of
data bytes and of what is on the stack (`Byte` must have the bytes and the
symbols of the texts, `ByteAssumption`). `LoggerInv` adds that the list and what
is left of it name commands of the table, none twice (`ListInv`), and about the
display (`ScreenInv`): between the
command to place the cursor and the text, that command is the one for the command
polled, and the cursor is at its place as soon as the command is complete; and
before each half of a text the cursor is where that half belongs, if the command was
reported as sent. The last part makes `TextInItsRow` inductive: a complete command
is what a report of success means while the bus is not in error
(`ResultIsOutcome`), so `placed` is never true of a cursor that another text left
behind. From it follows `PlacedTexts`. It rests on two facts about the table, for all of it:
`TableFits`, the entry of index i is for PID i (the text is chosen by the one,
the place by the other), and `PlacesDiffer`; and on the geometry of the display
(`RowIs`, `OnwardIs`).
`NoneTwice` says that no command is
in the list twice, whatever `initialize_obd` takes for an answer.

The data of the cycle have an invariant of their own (`DataInv`), over `LoggerInv`:
the list has exactly what a complete answer announced, what is left of it is its
rear, and the arrays hold bytes.  From it follow `LoggerTyped` and
`AnnouncedIsPolled`; and `Decodes`, which each step that decodes nothing keeps for
a plain reason, is proved together with it (`DataInvariance`).  What they rest on
are lemmas about the operators of `Obd`, for all their arguments:

* `InOrderIs`, `InOrderOnce` and `InOrderAll`: a finite set of numbers in order has
  each of them once.  `RankExists`, under them, looks for the least number whose
  rank is too large, so that it takes a well-founded order and no induction.
* `AnnouncedIsSupported`: the bit that `obd_set_supported_ops` tests for PID i is
  the one that `obd.h:40` gives it, in a sum of eight bits taken apart again
  (`EightBits`); `ListIs` makes the list of it.
* `CommandStart`: where an answer has m bytes of data, in front of anything, these
  are the first m bytes stored, or the answer is refused, since digits keep their
  order and every byte has two of them (`BytesStart`); a complete answer with
  nothing behind its data is not refused (`BootData`).  What the car may answer
  has its data at its first token, or its second one (`AnswersSay`).
* `Decoding`: the handler in the table prints the documented value, up to a unit of
  the last digit, for every byte a and b outside of `Deviates`; `OneSum` says where
  the sum of 16 bits is the full one.

`PrintedIsDocumented` is less than "every number shown is right": an answer to
another PID of the mode is decoded as this one's (`obd.c:497`), and `said` is
empty for it; and what `Deviates` excludes is what `obd_documented` shows to be wrong,
and the sums of `ENGINE_RPM` and `MAF_RATE` that overflow.

`SdDriverProofs` holds for all sets of cards, numbers and sizes of sectors, and
bounds of the loops.  `SInv` says which call is under way at which step, that a
card waits for a block only while a call puts one and for the sector addressed,
where it can be busy, and that the one response taken for "accepted" follows a
block that was stored.  From it follow `PutStoresBlock`, `NoOtherSector`,
`NotBusyAfter` and `OnlyWaysSelected`.  For a read, `GetInv` adds what can be on
the line while the token is looked for: the first byte that looks like one is
one, and the block is behind it, since the answer to the command, alone, is never
0xFE (`BlockAnswer`), whatever the data are; and taking bytes off the line keeps
it so (`AheadOfTail`).  From it and from `OneSector`, that an address is that of
one sector at most, follows `GetReturnsBlock`.  `TInv` adds to the type invariant
that a line never ends in a gap and where the counters are before the step
that counts; `SdTypeCorrect` needs `GetInv`, since it is only what a read found
behind the token that makes `buf` a block.

Its second part is about `initialize_sd`, and follows a start command by command.  `StartInv` says what the card can have on its line after each of them -
nothing, a refusal, or the answer, at once or late - what it has become by then,
and what the driver keeps of it.  From it follows `EnabledMeansReady`: nothing a
late or lost answer can be mistaken for makes `initialize_sd` report a card that is
still idle, or take the wrong addressing.  `GoodInv` follows the cards that answer
in time; `PunctualIsStarted` assumes `MAX_CMD_TRIALS > 1` (it is 8), because
`sd_command` does not look at the last byte it reads.

`Fat32Proofs`, `FatEntriesProofs` and `FatFilesProofs` hold for every set of volumes that meets
`VolumesAssumption`, any number of cached entries, clusters, sizes and failures.
They assume `NSectors <= ADDR_SPAN` as `IOCacheProofs` does, and `Cells`: a cell that
looks like a directory entry or an entry of the FAT has the fields of one, what the
program can write is a cell, and the program has one name for its file, as
`main.c` has.  (The cells of the `fat32` run are a finite part of such a set.)
`TypeInv` joins the invariant of `IOCacheProofs` with what is known at each step of
`fat.c`: nothing is written before the clusters, and so the volume is found where
it was by every later mount; while a volume is being mounted nothing is written at
all, and what was read is what is on the card.  From it follows `FatTypeCorrect`,
with one cached record for an entry at most.

`EntriesKept` speaks of one step, but no step shows by itself that an entry which
could not be read does no harm.  `KeepInv`, which holds while `sound` does, adds

* `DirInv` - on the card and in the buffers the directory has its label, its files
  have clusters, and its room is more than the failures still allowed.  Each entry
  that is written takes one place at most (`RoomAfter`);
* `ScanInv` - while the directory is being cached, every entry in use so far is on
  the list (`ScannedMore`, `ScannedSkip`), and so the slot taken for a new file is
  free when the scan ends (`ScanEnds`), also when it ends behind the last entry.
  Until the first file is opened the list is that of a scan that has `Ended`;
* `CacheInv` - the file has the slot and the cluster this list gives it, never the
  label's slot nor cluster 2, so that the bytes of a file never reach the directory;
* `WriteInv` - how far a write has got: either the size about to be written is read
  from the sector as it is now, or a call has failed and there is room to pay for
  it.  This is where the two flushes of `fat32_update_file_size` are needed: the
  sector of the entry is in neither buffer when the size is read.

From it follows `EntriesSafe`.

The three other properties hold while no call has failed.  `CalmInv` says that every
call has returned 0 then, so that `KeepInv` is all there and the size that is read is
the one the directory has (`Fresh`).  `WholeInv` adds that the directory is in order
on the card and in the buffers, and `Listed`: what is on the list is in use under its
name, and nothing else is in use but the program's own slot.  This is needed because
the list is never brought up to date: a second `fat32_creat_file` of a file the
program has created does not find it, takes the same slot again since the list is
the same, and writes the same name there.  From it follows `StaysWellFormed`:
the first number that is not on the list is the entry that ends the directory, or one
in front of it (`OrderlyCreat`), and a new size changes no name (`OrderlyResize`).

`SizeInv` follows the bytes.  What is seen - the card under the output buffer - has
the size that was counted, and the bytes of the write under way are at their places
as far as it has got: the next place is that of the next byte (`DataPlaceNext`), no
two bytes share one (`DataPlacesDiffer`), and none is in the cluster of the directory
(`DataStays`).  The card is always what it was or what was seen, since a sector goes
out whole, so it is enough that on the card and in what is seen the size counts only
bytes that are there (`Behind`).  A file that is created anew is the hard case: on
the card its old size is larger than the new one, and `Behind` still holds because
the bytes behind the new size are those of the same file at the same place.
`Behind` counts from the size at the opening and looks where the program writes, so
it says nothing of the bytes a file had before.  For a file that the program has
created that size is 0, since the file is not on the list, and its entry names the
cluster that is written to (`OwnFirst`): there it says that every byte that is counted
is in the file.  From it follow `SizesAreExact`, and `SizesCountWhatIsThere` for the
files created since power-on.

Only model-checked: the liveness properties (`FullIsLeft`, `BacklogIsRead`,
`EndsUnlessStranded`, `CallsEnd`, `CyclesOn`, `MountEnds`), which rest on fairness
and `ENABLED`.  Every invariant and every action property of the passing runs is a
theorem.

## 5. What is not modelled

* `uart.c` but for the reception and `uart_write_str`, `astdio.c`, and the formatting
  in `utils.c`: blocking output, one character after the other, and text.
* `pins.c`, `time.c`: register writes and delays.  `lcd.c` and `msg.c` are empty.
* `fifo_writen`, `fifo_readn`: no code calls them.  With `-funsigned-char`
  (`CMakeLists.txt:59`) the -1 they test for is 255, and they would never notice a
  failure.  `fifo_dump_mem` prints.
* `fat32_update_fat` and `fat32_update_directory_entry`, which nothing calls, the
  functions that close a file, which are empty, and the dumps; `list_free`.
* `fat.c` without a mounted volume (`Ready`, above).
* Bytes behind an array: an answer of more than 13 bytes is written behind
  `main`'s `buf` (`obd.c:583`), and what it would overwrite is not known to the
  source.
* `test/`, `tools/` and `resources/`.
