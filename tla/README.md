# A verification of bscl in TLA+

bscl is a small C library for embedded and desktop programs: containers,
framed communication, deferred work, an FTP server, parsers and thin wrappers of
the operating system.  This directory holds TLA+ models of its components, the
TLC runs that check them, and TLAPS proofs.  `PROJECT.json` maps every definition
to the lines it models.

## The system

Paths are relative to the repository; `src/*.c` and `include/*.h`.

| component | state it keeps | operations | interaction | what makes it correct |
|---|---|---|---|---|
| buffer (`bscl_buffer.h`) | memory, free-running 32-bit `wrp` and `rdp` | write, putc, copy, read, drop, clean | embedded in a packet | bounded FIFO, also when a copy is split or a counter wraps |
| packet (`bscl_packet.c`) | a buffer, `stat`, `left` | receive, receive_byte, resync, parse, write | caller's loop; `bscl_crc32`; two ends of a line | every packet sent is handed out once, in order, however it is cut; nothing false is handed out; a disturbance does not last |
| ring buffer (`bscl_ringbuffer.c`) | memory, volatile `rIndex`, `wIndex` | read, write, clear | a writing and a reading thread, no lock | the two copies never touch the same slot; bounded FIFO |
| tasklet (`bscl_tasklet.c`) | list node, `pend`, `deal`; head with list, semaphore, mutex | link, unlink, pend, pend_isr, dispatch | owners, penders (interrupts too), dispatcher thread | no pend is lost; a pended tasklet is run, an unlinked one is not |
| list head (`bscl_list_head.h`) | two pointers | init, insert, remove, walk | tasklet, timer, hash map, getopt | rings stay closed; lists that end with NULL stay lists |
| FTP server (`bscl_ftpd.c`) | session: control and data socket, type, address | accept loop, command loop, transfers | a thread per session, client, file callbacks; the descriptors of the process | one final reply per command, data socket closed after every transfer, no descriptor lost or closed twice, every command ends |
| list, queue (`bscl_list.c`, `bscl_queue.h`) | items, head, tail, size, mutex | insert, remove, delete, push, pop | several threads | an item is popped once and with its data; links and size agree |
| event (`bscl_event.h`) | - | - | - | the header does not compile |
| hash map (`bscl_hashmap.c`) | bucket pointers to items of a list | set, get, remove, delete | list head | a key that was set is found until removed |
| timer (`linux/bscl_timer.c`) | list of timers, tick count | new, delete, SIGALRM handler | signal handler against thread | the handler's walk ends and meets allocated timers only |
| vector (`bscl_vector.c`) | block, size, capacity | new, set, insert, remove | caller | against a sequence |
| search tree (`bscl_bstree.c`) | nodes with parent pointers | insert, find, neighbours, remove | caller | against a bag of keys; walks meet every item once, in order |
| heap (`bscl_bheap.c`) | cells of the caller | init, insert, remove | caller's compare and swap | the first cell is the least |
| sort (`bscl_sort.c`) | the caller's container | quicksort | caller's compare and swap | sorted, and a permutation |
| getopt (`bscl_getopt.c`) | options with arguments, two cursors | parse, next option, next argument | list head | every option and argument of the command line comes out, in order |
| HTTP client (`bscl_http.c`) | receive buffer, parse position | request | pieces read from a socket | same result however the answer is cut |
| URL (`bscl_url.c`) | two pointers into the text | parse | caller | the pairs are those of the text |
| MD5 (`bscl_md5.c`) | bit count, a block's buffer | init, accumulate, finish | caller | the blocks do not depend on the pieces |
| TEA, CRC (`bscl_tea.c`, `bscl_crc.c`) | - | pure functions | packet uses CRC | round trips |
| red-black tree, JSON | nodes | insert, parse | caller | see "Not modelled" |
| win32 serial ports (`win32/serialport.c`) | table from descriptors to handles | open, read, write, close | threads, system | a descriptor stands for the handle it was opened with; no handle of a transfer stays open |
| win32 files, threads, locks; posix wrappers; network | - | - | system | wrappers, or does not compile |
| cooperative tasks (`bscl_task.c`) | jump buffers | switch | - | not modelled: longjmp into frames that have returned |

Hard behaviours: threads without a lock (ring buffer, serial ports) or with one
that does not cover all (list), a pender in the middle of the dispatcher's
test-and-clear (tasklet), interrupt and signal handlers (tasklet, timer), streams
cut at any byte (packet, HTTP, MD5), damaged streams (packet), counters that wrap
(buffer, ring buffer, tasklet, MD5), timeouts (tasklet's wait, FTP's passive
accept), partial failure (FTP transfers), connections left over from an earlier
command (FTP), pointers that a later call follows (hash map, tree, timer, URL).

## The modules

| module | models |
|---|---|
| `BufferOps` | the operations of `bscl_buffer.h` on a record |
| `ByteFifo` | abstract: a bounded FIFO of bytes |
| `Buffer` | any sequence of calls on a buffer; `RefinesFifo` |
| `BufferProofs` | lemmas about `BufferOps`, which `PacketProofs` uses too, and proofs about `Buffer` |
| `PacketOps` | the functions of `bscl_packet.c` on a record (extends `BufferOps`) |
| `PacketReceiver` | a `bscl_packet_t` fed from a stream, and its caller |
| `PacketSender` | `bscl_packet_write` and the draining of its buffer |
| `PacketLink` | sender and receiver composed |
| `PacketProofs` | proofs about `PacketReceiver` and `PacketSender` |
| `RingBuffer` | one writer and one reader, byte by byte; `RefinesFifo` to the same `ByteFifo` |
| `ListHead` | the macros of `bscl_list_head.h` on functions `prev`, `next` |
| `Tasklet` | owners, penders and the dispatcher |
| `TaskletProofs` | proofs about `Tasklet` |
| `FtpLine` | what `recv_line`, `split_command` and `skip_options` make of a line |
| `FtpSession` | the accept loop of `bscl_ftpd.c` and its sessions' threads, with the descriptors they share (extends `FtpLine`) |
| `NullList` | the macros of `bscl_list_head.h` on lists that end with NULL |
| `Vector`, `BinaryHeap`, `SearchTree`, `HashMap`, `QuickSort` | the containers and the sort, each with what its callers have put there |
| `Queue` | `bscl_list.c` and `bscl_queue.h`: threads that insert, one that pops |
| `SignalTimer` | `linux/bscl_timer.c`: the program's calls and the signal handler |
| `Getopt`, `HttpClient`, `Url` | the parsers |
| `Places` | the positions in a text or on a command line, in order, for what is promised of `Url` and `Getopt` |
| `Md5` | how `bscl_md5.c` makes blocks of a message that comes in pieces |
| `SerialPorts` | the table of `win32/serialport.c`, used by several threads |
| `Library` | the modules from `Vector` on, side by side, each an instance |
| `ModuloFacts` | lemmas on remainders, on sequences as functions, on least numbers and on the sizes of sets |
| `RingBufferProofs` | proofs about `RingBuffer` |
| `FtpProofs` | proofs about `FtpSession` |
| `OrderProofs` | proofs about the vector, the heap, the search tree and the sort of `Library` |
| `LibraryProofs` | proofs about the other parts of `Library` |
| `MC*` | values for TLC |

An operator named after a C function takes the state before and returns the state
after with the return value; an action is one call, or one step of a call where
other threads can run in between.  Definitions marked "mutant" in a comment are
plausible mistakes; each must break the property PROJECT.json names for it.

### How the models correspond to the code

*Buffer.*  `out` is the last call with what it asked for, its return value and the
bytes it handed out; `ByteFifo` has the same variable, so that a step that stores
other bytes than it was given, or gives out others than it should, refines no step of
the FIFO.  `Wrap` is the arithmetic of `uint32_t`, with any modulus that `Size`
divides at least twice, which is what the code needs of "2^n".  `buffer_write`
and `buffer_copy` are one or two `memcpy`s (`Place`, `Fetch`).  Field `size` is
the constant `Size`.  `buffer_copy_char` and `buffer_copy_word` are modelled as
they are, without the range checks they lack.

*Packet.*  Each state of `bscl_packet_receive`'s chain of `if`s is an operator
that falls through to the next, as the C code does.  The header's `msgid` and
`seq` are one function `id` from header positions to bytes; `len` is two bytes, low
byte first; the byte's range `Base`, the header's size and the position of the
length are constants, so that a small instance has every way of cutting the length
field.  `PacketAssumption` asks that the header and checksum sizes fit `left` and that
the buffer, with a header and a checksum more, is smaller than 2^32.  `left` wraps like a `uint16_t`.  The CRC is a register changed by
`CrcStep`, one step a byte, and inverted by `CrcInvert` at the end of every call of
`bscl_crc32`; the packet code never calls `bscl_crc32_init`, so with the tables
that a program has not filled the step is not a CRC: the model says nothing about
how good the checksum is.  The repository has no caller; `PacketReceiver` is the
caller that the comments of `bscl_packet.h` ask for: READY is followed by parse,
any result of parse other than MOREDATA by resync.  The header asks for nothing
else.  Bytes that receive does not take are offered again.  A search in resync
that would not end is the phase `spin`.

*Ring buffer.*  A call reads the other side's index, copies byte by byte, and then
stores its own index; every byte is a step.  Loads and stores take effect in
program order (`volatile` orders them for the compiler; a weakly ordered machine is
outside the model).  `bscl_ringbuffer_clear` stores `rIndex`, so only the reader
may call it; it loads `wIndex` (`ClearBegin`) and stores what it loaded
(`ClearEnd`), and a write that ends in between stays in the ring.  The parameter `len` of `bscl_ringbuffer_read` has no effect in the
code (`size` is what is copied) and none in the model: the destination must have
room for all the ring holds.

*Tasklet.*  `pend++` is a load and a store; `clean_pend` likewise; the comparison of
`pend` with `deal` is one step (one of the two is only changed by the thread that
compares, or by the pender itself).  List operations are one step each, because the
mutex covers them; the semaphore and the mutex are given (both are optional in the
code).  A tasklet's owner links it once and unlinks it once: after
`bscl_tasklet_unlink` the node keeps its own pointers, so `bscl_tasklet_is_linked`
stays true and a second link is refused.  Routines do not touch the list: the mutex
is not recursive and one that did would wait for itself.  `bscl_sem_timedwait` may
end by timeout at any time.  `due` is a history variable: it is set by a pend and
cleared when the routine begins.

*FTP server.*  A session's thread is in one of the places of `Places` (in
`FtpProofs`): at its prompt, in a command, waiting for a data connection, sending.
One step goes from one call that waits for the peer (`recv`, `accept`, `connect`,
`send`) to the next; the C code between has no effect that another session could
see, but for the descriptors, and those are opened and closed in one step only
where no wait lies between.  A system call or callback may fail wherever it is
made: the failing branches of the code are actions or disjuncts of their own.  While a
connect waits, the new socket is held in field `data`, for the local variable of
`data_socket`, and every failure on the way to the connection closes it
(`RetrNoData`, `ListNoData`).  `Own` is what PORT compares with, the
addresses with the server's IP; whose address a session ought to have taken no property says,
since the code and its comment disagree (see below).  `owner`
says which session uses each descriptor of the process; `Open` takes the lowest free one,
as the system does, so that a descriptor closed twice would hit another session.
`log` is a history of what the session replied to its latest command; `fault` marks
the paths on which the code answers twice or not at all.  `fresh` is a history too: whether
the data connection was made since the latest PASV or PORT.  A line is the sequence
of its words.  The reply texts, the current directory and the content of files are
left out; `sent` counts a file's blocks.

*List and queue.*  A step ends at the unlocks and wherever the code reads or writes
shared memory without the mutex: the item's `data` and `len` after the unlock of
`bscl_list_insert`, the tail and its data before the lock of `bscl_queue_pop`, the size before the
lock of `bscl_list_remove`.  `past.order` is what was inserted and not removed, in
the list's order.  One thread pops: two could take the same tail, which the code does
nothing against.

*Timer.*  The handler runs to its end between any two steps of the program.
`timer.links` begin as `malloc` leaves them (NULL or `WILD`), because
`bscl_timer_new` does not set them for the first timer; `work.wild` says that such
a pointer was followed, and nothing is claimed from then on.

*Containers and sort.*  `object` and `ghost` of `Library` are instantiated as the
module's own state and its history of the calls.  Memory that was never written is
`JUNK`; a block is a function on its cells, so that an access outside of it would be
an error of TLC.  The tree's nodes are told by key and a number, which
stands for the address.  The hash map follows `get`, which moves an item before
the bucket's but does not change the bucket.

*Parsers.*  `Getopt` classifies words by what the parser tells apart; `HttpClient`
has lines as sizes, with the size of a Content-Type's value, and reads of any size;
`Url` works on texts of the four kinds of characters, with arrays of `PathMax` characters
and `QueryMax` pairs.  Where the code would copy a negative or too large size the model goes
to the phase `overrun`, or `type_overrun` for the array of a Content-Type.
`bscl_http_parser_header` looks for "HTTP/" with `strstr`, past what was received: the buffer
is the caller's and may hold an earlier answer, so `sent.old` says how many bytes must come
until it begins with "HTTP/".  `Md5` keeps the blocks instead of hashing them: a byte
of the message is its position.

*Serial ports.*  `open` chooses a slot before the system call and fills it after
it, with no lock; `close` leaves the handle in the table.  Handle values are given
again by the system once closed.

## The runs

| run | instance | shows |
|---|---|---|
| `buffer` | 4 bytes, counters mod 8, requests up to 3 | FIFO refinement over splits, full and empty buffers and both counters' wraps |
| `packet_clean` | 3 packets of 0, 1, 2 data bytes in every combination, chunks 1 to 11, header 4, buffer 8 | all are handed out in order; `left` is right at every boundary; the largest packet fills the buffer |
| `packet_noise` | noise before, one byte changed, or one byte inserted; header 5 (so the length field is cut in all three ways), buffer 32, chunks 1, 3, 4, 11 | only pieces with a right checksum are handed out, never overlapping; the last packet is handed out |
| `packet_sender` | 4 packets, any drain | frames are whole |
| `ring` | 4 bytes, indices mod 8, writes of 1 or 2 | no race, FIFO refinement |
| `tasklet` | 2 tasklets, a pender each, 2 pends each | see below |
| `ftp` | 2 sessions, 6 descriptors, 22 command lines, files of 1 block; the first client sends up to 3 lines, the second connects and hangs up | no descriptor lost or closed twice; one final reply; 226 means all was sent; the data connection is the latest; every command ends |
| `library` | heap: 6 cells, 3 keys; vector: up to 6 items in batches of 1 or 2; tree and map: 5 or 3 keys, 2 copies, up to 5 or 4 items, 2 buckets; queue: 2 pushers, 2 pushes each, 1 popper; timer: 3 timers; getopt: 3 words; HTTP: heads of 1 to 3 lines, buffer 18, types of 2; sort: 5 items; URL: 7 characters, arrays of 3 and 2 places; MD5: block 8, count of 2 times 8 bits, messages up to 60 bytes; serial ports: 2 threads, 3 slots, 4 handles | one property or two for each part |
| `packet_resync` (violation) | a damaged stream, buffer 8 | resync can search for ever |
| `packet_link` (violation) | sender and receiver | the receiver rejects what the sender wrote |
| `tasklet_link` (violation) | 2 tasklets | linking the second takes the first off the list |
| `tasklet_isr` (violation) | 2 penders of one tasklet | one of two concurrent pends is lost |

Bounds.  A buffer of 4 bytes with counters mod 8 has every relation of the two
offsets and both wraps; the proofs cover the rest.  `packet_noise` uses a buffer
that holds whatever a header can announce: with a smaller one `receive` loses bytes
(it looks at the space only in state SYNC), and `ConsumedIsStored` does not hold.
Its streams go on for as long as the longest packet, because a false header can make
the receiver wait for that much.  Its memory starts out full of magic bytes, so the
stale byte that resync may stop at is always there.  `Recovers` lets two outcomes
pass: the endless search of `packet_resync`, and a checksum that matched by
chance, which is common with the four-bit register of the run.  `Framed` leaves out
lengths near 2^16, where `left` overflows, and in byte mode those above one byte,
of which `receive_byte` reads the first only.  In `tasklet`, `MaxPends` below
`Modulus` keeps `pend` from going around to `deal`.

In `ftp` three lines are enough for a connection that one command sets up, a second
one changes and a third one uses; the second session only holds a descriptor, which
is what another session could be hurt by; six descriptors let every `socket`, `open`
and `accept` also fail for want of one.  A file of one block has a first, a middle and
a last send.  In `library` a behaviour uses one part, so the states of the run are the sum of
those of the parts and not their product.  A heap of 6 cells has three levels, which
is where one swap is no longer enough; trees of 5 nodes have a removal with the least
item two steps below; the vector grows to 8 and shrinks to 1; two of the map's three keys share
a bucket; one HTTP head is longer than the buffer, one has a type that does not fit; a URL has paths,
keys, values and fields that just fit and that do not; MD5's low count wraps at 32 bytes, its
block and words being scaled with the same inequalities between them
(`Md5Assumption`).

CHECK_DEADLOCK is off where the system really stops: the stream has ended, the
pends and the links are used up, the clients have sent all and are gone, a parse or
a sort is done.

Fairness.  `PacketReceiver`: the caller keeps calling while there is something to
do; nothing else moves.  `Tasklet`: the dispatcher calls dispatch again and again
and its wait times out, a call that has begun link's or unlink's locked part ends,
and a pend that has begun ends; nobody has to call link, unlink or pend.  Weak
fairness is enough, since each owner takes the mutex at most twice.
`FtpSession`: a session's thread goes on (`Working`) where it does not depend on
its client; an accept has a timeout (`SO_RCVTIMEO`), a connect ends with success or
an error.  There is no fairness for what a client does, nor for sends, which have no
timeout: `CommandEnds` ends at a send.

Seen while modelling, without a run of their own:

* Packet, ring: `bscl_packet_parse` returns 0 or 2 for a good packet where
  `bscl_packet.h:32` says its length; `bscl_packet_receive` reports bytes as consumed that a
  full buffer did not take (`bscl_packet.c:60`, `111`); `receive_byte` reports packets
  of 256 bytes or more as ready too early (`bscl_packet.c:159`);
  `bscl_ringbuffer_read` ignores its cut length (`bscl_ringbuffer.c:7`).
* FTP server: PORT compares with the server's own address (`bscl_ftpd.c:517`), where the comment
  above it (514-516) and the reply to what it refuses (528) speak of the client's;
  a closed control connection counts as a character
  (`bscl_ftpd.c:108`), so the last command is executed again until an error comes; a PASV that nobody connects to gets 227 and then 425; a RETR without data
  connection 425 and 451; RETR in ASCII mode, and a directory that cannot be opened,
  no final reply, the latter with the data connection left open (`bscl_ftpd.c:376`); a
  `getsockname` or thread that fails loses the connection (`bscl_ftpd.c:688`); the
  transfer type is not initialised.
* Hash map: `get` does not update the bucket: a key found once may not be found
  again, and a hit of the bucket's own item closes a cycle; `remove` of that item
  leaves the bucket pointing at freed memory.
* Heap: `sift_down` swaps once.  List: `data` is set after the unlock, the size is
  tested before the lock, so an item popped early stays on the list and is popped again;
  `bscl_list_delete` of a list that is not empty reads through NULL.
* Timer: a timer inserted later goes before the first one, where the handler never
  calls it and its deletion never ends (`bscl_timer.c:80`); a failed `setitimer`
  loses the block.
* Getopt: an option without arguments gives junk first; a command line without
  options gives the list's head as an option.  HTTP: the parser begins again at its
  position and moves it back by one when the text there is not "HTTP/"; a read that ends with the
  end of a line is taken for the head's end, and the parser then returns more than it was given
  (`bscl_http.c:24`, against the comment at 6); so is a read of one
  byte in front of an old "TTP/"; a Content-Type of 20 characters
  overruns its array (`bscl_http.c:48`); the caller's
  `completed_head` is not reset.  URL: a field without "=" behind one that has it
  gives a negative size; the arrays of `bscl_url.h` are filled without a check.  Serial ports: slots are never freed; a failed
  `SetCommMask` loses a handle; two opens at the same time get the same slot.

## The proofs

All are checked by `tlapm` to the last step, for every value of the constants.

`BufferProofs`, from `BufferAssumption` (`Size` divides `Modulus` at least twice)
and `RequestAssumption`:

* `BufferCountsHold`: `BufferSpec => []CountsHold`.  The invariant is inductive as it stands; the
  part that carries it is `Count(buffer) <= Size`.
* `BufferRefinesFifo`: `BufferSpec => RefinesFifo`.  Modular arithmetic comes first:
  `OffsetWrap` (a counter's wrap is invisible to the mask, because `Size` divides
  `Modulus`), `OffsetStep` (offsets less than `Size` apart are different slots).  Then
  `PlaceAt` and `FetchAt` (a split copy is what a loop of single bytes would be),
  `PlaceAppends`, `AdvanceTakes`, `CopyIsWindow`, and one step lemma per operation.

`TaskletProofs`, from `TaskletAssumption` and `OnePender` (penders do not share a
tasklet, which is what run `tasklet_isr` shows to be needed, and `MaxPends` is less
than `Modulus`, so that `pend` does not go all the way around to `deal`):

* `TaskletNoLostPend`: `OnePender /\ Spec => []NoLostPend`, for any number of
  tasklets and penders.  `NoLostPend` is not inductive: a store of a stale `seen`, or
  of a stale `disp.seen` into `deal`, would break it.  The strengthening `IInv` says
  what a pender loaded is still in `pend` when it stores (`PenderInv`), that `deal`
  and what the dispatcher is about to store in it never overtake `pend`
  (`DealInv`), and that `due` means `deal < pend` or the routine is starting
  (`DueInv`).  One lemma for each of the owners, the penders and the dispatcher.
* `TaskletTypeOK`, `TaskletWalkEnds`, `TaskletUnlinkedIsQuiet`: `Spec => []...`, without
  `OnePender`.  The strengthening `ListIInv` is about the list and who may change it.
  At most one tasklet is on the head's ring, since `bscl_tasklet_link` takes off the one
  that was there (run `tasklet_link`), and it is a linked one (`ListInv`).  An owner in the
  locked part of link or unlink and a dispatcher in its walk exclude each other
  (`MutexInv`), so the dispatcher is at the head or at a tasklet that is on the list, and
  what it saved as the next node is still the next (`WalkInv`); `TaskletWalkEnds` says both.

`PacketProofs`, from `PacketAssumption`, `ReceiverAssumption` and `SenderAssumption`, for
any memory, header layout, byte range, checksum function and set of streams:

* `PacketTypeOK`: `Spec => []TypeOK`.  `StateOK` is inductive: `Count(mo) <= Size`
  although receive writes without looking at the space, because `buffer_write` cuts;
  and `left` is not 0 while a header is awaited, or a byte too many would be taken.
* `PacketConsumedIsStored` and `PacketFramed`, by `BaseInv`: the two are one invariant, since
  `left` is right only of a buffer that holds what was consumed.  The argument goes
  along the chain of receive: each part (`ReceiveHead`, `ReceiveData`, `ReceiveCrc`)
  either takes all of its input and lowers `left` by as much, or completes the part and
  goes on with the rest; the length field put together from bytes stored and bytes that
  come is the one at `LenPos` of the whole, for all cuts.
* `PacketOnlyGoodFrames`, by `GoodInv`: there are ends, one for each packet handed out and
  in order, the last before what is stored.  parse reads the packet out of the ring; its
  checksum by chunks of `CrcChunk` bytes is that of the bytes in the stream.
* These three have the hypothesis `NoneTooLarge \/ CleanLine`.  `NoneTooLarge`: the two
  bytes behind any position of a stream that could be a header's length announce a packet
  that fits the buffer; `RoomSuffices` shows that it is so for every stream when the buffer
  holds the longest packet a header can announce, which is what run `packet_noise` has.
  `CleanLine`: a stream is whole packets that fit, one behind the other, as in run
  `packet_clean`.  Without either, receive overruns its buffer (`bscl_packet.c:67` is the
  only look at the space), and the three properties do not hold.
* `PacketInOrder`, under `CleanLine`.  `CleanInv` says that the receiver is aligned: what
  it has handed out are the first packets and what it has stored is a prefix of the next
  one, so that parse finds that packet, or less than it: `receive_byte` reports packets
  of `Base` bytes or more too early, and resync brings it back in step.
* `SenderWholeFrames`: `SenderSpec => []WholeFrames`.  The space test before the first write
  counts all three parts, so no write is cut (`WriteWhole`).

`Frames` and the checksum are recursive functions.  `Recursion` in `ModuloFacts` shows that
such a function exists and satisfies its equations for every length, by the least number for
which it would not; what the proofs need of `Frames` and of the ends in
`OnlyGoodFrames` follows by the same argument (`UpTo`).  Of the checksum nothing is needed
but that equal bytes have equal ones.

`ModuloFacts` has the arithmetic of free-running counters (a remainder may be taken
before or after an addition, `DistanceUp`, `DistanceDown`) and what sequences are as
functions; both ring proofs rest on it.

`RingBufferProofs`, from `RingAssumption` (`Capacity` divides `Modulus` at least
twice):

* `RingTypeOK`, `RingNoRace`: `Spec => []TypeOK` and `Spec => []NoRace`.  The
  strengthening `IInv` says that what each thread saw when its call began is still a
  bound although the other thread has gone on (`writer.len <= Capacity - RingSize`,
  `reader.size <= RingSize`), that the bytes the writer has copied are in the memory
  behind the tail (`WriterInv`), and that those the reader has copied came from the
  head (`ReaderInv`).  `SlotApart` and `SlotOfTail` give `SpaceIsFree`: no slot of the
  space is a slot of a byte held, wherever the indices have wrapped.
* `RingRefinesFifo`: `Spec => RefinesFifo`.  A write takes effect in `WriteEnd`
  (`HeldGrows`), a read in `ReadEnd` (`HeldShrinks`), a clear in `ClearBegin`: from then on
  the FIFO's contents are what lies behind the bytes it is about to give up (`Cleared`),
  and `ClearEnd` changes nothing of them (`HeldWraps`).  All other steps stutter, a byte
  written because it goes to the space.

`FtpProofs`, from `FtpAssumption`, for any number of sessions, descriptors and lines:

* `FtpTypeOK`, `FtpNoOrphans`, `FtpAnswered`, `FtpSentWhole`, `FtpFreshData`: each
  invariant of run `ftp`.  None is inductive: `IInv` says of every session which
  descriptors it has (`Owns`: exactly `ctrl`, `data` and `fd`, which differ), what
  holds at the place where its thread is (`Knows`: for example `fd` is open exactly
  while a file, a directory or a listening socket is, and `data` is while a connect waits), and what it has replied
  so far (`Says`).  `OneMoves` reduces a step to the session that makes it: the
  others keep their descriptors because a new one was free (`OpenedOwn`) and a closed
  one was the session's own (`ClosedOwn`).  One lemma for each action.

`OrderProofs` (the sort, the vector, the heap and the search tree) and `LibraryProofs` (the rest), from
`LibraryAssumption`: an invariant for each part, of interest only in behaviours that use this
part.

* `LibraryPortsKept`: `Spec => []PortsKept`.  `SerialSlots`: two opens under way fill different
  slots, which are free, until `clash`; `SerialHandles`: an open handle is that of exactly one
  descriptor or one transfer, or one that a failed open left behind.
* `LibraryQueueHolds` and `LibraryPopsOnce`, by `QueueInv`.  `QueueLinks`: the pointers are those of
  the order in which items are on the list (`ChainInsert`, `ChainRemoveLast`); `QueueHolder`: a
  thread that has the mutex has one item on the list that it has not counted yet, and that
  has no data; `QueuePopping`: the item being popped is the last one, because insertions go
  behind other items only.  With these an item popped with its data is counted, so the test of the
  size that `bscl_list_remove` makes before the lock lets it through (`QueueRemoveTest`), and
  it is off the list before the next pop (`QueuePopped`).  `WalkAlong` says that the
  walk of `QueueHolds`, a recursive function, meets the items of such an order.
* `LibrarySortHolds`, by `SortInv`: the ranges of the calls still to be made do not overlap
  (`SortCalls`), and two items that are not in one of them together are in order (`SortOrdered`).
  `Between` is the invariant of the loop that parts a range, `Comparisons` its measure:
  three times what i and j are apart, and one or two for an item that is still to be swapped.  It shows
  that the loop is over after the rounds that `Partition` gives it (`PartitionDone`), with the pivot
  between what is not greater and what is not less (`PartitionParts`).  A permutation
  is a function on the places (`Shuffled`), which keeps how often a key occurs
  the items outside.
* `LibraryHandlerSafe`, by `TimerInv`, until a junk pointer is followed: a timer inserted later
  goes before the first one, so whatever was linked since the first one lies in a set `B` that is
  closed under `prev` and has nothing behind the first (`Before`).  The handler's walk, a recursive
  function (`WalkPath`, `WalkStays`), meets the first timer only (`FirstIsMet`), and that
  one is allocated at every step of new and delete.
* `LibraryVectorHolds`, by `VectorInv`: the cells below the size hold the items, and the
  capacity has room for them (`Holding`).  `GrownEnough`: doubling once for every item that is
  asked for is enough, however large the request.
* `LibraryHeapHolds`, by `HeapInv`.  What `HeapHolds` says of a heap after one removal does not
  follow from what it says before it: `Heaped` has the order of all cells for as long as
  it lasts.  `sift_down` is one swap (`SiftedDown`); it makes the first cell the least of any
  cells when done from the last parent to the root (`Forest`: each tree below i has a least
  root; the root only, and in order throughout up to three cells).  `sift_up` moves a cell along its
  ancestors (`Climbed`), and a removal from cells in order leaves the least first
  (`OrderedTops`, `TakenOut`).  `OftenOneMore` and `ShuffledCounts` count the keys.
* `LibraryKeysKept`, by `MapInv`, for any hash: there is a sequence of items for each bucket
  such that the pointers are those of it (`Held`, `Chained`); the items that lookups moved lie
  before it, and no pointer of the sequence leads to them but that of its first item.  A set puts
  an item at the begin (`OntoChained`), a lookup or a removal takes one out that the bucket does not
  point at (`WithoutChained`), and `FoundIn` says what that does to the searches.
* `LibraryAnswerRead`, by `HttpInv`, for answers of any lines and reads of any size.  `HttpRead`
  relates what was read to what is left of the line and of the body; the parser's position
  is the greatest line start that it has seen (`HeadParsed`), so the head is taken at
  its end unless an end of a line was taken for it before (`FalseEnd`), and no line that it
  has passed has a type too long.  After a false end the position lies behind what was received,
  so that nothing is taken into the contents (`Begun`).  The proof needs what
  `HttpAssumption` says of `Prefix`: if "HTTP/" were one byte long, the position moved back by one would be
  on the line before.
* `LibraryBlocksHold`, by `Md5Inv`: the blocks are the whole pieces of what was
  accumulated and the buffer has the rest (`Cut`), whether a piece fills the buffer
  (`CutMore`) or not (`CutLess`).  `CountedLength`: the carry seen by a sum that is less than what was added is
  the right one; `IndexOfLength`: the low word tells how much waits in the buffer, because `8 * Block`
  divides its modulus; `Padded`: the padding is what fills a block with the length at its
  end, and no longer; `FlattenedCut`: the blocks put together are what they were cut from.
* `LibraryTreeHolds` and `LibraryFindHolds`, by `TreeInv`: the fields of the nodes are those of one
  order of them.  In that order each node has a place `pos`, and `lo` and `hi` are the places of the
  first and the last node below it (`Ranked`); what is below a left child is what lies between
  `lo` and the node itself.  `Turned` is the same tree the other way round (`TurnedRanked`), so
  what is proved of one side holds of the other.  The walks down and up are recursive
  functions whose spans shrink (`Iteration`, `ByMeasure`); they end where the order says (`UtmostIs`,
  `FindIs`, `PlaceIs`), and the neighbour of a node is the node at the next place (`NeighbourIs`).
  An insertion gives the new node the place next to the one it hangs below (`Hung`,
  `InsertGood`).  A removal of a node with one child closes the gap in the places (`Dropped`,
  `DropGood`); one of a node with two is that of the next node, which then takes over the
  item's place (`Exchanged`, `RemoveGood`).  As many removals as there can be equal items
  leave none of the key (`RemoveAllGood`).
* `LibraryQueryHolds`, by `UrlInv`: at every turn of the scan the pairs are those of the fields before
  it, and of the field it is in the value begins behind the last "=" so far (`UrlScanned`).  The fields
  are the places of a set in order, which `InOrderAt` and `InOrderOnto` number and to which
  `InOrderOneMore` adds one behind all others; `FieldEnds` and `PairTaken` end a field, and say
  which of the reasons in `Unfit` there is when a pair does not go into the arrays.
* `LibraryCommandLine`, by `GetoptInv`, which has the whole context of the parser as a function of the
  words taken (`Parsing`) and, once the cursors move, of how far they are (`Handing`, `Given`).
  `AboutGrows`, `ArgsGrow` and `NthGrows` say what one word more does to what the words
  say; `FindOptionIs` and `OptionMet` that find_option meets the option of a word when it was named
  before and no other; `ParsedGrows` puts them together.  The argument cursor stands either before
  all arguments or, having come round, after all of them, and what was given out tells which
  (`CursorsIn`).

Every safety property and refinement that a passing run checks is a theorem.  Model-checked only: liveness
(`AllDelivered`, `Recovers`, `PendedIsRun`, `CommandEnds`), which is out of the prover's reach.

## Plan

Done: the communication core (buffer, packet, ring buffer, tasklet), the FTP server,
the list and queue, the containers and the sort, the timer, getopt, HTTP, URL, the
blocks of MD5 and the table of serial ports; proofs of every safety property of the
buffer, the packets, the ring buffer, the tasklets, the FTP server and the parts of `Library`.

Left: the table of CRC as the polynomial division it stands for; a second popper for the queue, with
what is still true then.

## Not modelled

* Event: `bscl_event.h` does not compile (line 35), so no program uses it.
* Red-black tree: the first insertion reads through the NULL root
  (`bscl_rbtree.c:86`); removal is a stub.
* JSON: parsed numbers and strings are never stored and the elements of arrays are
  dropped, so results depend on memory that is not initialised.
* Cooperative tasks: `longjmp` into frames that have returned, which no set of
  outcomes describes.
* win32 files: not C (references as parameters).
* Network, posix and win32 wrappers, the tools, map, logging: a system call each,
  without state of their own; WAV and the FTP client: file headers and stubs.
* What a block does to the MD5 state, the TEA rounds and the CRC tables: arithmetic
  on words, which the known test vectors test better.
