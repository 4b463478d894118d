# Specifications of the Samsung V4L2 sample programs

The repository holds eight independent programs that drive Samsung's video
devices through V4L2 and DRM: a threaded MFC decoder, an MFC encoder, a
decoder that shows its pictures with DRM directly, and five smaller samples.
They share no code. What they have in common is buffers that circulate between
the program and several drivers, each owned by one party at a time, and what is
hard about all of them is that circulation.

## Inventory

### `v4l2-mfc-example`: the threaded decoder

| component | source | state | operations |
|---|---|---|---|
| buffer queue | `queue.c` | ring `q`, `head`, `tail`, `n`, a mutex | `queue_add`, `queue_remove`, `queue_empty` from two threads |
| threads | `main.c` | `error`, `finish`, `out_buf_flag`, `cap_buf_flag`, `cap_buf_queued`, semaphores `todo` and `done` | the loops of the parser, MFC and FIMC or IPP thread, the joins of `main` |
| MFC access | `mfc.c` | buffer counts, addresses, device | format, REQBUFS, QBUF, DQBUF, stream on, `V4L2_DEC_CMD_STOP` |
| display devices | `fimc.c`, `ipp.c`, `drm.c`, `fb.c`, `gem.c` | `cur_buf`, frame buffers, crtcs | scale a picture into a frame buffer, flip to it |
| stream parsers | `parser.c` | start-code automaton, saved bytes | cut a stream into frames (MPEG-4, H.264, MPEG-2, VP8) |
| setup | `main.c`, `args.c`, `fileops.c` | files and mappings | open in order, `cleanup` on failure |

The parser thread feeds stream frames to the MFC; the MFC thread returns free
picture buffers to the MFC, dequeues decoded ones and hands each through the
queue and the semaphore `todo` to the display thread; that thread shows the
picture, marks the buffer free and posts `done`. The flags are read and written
without a lock. Hard: the interleaving of flag, count, queue and semaphore
updates; a thread that stops while another sleeps; the end of the stream;
ignored results of system calls. Correct means: a buffer has one owner, the
semaphores count what they stand for, every frame is shown once and in order,
and the program ends.

### `v4l2-mfc-encoder`

| component | source | state | operations |
|---|---|---|---|
| device chain | `io_dev.c`, `io_dev.h` | per port `state`, `counter`, `nbufs`, `limit`; ring of buffers per pair; `event` | `wait_for_ready_devs`, `process_pair`, `process_chain` |
| devices | `func_dev.c`, `v4l_dev.c`, `mfc.c`, `in_demo.c`, `in_camera.c`, `out_file.c` | port state, buffers | `req_bufs`, `enq_buf`, `deq_buf`, `deq_event`, `stream_set` |
| main | `main.c`, `args.c` | the three devices | builds the chain, runs it, destroys it |

One thread polls a chain source, encoder, file. Hard: limits and end states
that travel down the chain, the end-of-stream event that races the last encoded
buffers, failing calls whose result is ignored, and polling that must not stop
early or hang.

### `v4l2-mfc-drm-direct`

| component | source | state | operations |
|---|---|---|---|
| decoder | `mfc.cpp` | flags of source and destination buffers, `dest_num_queued` | `run`, `queue_dest`, `dequeue_dest`, stream on and stop |
| display | `exynos_drm.cpp` | page requests and flags, crtc, plane | `alloc_pages`, `get_page`, `issue_flip`, the flip handler |
| presentation | `main.cpp` | a thread that dequeues, flips and requeues | `presentation_thread`, `main` |
| input and parsers | `input_file.cpp`, `parser.cpp` | mapped file, automaton | `read`, the parsers |

The decoder decodes into pages that the display shows without a copy. Hard: two
threads on one decoder with a shared count, and a page that must not be
decoded into while it is on the screen.

### The smaller samples

| program | state | operations |
|---|---|---|
| `v4l2-drm-example/dmabuf-sharing.c` | capture buffers exported to DRM, `current_buffer`, `next_buffer` | poll loop: capture, flip, requeue |
| `v4l2-dmabuf-test/v4l2-dbuf.c` | vivi to FIMC to FIMC buffers | three pipelines that pass dmabufs |
| `v4l2-hdmi-example/main.c` | a ring of three buffers | draw, queue, dequeue |
| `v4l2-jpeg-codec-test/test-jpeg.c` | one job | queue both sides, poll, dequeue |
| `v4l2-fimc-m2m-example/fimc-m2m-f02.c` | source and destination buffers | queue, poll, dequeue per frame |

## Models

### How the modules fit together

| module | stands for | uses |
|---|---|---|
| `Fifo` | what `queue.h` promises: a bounded FIFO with indivisible operations | |
| `BufferQueue` | `queue.c`, two steps per critical section | implements `Fifo` |
| `FramePipeline` | what the programs that decode or encode promise: each frame once, in order, bounded by the buffers | |
| `DecoderThreads` | the threads of `v4l2-mfc-example/main.c` with the calls of `mfc.c` | implements `FramePipeline`; uses the queue through the operations of `Fifo` |
| `EncoderChain` | `io_dev.c`, `func_dev.c`, `v4l_dev.c` and the devices of the encoder | implements `FramePipeline` |
| `DrmDirect` | `MFCDecoder::run`, `presentation_thread`, pages and flips | implements `FramePipeline` |
| `DirectSetup` | what `v4l2-mfc-drm-direct` creates, in order, and takes down | |
| `DirectProgram` | the whole of that program | extends `DrmDirect` and `DirectSetup` |
| `StreamParser` | `parser.c`, one byte per step, with the calls its users make | |
| `DirectParser` | the life of the classes of `parser.cpp` and `input_file.cpp` | extends `StreamParser` |
| `DecoderDisplay` | what the display threads do with one picture: `fimc.c`, `drm.c`, `fb.c`, `ipp.c` | one step of `DecoderThreads` (`process` to `free`), call by call |
| `IvfParser` | `parse_vp8_stream` on an IVF file, with the mapping behind its end | |
| `V4l2Calls` | the calls that the straight-line programs are made of | |
| `DecoderSetup` | `main.c` of `v4l2-mfc-example` before and after its threads, with `args.c`, and `mfc_open` … `gem_close` | a sequence of `V4l2Calls` |
| `DmabufTest`, `FimcM2m`, `JpegTest`, `HdmiExample` | those programs | each a sequence of `V4l2Calls` |
| `SharingSetup` | `v4l2_init`, `drm_init` and the first buffers of `dmabuf-sharing.c` | a sequence of `V4l2Calls` |
| `EncoderSetup` | `main.c` of `v4l2-mfc-encoder` around `process_chain`, with the `_create` functions and `dev_bufs_create` | a sequence of `V4l2Calls`; leaves `Init` of `EncoderChain` |
| `CallMachine` | what these calls do, and the devices between them | executes the sequences |
| `DmabufSharing` | the loop of `dmabuf-sharing.c` | goes on where `SharingSetup` ends, in `MCPrograms` |
| `BufferQueueProofs`, `DecoderThreadsProofs`, `DecoderDisplayProofs`, `EncoderChainProofs`, `DirectProgramProofs`, `DmabufSharingProofs`, `ParsersProofs` | theorems | extend the module they are about; `DirectProgramProofs` proves `DrmDirect` and `DirectSetup` first, `ParsersProofs` is about `MCParsers`, where both programs' parsers are |
| `QueueLemmas` | lemmas on sequences of buffers: what taking, appending and joining do to their elements; the smallest of some numbers, which takes the place of induction | extended by the proofs of the decoder's threads, the encoder, the direct program and the parsers |

An `MC` module and a `.cfg` make an instance for TLC. In a module, the
operators named `X_Something` before an operator `X` are plausible bugs of the
code that `X` models; each property is known to fail under one of them.

**Granularity.** In `DecoderThreads` a step of a thread lasts from one access to
shared state to the next: the loop test, the scan for a free buffer, `sem_wait`,
the queue operation, the store to a flag and `sem_post` are separate actions,
since no lock is held. The driver's own steps interleave with them. In
`BufferQueue` a critical section is two steps under the mutex; the proof that it
implements `Fifo` is what entitles `DecoderThreads` to one step per call.
`EncoderChain` is one thread, so that a step is the handling of one port, with
the devices in between. In `DrmDirect` the steps are cut where one thread reads
what the other writes, or where a call blocks. `DirectSetup` runs in one thread:
a step is a method with one of its outcomes. In the parsers a step is a byte.
In `DecoderDisplay` and in `CallMachine` a step is one system call of the only
thread, and the devices work between the calls.

**Faults.** System calls fail at any point, at most `MaxFaults` of them in a
behaviour. What the code ignores (the results of `mfc_dec_queue_buf_out`,
`mfc_dec_queue_buf_cap`, `mfc_dec_stop`, `queue_add`) the actions ignore: the
flag is set although the buffer did not get to the driver.

**External parts.** The MFC, the FIMC and IPP, the cameras, the CRTCs and `poll`
are not in the repository. The MFC takes stream buffers in their order, needs
its minimum of picture buffers, delays pictures for reference, and after a stop
command returns what it holds, and an empty picture last. A display takes one flip at a time and
completes it at a vertical blank. They are as free as the calls that the code
makes allow: in particular any buffer the driver has may be the next decoded to.

### `DecoderThreads` and the code

| state | code |
|---|---|
| `error`, `finish`, `parserFinished` | `struct instance`: `error`, `finish`, `parser.finished` |
| `parserPc`, `offs`, `outFlag` | the parser thread; `in.offs`, counted in frames; `mfc.out_buf_flag` |
| `mfcPc`, `mfcN`, `capQueued`, `capFlag` | the MFC thread and its `n`; `mfc.cap_buf_queued`, `mfc.cap_buf_flag` |
| `queue`, `todo`, `done` | `fimc.queue` or the IPP's, and the semaphores of `struct instance` |
| `displayPc`, `displayN`, `shown` | `fimc_thread_func` or `ipp_thread_func`; the pictures shown so far |
| `hwOut` … `content` | the MFC |

`Display` is "fimc", "ipp" or "none". The two display threads have the same loop
and differ in the device that `ShowFrame` uses. Without one, the MFC thread
marks a picture free as soon as it has it.

### `EncoderChain` and the code

`port[p]` is the `struct io_port` of the source, of the two sides of the MFC and
of the file; `event` is that of the MFC's `struct io_dev`; `queued` and `ready`
are the ring of a function device or the two queues of a driver. `Program` is
`process_chain`: wait, then for each pair take a buffer downwards or give one
back upwards, then the event.

### `DirectProgram` and the code

`DirectSetup` follows main.cpp from the input file to `queue_dest` of the first
pages, then `DrmDirect` runs until both threads have ended, and `DirectSetup`
takes down. The MFC goes on until its file is closed, and the display always.
`flags`, `mfcFlags` and `pageFlags` are the members of that name; `live`, `bufs`
and `parts` say what really exists; `misused` collects what was released or used
without existing, after which the program may also crash.

### `DecoderDisplay` and the code

`display` is what the options chose ("fb" for `-d`, "drm" for `-D`, "ipp" for
`-I`) and `double_buf` is `-V`. `pc` walks through the body of
`fimc_thread_func` (main.c:332-457) or of `ipp_thread_func` and
`exynos_drm_ipp_process_frame`; `n` is the picture in hand, `cur_buf` and
`first_run` the locals of that name, `tries` the `count` of the IPP's loop.
`source` and `target` are the FIMC's two queues of one buffer each, `jobs` the
pictures queued for the IPP, `scanout` and `next` the screen, `events` what can
be read from `drm.fd`, `typed` that standard input, on which the code selects
too, has something to read. A select may time out, be woken by a key or fail;
the event it reads may be one that was left over.

### The programs that are sequences of calls

`Code[s]` is the sequence of calls of a program with the options `s`: each call
names its device, queue and memory, the values it needs and sets, and what the
code does when it fails (`V4l2Calls` lists the eight ways, from the silent
"ignore" to `cleanup`). Loops of a fixed count are unrolled, with `Each`. The
modules of the programs are therefore close to the programs: one function of the
code is one operator. `CallMachine` gives every call its effect on a V4L2
device: formats, for which it may choose another one on either side; the count
and the streaming state of a queue; the buffers to do and done; controls; and contents of memory,
of which a picture's frame, format and orientation matter. A call fails when the
kernel does not accept it (`Refused`) or for a reason of its own (`Fails`).
`results` is what can be seen from outside, in files and on screens, each picture
with the format it is taken for: for a dump the one that the program has read back,
for the JPEG test the one it has printed, for the frame buffer its own, and for the TV
output that of its queue. In `DecoderSetup` and `EncoderSetup` the mark `Threads` stands for the threads of
`DecoderThreads` and for `process_chain` of `EncoderChain`, and in `SharingSetup` the mark `Loop` for the loop of `DmabufSharing`, which
`MCPrograms` then goes on with.

`DecoderSetup` keeps where the names of the two video devices come from, because
`fimc_open` and `mfc_open` free them: `detect_video` (`-A`, `-E`) allocates them, `-f`
and `-m` take them from the command line, and `free` of these ends the process. So
a FIMC that is named with `-f` is never used: `fimc.c:74` frees the name after
everything has succeeded. `mfc.c:72`, where the same call is commented out, frees it
on failures only. A FIMC that was not detected has no name, and cannot be opened.

### The parsers

A stream is a sequence of units (a start code and the bytes up to the next), and
the parser sees only its bytes. The expected frames are defined on the units,
without reference to the automaton: a frame starts with the first tag, with a
tag that follows a picture, and with the first picture. An IVF file is a header
and frames with their sizes; what counts behind it is the rest of its last page,
which reads as zeros, and then memory that is not mapped.

## Runs

| run | instance | what it shows |
|---|---|---|
| `buffer_queue` | 2 threads, 3 slots, 2 indices | the ring implements `Fifo` whatever the threads call, through full, empty and wrapped-around states; its inductive invariant holds |
| `decoder_faults` | FIMC, 2 stream buffers, 3 pictures of which 1 is required, 4 frames, 1 fault | no buffer is lost, given away twice or shown while it is decoded to; semaphores and counters are exact; the threads' mutual checks never fire by themselves; order is kept even when frames are lost; before the end of the stream the threads and the MFC never all wait for each other unless a call has failed |
| `decoder_live` | the IPP's thread, and no display thread; 3 pictures of which 2 are required, no fault | every frame is shown once and in order (the refinement of `FramePipeline`); the parser and MFC threads finish, and `main` does if nothing is displayed |
| `decoder_display` | frame buffer, DRM and IPP, one buffer or two; 4 pictures, 3 tries, 3 copies for the IPP, 1 fault | with two buffers none is drawn into while it is on the screen; a picture is on the screen when it is given back; the FIMC reads only the picture that was taken; every picture taken is given back |
| `decoder_shutdown` | FIMC, 2 frames | a disagreement, see below |
| `encoder` | demo and camera, 4 frames, 3 and 2 buffers, 1 fault | buffers are conserved in each pair, frames stay in order and none is doubled from the source to the file, also past a failing call, with no more under way than there are buffers (the refinement of `FramePipeline`), nothing blocks in DQBUF, `poll` is never called while nothing can happen any more (until a call fails), the stop command comes with the last frame, and the chain terminates |
| `encoder_eos` | demo, 3 frames | a disagreement, see below |
| `direct_program` | 2 source buffers, minimum 2 and 4 pages, 7 frames, 1 fault, every failure of the set-up | a page is with the MFC, in a thread's hand or with the display, and its flags say which; no page is decoded to while shown; frames are shown in order, and no more are under way than there are buffers and pages (the refinement of `FramePipeline`); until a call fails or the stream ends the two threads, the MFC and the display never all wait for each other; flags match objects, everything is released once, the stream is fed to its end |
| `direct_end`, `direct_setup` | smaller | disagreements, see below |
| `parsers` | every stream of up to 4 units of 4 codecs, 6 frames asked for; every IVF file of up to 4 frames | both implementations return the frames of the stream byte for byte, none is missing, the six saved bytes suffice; of an IVF file no frame is lost, doubled or cut before the parser reads behind the end |
| `programs` | each of the seven programs with its options (for the decoder every sequence of up to three of them, after `-m` or without it, whichever devices are detected), 2 stream and 2 picture buffers, 3 buffers and 5 frames to share, 6 rounds of the mem-to-mem example, 7 pictures of the HDMI one, any call failing | until something fails the kernel accepts every call and every value used has been set; no buffer is touched while a device has it; files and screens hold the frame that was asked for, turned as asked for and in the format that it is taken for, unless a driver has changed a format at which the program does not look; the decoder's cleanup closes what was opened (it is reached unless a name of the command line is freed), and so does an encoder that succeeds; no program waits for ever; `dmabuf-sharing.c` captures into no buffer that is on the screen or to come next, and goes on |

`CHECK_DEADLOCK FALSE` is given where the program really stops: after its end,
after an error, or, for the decoder, in the state that `decoder_shutdown` is
about. `buffer_queue`, `parsers`, `programs` and `encoder_eos` are checked for
deadlock, `parsers` and `programs` with the end of a program as an explicit stutter.

### Disagreements with the documentation

Each run with an expected violation ends in a behaviour of the code that a
comment or README in the repository denies.

- `decoder_shutdown`: `common.h:259` says that all threads finish when `finish`
  is set. The MFC thread sets it and leaves without a post to `todo`; a display
  thread that tested its loop condition before sleeps in `sem_wait`
  (`main.c:341`, 471) for ever, and so does `main`.
- `encoder_eos`: the encoder's README says that `-d` is the number of frames to
  encode. `v4l_deq_event` ends the out port as soon as `V4L2_EVENT_EOS` is seen,
  although encoded frames may still wait in the driver; `process_pair` takes one
  per round, so that they are lost.
- `direct_end`: `parser.h:84` says `parse` returns false if an error occurs; it
  also does at the last frame, which is then dropped, and the program ends as if
  by an error.
- `direct_setup`: `exynos_drm.h:203` says `init` returns false if an error
  occurs; when the blob of the mode cannot be created it deletes its flip handler
  and returns true.

### Bounds, and why they are enough

- `OutCnt = 2` is `STREAM_BUFFER_CNT` of `main.c:43`. Three pictures with a
  minimum of one or two are the fewest for which one is decoded to, one waits in
  the queue and one is shown; with four frames each picture buffer and each
  stream buffer is used again. `QueueSize` is the code's `MFC_MAX_CAP_BUF`.
- `MaxFaults = 1`: the code has no path that recovers from a first fault and is
  then exposed to a second one. Everything a first fault leaves behind is explored
  to its end.
- Encoder: more frames than buffers in either pair, so that rings and limits wrap
  around, and different numbers in the two pairs, so that either runs out first.
- `DrmDirect`: the two extra pages the code asks for, so that no page is free from
  the flip to a new one until the display has reported it, and `get_page` has to wait;
  with seven frames every page is decoded to again, the first index that is given
  late (`dest_buffers`) is used, and enough frames are left that the threads would be
  stuck on each other, were they to be, before the stream ends.
- Parsers: four units hold a header, two pictures and anything between or after
  them; the contents include zeros before start codes, codes of both lengths,
  bytes that only begin like a start code, and fields in other units.
- IVF files of up to four frames, with frames of no bytes and frames that are longer
  than what is left of the page.
- `decoder_display`: four pictures use each of two screen buffers twice; three
  tries are the fewest that tell the first, a middle and the last one; three copies
  are the code's `DRM_IPP_MAX_BUF`, so that events of one picture are left over for
  the next.
- `programs`: three shared buffers are one filled, one to be shown and one on the
  screen, and the program's minimum for a flip. Six rounds turn a picture through
  all rotations and on to the second again; seven pictures use each of three buffers
  of the HDMI example twice. Options are taken in every order up to three, for
  `parse_options` depends on the order; two formats are one that a program asks for
  and one that it does not, so that each queue of `v4l2-dbuf.c` may change the format
  it is given by the one before. Any number of calls may fail.

### Fairness

`DecoderThreads`: weak fairness of each thread, of `main` and of the MFC. A
thread blocked in `sem_wait` or DQBUF has no step that is enabled; when the post
or the buffer comes the step stays enabled, because each semaphore and each
queue has one waiter, so that weak fairness is what the scheduler and the kernel
give. `EncoderChain` and `DirectProgram` are fair to the steps of the program that
are not faults: nobody may rely on a failing call to get out of a blocking one.
The devices make progress on what they have. `DmabufSharing` is fair to main
and to the display but not to the video device, which need not deliver another
frame. In `DecoderDisplay` the thread, the devices and the vertical blank are
fair, but nobody need type and no call need fail. In `CallMachine` the program makes its next
call unless that waits, and a device that has work does it. No liveness property is stated for behaviours with faults beyond "or a
fault has occurred".

## Proofs

`BufferQueueProofs`, from `QueueAssumption` (a positive size, indices are
natural numbers, the free mutex has no thread's name):

- `RingConsistent`: types, mutual exclusion, `head = (tail + n) % Size`, and that
  what the first step of an operation saw still holds in its second. That is
  inductive as it stands; there is a lemma for each operation (`AddConsistent`,
  `RemoveConsistent`, `LookConsistent`).
- `RingImplementsFifo`: the refinement, for every size and set of threads. The
  queue is the `n` slots from `tail` on; the lemmas `ItemsKept`, `ItemsAdded` and
  `ItemsRemoved` say what each step does to it, and `AddIsAdd`, `RemoveIsRemove` and
  `EmptyIsEmpty` which step of an operation is the abstract one. A step that fills the slot
  without advancing `head` changes nothing abstractly, since the slot is not in
  use (`SlotsInUse`).

`DecoderThreadsProofs`, from `DecoderAssumption` (the buffer counts are positive,
REQBUFS grants what the decoder needs and no more than there are flags):

- `TypeCorrect`, then `Accounting`: the inductive invariant `IInv`, and from it
  `SemaphoresAreExact`, `FlagsAreExact`, `BuffersAreOwnedOnce` and `AlarmsAreTrue`.
- Why the strengthening: that "seriously wrong" cannot happen (`NoFalseAlarm`)
  needs that a thread that has passed `sem_wait` finds a free flag, which is the
  counting in `SemaphoresCountBuffers`; the counts survive a step only if the
  buffer in a thread's hand has the flag its position promises (`ThreadsHold`);
  that a buffer coming out of the driver is flagged for it needs `ExclusiveOwnership`
  for everything inside, and that a buffer leaves one place of the driver without
  staying in another needs `DriverDistinct`. `NoDisplayThread` is the degenerate
  case. `queue_add` never fails because the queue holds distinct buffers
  (`QueueHasRoom`), and that is what makes it right to ignore its result.

- `LineInvariant` adds the way of the frames. `line` is the seven places a frame can be
  in: the MFC's OUTPUT queue, its decoder, what is ready to be dequeued, the MFC thread's
  hand, the queue, the display thread's hand, and the frames shown. In each place numbers grow
  towards the end of the stream and whatever is further on is earlier (`InOrder`), none is
  higher than what was parsed (`UpTo`), and without faults every parsed one is somewhere
  (`Whole`). `ShownInOrder` alone is not inductive: it needs the order in all places
  before. Frames are carried by picture buffers, so that `Filled` says that a
  buffer holds the frame that the driver or thread that has it thinks it does; that nobody
  overwrites it is `IInv`. All steps that move a frame are one of two moves, `FirstMoved`
  (to the end of a later place with nothing in between) and `FirstDropped`. The header and the
  empty picture at the end have number 0 and go no further than one place.
- `FramesShownInOrder` follows, and `StepsOfPipeline`: until a call fails each step is one of
  `FramePipeline` or a stutter. That a frame is parsed only when there is room needs that
  the stream buffers in the driver are distinct and flagged (`OutBuffers`, `RoomToParse`),
  that it is decoded only when there is room that pictures under way sit in distinct buffers
  other than the new one (`RoomToDecode`), and that the next one shown is the next
  number that nothing is missing (`NextShown`). `ProgramIsPipeline` states it for
  `MaxFaults = 0`. The fairness of `ImplementsPipeline` stays with the run.
- `NobodyIsEverStuck`: no deadlock before the end of the stream. `Supplied` is the converse
  of the accounting, and holds until a call fails: a buffer flagged for the display is
  queued or in a thread's hand (`AtHand`), one flagged for the MFC is in its driver
  (`InDriver`), a stream buffer that is given away is there too (`OutThere`), a thread that
  has left had a reason, and a picture is asked for only with `CapMin` buffers queued.
  The argument goes round: a waiting display thread means that no buffer is the display's
  (`NoneOnDisplay`); then none is free and all are the MFC's, so that the MFC thread waits for a
  picture (`MfcThreadHasNoReason`); an MFC with no buffer to decode into then holds `CapMin`
  pictures and puts one out (`HeldWhenFull`); and one with a buffer waits for a frame, which the
  parser has the buffers to give (`ParserSupplies`). The assumption `CapMin > 0` is needed: a
  decoder that asked for no buffer at all would be asked for a picture while the display
  has every one. What comes after the end of the stream is another matter: see `decoder_shutdown`.

`DecoderDisplayProofs`, from `DisplayAssumption` (at least one try and one copy):

- `DisplayInvariant`: what each place of the thread says of the FIMC's queues and of what has
  been drawn (`Conversion`); with one buffer that it is the one on the screen (`OneBuffer`);
  with two and nothing disturbed, which of them the screen shows and that no event and no
  flip is left over when the thread takes the next picture (`TwoBuffers`).
- `FlippedBeforeDrawn`, `ShownWhenFreed` and `TakenWhileRead` follow.

`EncoderChainProofs`, from `ChainAssumption` (at least one frame and a buffer in each pair):

- `ChainInvariant`. `at` names the eight places a buffer can be in. Each buffer is in one of
  its own pair's (`PairsApart`); a port's state says whether its queues hold anything
  (`PortStates`); `nbufs` counts them (`Counts`); counters and limits of a pair's two
  sides differ by what is in between (`Limits`); the MFC's two sides start and stop together
  (`Streams`); and the frames are numbered without a gap from the file back to the source
  (`Line`). Each of them needs others: that a ready port has a buffer (`NeverBlocks`)
  needs the counts, the counts need that no buffer is in two places, and the numbering
  needs that a buffer's content is not overwritten on its way.
- A step moves one buffer (`Moving`), and what else may move is what the devices take back
  from a side that ends. The lemmas `InputTaken`, `OutputTaken`, `InputGivenBack` and
  `OutputGivenBack` say what the four steps of `process_pair` become when the called functions
  are expanded; the parts of the invariant are then proved from these.
- `ChainTypes`, `DequeuesWhatIsThere`, `StopsWithLastFrame`, `EndsWithEverything`,
  `BuffersStay` and `FramesStayInOrder`: every safety invariant of the run, and type
  correctness, which the refinement mapping in the run stands on.
- `DequeuesWhatIsThere` also says that until a call fails `poll`, which has no timeout, never waits
  for what cannot come any more (`PollReturns`). An MFC with input has a buffer to encode it into,
  for its output side then has all its buffers, none is ready, and the file holds none while `poll`
  is called (`BuffersAreThere`). An MFC without input holds pictures to give back or
  has the end of the stream to report: if neither, all the input buffers would be with a
  source that has ended, and the count of frames given back would have ended the input side
  (`InputLeft`).
- `EncoderIsPipeline`: the encoder implements `FramePipeline`, whatever call fails. The frames
  taken from the source are counted by its port, those encoded are the same less what waits
  for the MFC (`Encoded`), and that no more are between two stages than there are
  buffers is that the places of a pair hold distinct buffers of it (`BuffersFit`). A frame
  whose write failed counts as under way for ever while its buffer goes on, so that one frame
  more than buffers may be behind the MFC: `InFlight` says when, and the mapping of `CapCnt`
  allows for it.

`DirectProgramProofs`, about `DrmDirect`, from `DirectAssumption` (frames, source buffers and a minimum, and two
pages more than that, as `init` asks for):

- `DirectInvariant`: the MFC's indices are distinct and belong to pages (`Indices`), what the
  presentation thread holds where (`ThreadPage`), that a page has one owner, and a mark
  that says so (`OwnedOnce`), which page the last flip left on the screen (`LastFlip`), and
  the numbers of the frames from the screen back to the parser (`FramesInLine`). The mark
  is what `get_page` goes by; that it never hands out a page in use needs that every
  owner's page is marked.
- `PagesOwnedOnce` and `FramesShownInOrder` follow.
- `DirectIsPipeline`: decoding and presentation implement `FramePipeline`, whatever call
  fails. Everything is counted from the last frame decoded, which no variable holds: it is the
  highest number in a page (`Newest`), for a page with that frame is overwritten only by a later
  one. The frames in the MFC's queue follow it, and those before it have been shown, are under
  way to the screen, or are in the thread's hand (`FramesCounted`). There is room to
  queue another because the source buffers in the MFC are distinct and marked
  (`SourcesApart`, `RoomAtSource`), and to decode another because the pages with
  pictures under way are distinct and the one decoded to is not among them
  (`RoomForPictures`). `ProgramIsPipeline` says it of the whole program.
- `DirectNeverStuck`: until the program gives up, and unless a call has failed, somebody can
  go on (`NeverStuck`). When the thread waits in DQBUF the MFC has one page more than it needs
  (`PagesCounted`) and, since main waits for a source buffer that is busy, a frame to
  decode (`BusyAtMfc`). When the thread waits for a flip, to issue the next one or because no
  page is free, a flip is under way: `pageflip_pending` says so in the first case
  (`FlipComes`); in the second every page is used, a used page has an owner
  (`UsedByOwner`), and the MFC's pages and the one shown are fewer than all, which is where
  the *two* pages more than the minimum are needed (`NotAllWithMfc`). After an error
  nothing of this holds: main waits for a thread that may be asleep in DQBUF.
  `ProgramNeverStuck` says it of the whole program.

`DirectProgramProofs`, about the rest, from these and `SetupAssumption` and `ProgramAssumption` (the set-up
makes as many buffers and pages as the threads use, at least one each):

- `SetupInvariant`: a flag promises all the objects that its teardown releases and
  each of those objects has the flag to remind of it (`Promises`), pages come last
  (`PagesComeLast`), and the teardown proceeds from the last to the first
  (`TakenDown`). `FlagsMatch` and `TeardownComplete` follow.
- `ProgramIsSetup` and `ProgramIsDecoding`: the program is a behaviour of `DirectSetup` and
  of `DrmDirect`, whatever the other part does, so that the theorems about the parts hold of the
  program (`ProgramFlags`, `ProgramReleases`, `ProgramLeavesNothing`, `ProgramTypes`,
  `ProgramPages`, `ProgramShowsInOrder`).
- `PagesOutlive`: the page memory outlives the MFC's file and the last flip. It
  needs that no flip is under way outside the run and the teardown before
  `free_pages` (`FlipsEnd`), and that pages are there in between (`PagesThere`).

`DmabufSharingProofs`, from `SharingAssumption` (at least one buffer):

- `SharingInvariant`: a buffer is in one of the seven places it goes through, and until the
  program exits none is missing (`OneOwner`, `NothingTwice`); the screen shows the buffer of
  the last event or of a flip still asked for, and what comes next is the newest (`Shown`);
  neither is with the camera (`NotCaptured`). The last is what matters, and it is not
  inductive without the second: the event of a flip gives back the buffer shown *before*
  it, and one has to know which that is.
- `SharedBuffersOwnedOnce` follows.

`ParsersProofs`, from `UnitsAssumption` (units are bytes), `LeftoversAssumption` (the
constructor of a parser clears its flags) and `LeftoversClean` (the rest of a new parser is zero
where it matters: `LeftoversClean` is a hypothesis of the theorems, and holds of the memory
the run starts from):

- `ParsersInvariant`. In a state other than the first the automaton has read the
  beginning of a start code, and the state says how many bytes of it (`StartCode`): two to
  five when the tag is found. What the counters can be follows from the flags
  (`Counting`), so that a frame ends only at a tag, and only when it has begun. What
  was saved is what the stream has there (`SavedHere`). That the saved bytes fit,
  `SavedBytesFit`, is not inductive without the first; and the first needs that a call that
  stopped inside a start code stopped at the end of the stream, for the position is
  counted anew in each call.
- The three automata are run through state by state (`H264ByteRead`, `Mpeg2ByteRead`,
  `Mpeg4ByteRead`); the marking of frames, which is the same for all, uses of them only that
  a byte completes a tag or does not (`ByteRead`, `NothingFound`, `TagMarked`).
- `SavedFits`, and `NothingLost`: each frame that is returned is the stream from
  where it began to where the next one begins (`FramesAdjoin`). That the frames are the
  *units* of the stream (`FramesAreUnits`, `FramesFromTheStart`) cannot be proved
  here: what the automaton finds in a unit is an induction over its bytes.

Only model-checked:

- everything about liveness (`ThreadsFinish`, the fairness of `ImplementsPipeline`,
  `Terminates`, `StreamIsFed`, `TakenIsFreed`, `Finishes`, `CaptureGoesOn`), which is out of
  the prover's reach;
- that the parsers' frames are those of the stream (`ExampleParses`, `DirectParses`), which are
  defined by induction over the stream;
- the programs of `CallMachine` (`ProgramsTypeOK`, `CallsAreLegal`, `TouchedWhenFree`,
  `ResultsAreRight`, `DevicesAreClosed`): these are finite sequences with finitely many options, of
  which a run visits all, and nothing is left to generalise but the bounds of their loops.

## What is not modelled

Of the threaded decoder:

- A frame that is larger than its stream buffer. Streams whose MPEG-4 header
  contains the bytes of a short header are left out: for those `parser.c:75` takes
  later ones for pictures.
- A frame buffer and DRM together (`-d -D`): the code then flips both.
- `drm.c:158` fills three elements of arrays of `MAX_BUFS`, which is two: what lies
  behind `gem`, `fb` and `dbuf` in `struct instance` is overwritten.
- That the picture of the IPP is given back while the IPP may still read it
  (`ipp.c:202`): the model has it, and no property forbids it.
- `drm.fd` is closed a second time (`ipp.c:231`, `drm.c:250`), which has no effect
  as long as nothing is opened in between.

Of the encoder: its arguments (`-b`, which README.txt:136 lists, is refused by
`parse_args`); the values of formats and controls, in particular that the camera may
take another format than the MFC's (`v4l_dev.c:267` sets it and does not look);
a camera that is granted more buffers than the MFC (`v4l_dev.c:341`); short writes of
the file.

Of `v4l2-mfc-drm-direct`:

- Which connector, mode, plane and property is chosen; the overlay text, which is
  drawn once.
- `link()` calls `reset()` before the flag that makes it work is set, so that a
  parser starts from whatever its memory holds. The run starts from zeroed
  memory, as an allocator that hands out fresh memory does. A reset leaves the
  parser's flags alone, after which the first frame of an H.263 file is empty;
  `main` only ever makes an H.264 parser, and the run leaves H.263 files out.
- A wait for a flip that fails is an interrupted one. File descriptors exported by
  `queue_dest` (`mfc.cpp:515`) are not counted; nobody closes them. A page that
  `get_page` does not have (`main.cpp:144`), because the driver granted fewer
  buffers than asked for, is a null pointer; the model grants what is asked.
  `main.cpp:193` joins a thread that may wait for a picture that never comes; no
  document says that it must not.
- The input buffers of main are destroyed after the device they belong to
  (`exynos_drm.h:34`), which `ReleasedOnce` excludes by its condition `step # "exit"`;
  framebuffers are never removed, because `drmModeRmFB` gets a framebuffer where it
  expects the device, and `NothingLeft` says so; a failing `restore_request` is freed
  without having been written, after which `ReleasedOnce` claims nothing.

Of the smaller samples: pixels. `dump_yuyv` (`v4l2-dbuf.c:232`) reads twice the
memory of a picture, the mem-to-mem example copies beyond a file that is shorter
than a picture, and the HDMI example uses a `v4l2_buffer` of which not all members
are set; where that may end the program the model has the outcome "crash", and
otherwise it is as if the memory had been right. What a driver does that grants fewer
buffers than asked for is left out. A driver may answer S_FMT with another format;
what comes of it is modelled, and `ResultsAreRight` claims nothing where the program
does not look (`ChangedUnnoticed`): `fimc-m2m-f02.c:268` updates the size and not the
format, and the frame buffer then shows a picture of another format; `main.c:77` of the
HDMI example says that it can draw in one format only; `v4l2-dbuf.c:410` and 474 print
the format of the OUTPUT queue and leave the source in the one it has; `test-jpeg.c:449`
copies the file into the buffer as it is.

## Plan

What is left, in this order:

1. Proofs: `TouchedWhenFree` for the programs whose calls come in rounds.
2. `DecoderDisplay` as a refinement of the step from "process" to "free" of
   `DecoderThreads`, with the other steps stuttering.

