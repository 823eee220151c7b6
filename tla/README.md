# A TLA+ model of esp-idf-video-snapshot

The firmware takes a still picture from a USB camera when a trigger fires,
stores it on SPIFFS, posts it (HTTP, MQTT or not at all) and shows it on a
built-in web page. It is a handful of FreeRTOS tasks that share three queues, a
ring buffer, two notification words, one file and one frame buffer. The modules
in this directory model those tasks, the start-up before them and the JPEG encoder
they use; TLC checks them on small instances, and TLAPS proves the safety
properties for all values of the constants.

## The system

| Component | Source | State it keeps | Operations |
| --- | --- | --- | --- |
| USB camera task | `usb_camera.c` | event group, open device, stream and its frame buffer, retry count | wait for a device, open, negotiate (with retries), start the stream, poll one frame per notification, close on disconnection, give up |
| Main task | `main.c:565-624`, `camera_capture` | step of the loop, `_jpg_buf`, `pictureSize` | receive a command, delete the file, clear the ring, notify the camera, receive and convert the frame, write the file, check its size, send a request, wait for the answer, announce |
| HTTP POST task | `http_post.c` | request, socket, upload | stat, connect, header, chunks, end mark, reply, notify |
| MQTT POST task | `mqtt_pub.c` | connected bit, request | wait for the broker, read and publish, notify |
| Web server | `http_server.c` | `localFileName`, page being built | receive an announcement, root page, HTTP shutter |
| Shutter tasks | `keyboard.c`, `gpio.c`, `tcp_server.c`, `udp_server.c`, `mqtt_sub.c` | connection, button level, last MQTT event | wait for an input, send `CMD_TAKE` |
| Kernel objects | `main.c:476-486`, `cmd.h` | queues of 1, 10 and 1 item, a 100000-byte ring buffer | send, receive, return, notify |
| Start-up | `main.c:144-537` | Wi-Fi event group, retry count | connect and retry, mDNS, SNTP, mount SPIFFS, create the tasks, reboot |
| Conversions | `components/conversions` | quantisation tables of the last quality | frame to JPEG, line by line; JPEG to BMP (never called) |
| Host scripts | `*.py` | none | senders and viewers on a PC |

How the components interact:

```
 shutters --xQueueCmd(1)--> main --notification--> usb_camera
                            main <---xRingbuffer--- usb_camera   (header only: data by reference)
                            main --xQueueRequest(1)--> POST task (file lent by name)
                            main <---notification----- POST task
                            main --xQueueHttp(10)--> http_task --localFileName--> root page
                            main --writes--> /spiffs/picture.jpg <--reads-- POST task, root page
```

What is hard in this code, each listed with its line under "hazards" in
`PROJECT.json`:

- the hand-shake between main and the POST task is a notification that carries
  the value 0 (`mqtt_pub.c:141`), and many error paths skip it;
- a frame travels by reference: only the header is copied into the ring buffer
  (`usb_camera.c:304`), the data stays in a buffer that the next poll
  overwrites and that closing the device frees;
- the picture file is shared by its name between three tasks without a lock;
- a chunk the HTTP POST task fails to write closes the socket and not the loop:
  the rest of the file goes to a number that may be another connection's by then
  (`http_post.c:151-155`);
- the camera may be unplugged between any two steps;
- one word, `event_id`, carries MQTT events from the client's task to the
  shutter's;
- queues of one slot, and a byte ring whose items must be returned;
- during start-up the driver's events arrive in another task while main takes
  the handler and its event group apart, and two bits race for main's attention;
- the encoder cuts code words into bytes, stuffs, flushes in the middle of a
  block, pads frames to whole MCUs and writes into a buffer of fixed size.

What makes each component correct: one frame per trigger and never an
overwritten one (camera and main); a size check that only lets whole pictures
pass (main); a file that does not change while lent, and an answer that always
comes (main and POST task); an upload or a message that is the file as
far as it got (POST tasks); pages that
show whole pictures of the length they were announced with (web server); no more
commands than requests, and answered clients (shutters); a verdict on the network
that is final, and a boot that completes (start-up); a file that a decoder reads
as the frame, and no leaks (conversions).

## Modules

| Module | Models | Remarks |
| --- | --- | --- |
| `FreeRTOS` | the kernel primitives | external; notification = counter and state, queue = bounded sequence, byte-buffer ring = items queued and items handed out |
| `SharedObjects` | `main.c:476-486`, the file, the frame buffer | constants with their assumptions, shared variables |
| `UsbCamera` | `usb_camera.c:154-319`, the adapter callback | one action per libuvc call; `Plug`, `Unplug` are the user |
| `MainTask` | `main.c:565-624` with `camera_capture` inlined | one action per blocking call or file operation |
| `HttpPost` | `http_post.c:36-208` | one chunk per step; the eight `continue`s that return to the queue are `GiveUp`, the ninth (`:155`) is `SendChunkFails`, after which the loop goes on with `open` false |
| `MqttPub` | `mqtt_pub.c:29-149` | the broker's connection comes and goes; opening the file and reading it are two steps |
| `HttpServer` | `http_server.c:44-142`, `:224-247` | root page as stat, open, one step per chunk, encode, reply |
| `Shutter` | the effect of any shutter on the command queue | used in `Snapshot` |
| `Snapshot` | all of the above together, panics and reboots | the core composition, its properties and its fairness |
| `Rendezvous` | nothing in the code: the protocol of lending a document | abstract specification, implemented by `Snapshot` |
| `Triggers`, `Button`, `TcpServer`, `MqttSub` | the six shutters in detail | `asked` counts requests the shutter has not reacted to |
| `ShutterTasks` | the shutter a build selects, with main taking commands | composition |
| `Boot` | `main.c:144-273`, `:289-355`, `:439-537` | app_main, the event loop with `event_handler`, the Wi-Fi driver (external), reboots |
| `JpegTables` | `jpge.cpp:45-69`, `:151-184`, `:554-566` | Huffman and quantisation tables, `compute_huffman_table` |
| `Jpge` | `jpge.cpp`, `yuv.c`, `to_jpg.cpp` | pixels, DCT, quantisation and code words as operators |
| `JpegEncoder` | `to_jpg.cpp:91-223`, `jpge.cpp:186-694` | `fmt2jpg` and the encoder as a state machine: one scanline per step |
| `JpegReference` | nothing in the code: the JPEG file format | a decoder and a plain cosine transform, written from the format |
| `SnapshotProofs`, `HandoverProofs`, `BootProofs`, `ShutterProofs`, `JpgeProofs`, `JpegProofs`, `DecoderProofs`, `PictureProofs` | theorems | see below; the last four each extend the one before |
| `MCSnapshot`, `MCShutterTasks`, `MCJpeg` | constants for TLC | |

Program counters are strings named for the next step (`camPc`, `mainPc`,
`postPc`, `mqttPc`, `pagePc`, ...); the other variables keep the names of the
code where it has one. A picture is a model value with a length in 128-byte
chunks (`PicSize`); a file is whose picture it holds and how many chunks;
`Garbage` stands for freed or uninitialised memory. What the environment may do
wrong in an instance is the constant `Faults`: `"unplug"`, `"descriptor"`
(unsupported format first), `"stream"` (a libuvc call fails), `"encode"`,
`"fopen"` (or malloc), `"diskfull"`, `"net"`, `"broker"`.

In `Snapshot` a failed assertion (`UsbCamera!AssertFails`) and `feof(NULL)` after
a failed `fopen` set `panicked`; `Reboot` then restarts everything but the file and
the plug of the camera.
`Boot` models what lies between such a restart and the tasks: its place `"run"`
is where `Init` and `Reboot` of `Snapshot` begin. The two are separate modules
because no variable of one is read by the other. The assertion of the UDP
shutter (`udp_server.c:71`) is `Triggers!UdpAssertFails`: the command queue and
what waits to be received are lost with the chip's memory.

## Runs

Passing runs:

| Run | Question | States |
| --- | --- | --- |
| `plain` | one frame per trigger, intact, under all faults of camera, encoder and disk | 1.5 million |
| `http` | the file offered is whole, has room in the queue and is not changed while lent; an upload that reaches its reply has delivered the file's beginning, all of it if no write failed; however the network fails, the POST task is done with the file some day; refinement of `Rendezvous` | 5 thousand |
| `mqtt` | the message published is the file; once the broker has been reached for the first time, the task is done with every request some day, connected or not; refinement | 10 thousand |
| `serve` | without posting and without faults, a trigger that main receives ends in an announced picture; a page is as long as its image was encoded; once main is quiet, the pages become right and stay right | 8 thousand |
| `shutters` | all six shutters: no unasked command, every TCP client answered, every MQTT message served unless overtaken | 6 thousand |
| `boot` | the handler never runs without its event group; a reported failure is final; a network that stays up gets the chip to its tasks, whatever it did before | 10 thousand |
| `jpeg` | a decoder finds in the file the frame that was converted, for every pixel format; a buffer too small keeps the beginning; no marker appears in the scan; a failed conversion leaks nothing | 1 thousand |

`boot` checks the module `Boot` itself, which has one constant. In `jpeg` the
states are few and large: each holds the encoder's buffers, and
`PictureShowsFrame` decodes the finished file and compares every coefficient
with the transform of the frame. All frames of the run have quality 60, the only
one the program asks for (`main.c:106`); the theorem covers every quality.

`LoanEnds` says that the POST task finishes or gives up, and no more. Main does
not hear of an upload that was given up and takes no further picture: that is
what `no_view` shows. With MQTT the property has a premise, `BrokerReached`:
`mqtt_pub.c:103` waits for the first connection without a timeout, so with a
broker that never answers the request stays queued and main asleep behind it.

`TriggerServed` begins with a command in the queue. A trigger that finds the
queue full is dropped (its shutter at most logs what `xQueueSend` returned)
and no property promises it a picture. To `NoCommandUnasked` a release of the
button is a request, whether the user let go or the contacts bounced.
`FailIsFinal` rests on an assumption about ESP-IDF's driver, stated in `Boot` at
`GetsAddress`: GOT_IP is not posted behind the STA_DISCONNECTED of the same
connection. With DHCP lwIP's task posts the address, and it may also be static
(`main.c:175-209`); the order in which the two events are posted is not the
program's to choose.

Runs that show a disagreement between the code and what the repository says of
it ("findings" in `PROJECT.json`):

- `lost_answer`: the answer of the POST task is lost when main has not yet gone
  to sleep (`mqtt_pub.c:140-141`, `main.c:610-613`).
- `no_view`: an error in the HTTP POST task leaves main asleep for ever; the
  picture never reaches the web page (`http_post.c:90` and seven more places).
- `replug`: a camera unplugged during a poll or a negotiation is never served
  again (`usb_camera.c:297`, `README.md:10` of the repository).
- `torn_page`: the root page mixes two pictures when a trigger arrives while it
  is built (`http_server.c:78`).
- `twice`: one MQTT message may trigger two pictures (`mqtt_sub.c:119-128`).

Three more places were met on the way and have no run of their own. A negotiation
that succeeds at the last retry is refused, because the count is tested before
the answer (`usb_camera.c:259`, in `AfterRetry`). A frame of an unknown format,
or one that cannot be converted, is received and never returned to the ring
buffer (`main.c:110`, `:117`, in `AfterReceive` and `EncodeFails`): no later
frame can be received, and main waits for one for ever. An upload that broke off
at a chunk may still come to its reply and its notification
(`http_post.c:151-167`, `:202`, in `SendChunkFails` and `SendEnd`): lwIP may have
given the number of the closed socket to a connection of the web server, and what
is written to it succeeds. Main then announces the picture as after any upload.

Where a cfg says `CHECK_DEADLOCK FALSE` the program really may stop for good:
main asleep behind a POST task that gave up (`http`, `no_view`), or the
MQTT shutter ended by an error (`shutters`, `twice`).

### Bounds

- Two pictures of one and two chunks: enough to tell a torn file, a wrong
  length and a stale picture apart.
- `MaxRetry` is 2 (10 in the code): a retry that is not the last, and the last.
- `HttpQueueLen` is 1 (10 in the code): both the free and the full queue occur.
  The queues of commands and requests have their real capacity, 1.
- `RingCap` is 2 frames: the real buffer takes many headers, but at most one
  frame is ever in flight, plus one that was never returned.
- `Junk` is {7}, a size no picture has; an uninitialised `pictureSize` that
  happens to match cannot pass for a wrong file since the file is absent then.
- `MaxAsked` is 2 and there are three TCP clients: one accepted, one in the
  backlog, one that has to come back.
- `MaximumRetry` is 3: a first, a middle and a last retry. `Boot` has no other
  bound: a station that has no further retry stays idle, so at most two events
  are ever posted and not handled.
- `jpeg`: widths 2 and 18 and heights 16 and 18 give a picture smaller than an
  MCU, one that ends with it and one that goes on two pixels into the next;
  `OutBufSize` is the code's 512, `JpgBufLen` is 768 so that some pictures fit
  and some do not (131072 in the code); three contents: a ramp, edges that make
  large coefficients, a fine grid that makes runs of zeros and long blocks.

### Fairness

`FairSpec` of `Snapshot` assumes weak fairness of each task. The priorities are not
all the same: `main.c` creates the tasks with priority 2, libuvc's background task
has 5 (`usb_camera.c:168`), and main runs in the task ESP-IDF made for it. But each
task blocks when it has nothing to do, in a queue, a notification, a delay or a
socket, so none keeps a ready task of a lower priority from running for ever. It
further assumes that a panic ends in a reboot (ESP-IDF's default, which the
project's `sdkconfig.defaults` keeps) and that the user plugs a camera in at some
time (`README.md:204` of the repository). It does not assume that the broker is
ever reached, that a trigger fires, that a browser asks for a
page, or anything about faults. `FairSpec` of `ShutterTasks` assumes the
shutter's task, the MQTT client's handler, and clients that send after
connecting and close after the reply, as `tcp_send.py` does; it does not assume
that main takes a command. `FairSpec` of `Boot` assumes that app_main, the
event loop's task and the driver run when they can, and strong fairness of
`TimeArrives`: the time server answers faster than main takes for ten looks two
seconds apart. It assumes nothing of the access point; that it stays reachable
from some moment on is the premise of `BootCompletes`.

## Proofs

All theorems hold for every value of the constants that satisfies the named
assumptions of its module (`SharedObjects`, `HttpServer`, `Triggers`,
`TcpServer`, `ShutterTasks`, `Boot`, `JpegEncoder`); tlapm checks every leaf.

- `SnapshotProofs!TypeCorrect`: `Spec => []TypeOK`. Typing is not inductive on
  its own; `TypeInv` adds that the frame being sent is a picture, that main has
  a frame in hand between receive and return, and that a retry is still allowed
  while retrying.
- `SnapshotProofs!OneFramePerTrigger` and `FrameSafe`: the inductive invariant
  `CaptureInv` says, case by case, where the one frame of a trigger is
  (`FlightInv`: asked for, being polled, or queued, and main waiting) and that
  the frame buffer still holds what the queued or the received header points to
  (`BufferInv`). The second part needs the first: the camera may poll only when
  no frame is queued and main holds none.
- `HandoverProofs!OfferFindsRoom`, `LentFileUntouched`, `LoanRefinement`: the
  inductive invariant `HandoverInv` ties main's place in its loop to the request
  queue and the POST tasks: while the file is on loan, main waits for the answer
  and has not been notified. From it follow the room in the queue, that no
  writer of the file is enabled during a loan, and, step by step, that the
  program implements `Rendezvous` under the mapping `LoanPhase`.

- `HandoverProofs!UploadWhole` and `MessageWhole`: `UploadInv` and `MessageInv` say
  for each step of the POST task how much of the file it has declared, read and
  sent. While the server's connection is open, as much was sent as was read; once
  a failed write has closed it, at least one chunk read was not sent, and nothing
  is sent to the server any more. So an upload that reaches its reply has
  delivered all of the file or, if it broke off, a beginning that is shorter than
  declared. The invariants are preserved because, by `HandoverInv`, no writer of the file is enabled
  while it is lent, and the size of the request is the file's length because main
  has just checked it. `CheckedFileWhole`, for instances without `"unplug"`:
  while the camera stays (`PluggedInv`) its session never dies and the frame
  buffer is never freed, so that the frame main holds, the encoder's copy and
  the file are one picture (`PictureInv`); what the size check lets pass is all
  of it. With unplugging it does not hold: `uvc_close` frees what main reads.
- `HandoverProofs!PageTextWhole`: `calcBase64EncodedSize` and the encoder's own
  length agree for every number of bytes, by cases on the remainder modulo 3,
  so that the text in hand always has the length computed before the read.
- `BootProofs!BootTypes`, `HandlerKeepsGroup`, `FailIsGivenUp`: the invariant
  `BootInv` follows the events from the driver to the handler. For each state
  of the station it lists what may be posted or being handled; a station that is
  idle with nothing posted has either not been started or has used up all its
  retries, which is when `FAIL` is set; that an event of a lost connection does not follow
  its loss is the assumption at `GetsAddress`. The order of the unregistrations, and
  that the loop's lock is taken for each, gives `HandlerKeepsGroup`.
- `ShutterProofs!ShutterTypes`, `CommandsAreAsked`: `asked` is accounted for.
  For the TCP shutter it is the number of clients whose message the server has
  not read, plus one while the server has read one and not replied
  (`ClientInv`, with the cardinality of a set that gains or loses one client);
  for the button it is 1 whenever the task has seen a release it has not
  answered (`ButtonInv`); the shutters of one line take from it only what is
  there.
- `JpgeProofs`, the operators of the encoder. `CodesAreDecodable`: what
  `compute_huffman_table` makes of the tables of `jpge.cpp` are codes of 1 to 16
  bits, none all ones and none the beginning of another. The argument counts: a
  code of n bits stands for 2^(16-n) words of 16 bits, the codes take these in
  increasing order without overlap, and the tables leave the last one free.
  `TransformIsExact`: the casts to 16 bits in `DCT_MUL` change nothing, because
  samples have 8 bits and the columns start from at most 13 bits.
  `TransformRange`: no coefficient leaves 11 bits, so that
  (`BlockCoded`) every lookup of `code_coefficients_pass_two` finds a code.
- `JpegProofs`, the conversion as a state machine, by the inductive invariant
  `StateInv`. Of the encoder's object it says (`Encoder`) that the bits in
  `m_bit_buffer` are the highest of its 24 (`HoldsBits`), that the last DC values
  are coefficients, and that the stream and `m_out_buf` together are what has
  been emitted (`Written`). The last is what `BeginningKept` lacks to be
  inductive: a flush moves `m_out_buf` behind the stream, so its contents matter
  as well as its length. `TypesKept` and `StreamIsBeginning` follow.
- `JpegProofs!WordsAreWritten`: `put_bits` drops no bit of a code word and adds
  none. `Carried(e, bits, new)` says that the bits waiting in `e` followed by
  `bits` are the bits of the bytes emitted since, before stuffing, followed by the
  bits waiting in `new`. It holds of one word by cutting the buffer into bytes and
  of a sequence of words by induction.
- `JpegProofs!ScanHasNoMarker`: before the end the emitted bytes are the header
  and a scan without a marker (`Scanning`), and at the end the EOI besides
  (`Ended`). Stuffing keeps that for whatever bytes a block makes.
- `JpegProofs!NothingLeaks`: at each step of a conversion the blocks allocated
  are those of that step, for every format, size and quality.

- `PictureProofs!PictureIsFrame`: `Spec => []PictureShowsFrame`, for frames of
  every kind, size, content and quality. The run compares a few small frames with
  what a decoder finds in their files; the proof follows the data through the
  encoder and back. The invariant (`PictureInv`, on top of `StateInv`) says of a
  conversion under way that for some number R of rows of MCUs the lines that came
  after them wait in `mcuLines` (`LinesOf`) and that the blocks of these rows, as
  the frame shows them, and no others have been coded (`RowsCoded`); of a finished
  one that header, scan and EOI make up the file and that the words of all blocks
  of the frame fill the scan but for less than a byte (`IsPicture`).
  `PictureShowsFrame` alone speaks of finished pictures only, so it says nothing
  of how one comes about. It rests on four results, each of interest by itself:
  - the words of a block are read back as its coefficients, wherever they begin,
    and so are the blocks of a scan, one predicted from the other
    (`DecoderProofs!BlockReadBack`, `BlocksReadBack`); this needs that the codes
    are prefix-free, that runs of zeros longer than 15 and the end of the block
    are told from values, and the sign rule of the difference;
  - stuffing is undone by dropping what follows 0xFF (`UnstuffedBack`);
  - a decoder that goes from segment to segment by their lengths finds each one,
    rebuilds from DHT the very code books the encoder codes with (`BookRebuilt`
    and `CodesOfTable`), and so reads the whole file back (`FileReadBack`);
  - the encoder's integer transform differs from the reference by at most one
    (`TransformIsClose`: a bound on what each of the two rounds off, row by row and
    column by column), so that a coefficient times its step is within half a step
    and that one of what the frame shows (`BlockShowsSamples`).

  Where a block lies is arithmetic on its number (`RowShown`): its MCU, its turn in
  it, the rows and columns it covers, the last of them continued to the edge of the
  MCUs, as `load_mcu` and `process_end_of_image` fill the unused lines.

The loops of the encoder are recursive functions, so these proofs need what the
library states only with operators as parameters: that such a function exists,
and that an invariant holds of each of its values. `JpgeProofs` proves both for
functions on 0..n (`LoopExists`, `LoopInvariant`), by taking the least element of
the set of counterexamples (`LeastElement`, from the well-foundedness of `<` on
the naturals), and the same for `FlattenSeq` of the community modules
(`FlattenSeqLoop`).

The conjunct of `TypeOK` on `m_bit_buffer`, that it is a multiple of
2^(24 - `m_bits_in`), is why the model may add a word to the buffer where
`put_bits` combines them with `|`: the bits below those counted are zero, and
the new word goes there.

A decoder's loops are recursive functions too (`JpegReference` declares no
`RECURSIVE` operator), and the same lemmas serve for them.

What `PictureIsFrame` takes as given is the reference itself: that
`JpegReference!Decoded` is what the file format says, and that `Transform` is
the cosine transform. `Transform` works with
cosines rounded to 12 bits and is an integer like the encoder's coefficients;
`Rounding` is therefore 1.

Only model-checked: the liveness properties (`TriggerServed`, `LoanEnds`,
`PagesSettle`, `ClientAnswered`, `LastEventServed`, `BootCompletes`), which rest
on fairness, out of the prover's reach. Every invariant of a passing run is proved.

## Not modelled

- Of start-up: `initialise_mdns`, the static address, and `convert_mdns_host`
  and `query_mdns_host`, with which the posting tasks look a name up once. They
  keep no state of the program.
- Of the conversions: JPEG to BMP (`to_bmp.c`, `esp_jpg_decode.c`) and
  `fmt2jpg_cb`, which nothing calls; the subsamplings `H1V1` and `H2V1` and the
  two-pass mode, which `convert_image` never selects; frames of odd width
  (`Kconfig.projbuild` offers none) and frames shorter than their size says.
- In `Snapshot` a conversion is the one step `Encode`; `JpegEncoder` is that
  step in detail. They are not composed: a picture there is a model value.
- The heap outside the encoder: allocation failures are faults, leaks (of
  `image_buffer`, `http_server.c:75`) are not counted.
- The ring buffer in bytes. Only headers of one size are sent; whether one can
  wrap around the end of the storage depends on libuvc's declaration of them.
- The loss of the access point after start-up, but for its effect: the posting
  tasks' calls fail (`"net"`, `"broker"`).
- Task priorities and ticks: every interleaving of the tasks' steps is allowed,
  which includes those of two cores.
- What a stray chunk, a stray end mark or the second `close` does to the connection
  that owns the number by then (`http_post.c:151-163`): the pages of `HttpServer`
  are not disturbed by it.
- The reply of the web server in bytes. `response[256]` is filled by `strcat`
  without a bound (`http_post.c:183`, `:195`), so a reply of more than 255 bytes
  writes past its end; `ReadReply` is the step whatever was read. Likewise
  the bytes of a datagram (`buffer[64]`, `udp_server.c:63`, `:74`) or of a TCP message.
- Failures of the storage that pass: `storage` of `Boot` stays as it is across
  reboots, and `nvs_flash_init` and `esp_vfs_spiffs_register` either fail each
  time or never, whatever the error.
- Between `fwrite` and `fclose` of the picture (`main.c:123-128`): they are one
  step, `WriteFile`; the truncation by `fopen` is a step of its own.
- `usb_lib_handler_task` and FreeRTOS, libuvc, lwIP, esp-mqtt internals.
- The contents of messages, headers and pages.

## Plan

Done: the core (`Snapshot` and what it extends) with its abstract specification
`Rendezvous`, the shutters, start-up, the encoder, and the theorems above, among
them every invariant of a passing run.

Left, in this order:

1. a full disk while browsers visit: main rejects the short file (`main.c:590`)
   and leaves it under the name the root page opens; a run of `Snapshot` with
   `"diskfull"` and `Visits`, and an abstract specification of what a page shows;
2. an abstract specification of a shutter, implemented by each of them, with the
   refinement proved;
3. frames of odd width, which `yuv.c` reads and writes one pixel beyond their end
   and which no setting asks for.
