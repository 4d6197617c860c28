# Verification of luma-core

luma-core speaks to a pair of smart glasses. Its core is sans-IO: bytes go in,
events and request bytes come out, and no part of it owns a socket or a clock.
Optional clients drive the core over Bluetooth LE and over the glasses' own
Wi-Fi. This directory holds TLA+ models of the crate, the TLC runs that check
them on small instances, and proofs of the properties that matter most for every
value of the constants.

    tlc -config RtspSession.cfg RtspSession      one run: its cfg, its module
    tlapm RtspSession_proof.tla                  the proofs of one module

`PROJECT.json` lists the runs, the source lines behind every definition, the
hazards and the theorems.

## 1. Inventory

### Parts, state, operations

| Part | Source | State it keeps | Operations that change it |
|---|---|---|---|
| Control framing (`AC 55`, characteristic AA14) | `src/frame.rs` | byte buffer | `push_detailed`, `reset` |
| File framing (`52 58`, AA15) | `src/reassembly.rs` | byte buffer | `push`, `reset` |
| File reassembly | `src/reassembly.rs` | the open transfer: declared size, type, bytes, delivered spans | header 0x97, data 0x98, end 0x99, `reset` |
| Control parser | `src/parser.rs` | a deframer and the voice machine | `feed`, `close_voice`, `reset` |
| Switch accumulator | `SwitchStates` in `src/parser.rs` | ten optional settings | `ingest`, `reset` |
| Voice capture machine | `src/voice.rs` | capturing, packet count | 0x97, 0x46, 0x99, 0x49, `close_voice`, `reset` |
| BLE client | `src/client/ble.rs` | broadcast channel, pump task (a Parser and a reassembler), one loop per call | `handshake`, `take_photo`, `voice_capture`, `open_wifi`, single writes |
| RTSP session | `src/rtsp.rs` | state, CSeq, outstanding request, session id, description, buffer | `next_request`, `pending_request`, `feed`, `teardown`, `close` |
| RTP and H.264 | `src/rtp.rs`, `src/h264.rs` | sequence window and counters; open fragment, open access unit | `observe`, `push`, `flush`, `reset` |
| AAC | `src/aac.rs` | widths, counters | `push` |
| Wi-Fi file client | `src/client/fileapi.rs` | none of its own; files on the glasses and on disk | `download_to_dir`, `delete`, `sync_all` |
| Readers | `src/sdp.rs`, `src/fileapi.rs`, `OpusToc` in `src/voice.rs`, `src/client/opus.rs` | the decoder's; else functions of one input | parse, plan, decode, write WAV |
| Tables and builders | `src/opcodes.rs`, `commands.rs`, `gatt.rs`, `timing.rs` | none | none |
| Bindings | `src/ffi.rs` | a mutex around each core object | the core's, through conversions |
| Programs | `examples/`, `python/`, `ios/` | the recording, the gallery on disk, stored settings | |

### How they interact

A notification reaches the pump task, which pushes it through the Parser (AA14)
or the FileReassembler (AA15) and sends every event to a tokio broadcast channel
of 1024 events. A client call subscribes first, writes one or more frames with
response, and then waits on its receiver under a timeout. Nothing but the
channel connects the two sides: a call cannot reach the pump's Parser or its
reassembler. An app over the bindings has no pump: it owns a GlassesParser (a
Parser and a SwitchStates) and feeds it. The RTSP session has no task at all; its
caller writes what `pending_request` returns, reads the socket and calls `feed`.
The description it was answered with configures the AAC depacketizer, and the
media loop gives each datagram to a tracker and a depacketizer. `open_wifi` raises
the access point behind which the file client lists, downloads and deletes.

### What is hard here, and what makes each part correct

* **Framing.** Frames cut at any byte, junk, broken lengths and checksums. Every
  undamaged frame must come out once, in order, as soon as it is complete, and
  no length may block the channel.
* **File reassembly.** Chunks lost, repeated, overlapping, out of order; a new
  header in the middle; a span vector with a cap. A file handed over must be
  genuine in every byte, and received bytes must not vanish unreported.
* **Parser and settings.** Settings arrive in bursts, echoes and pushes, some of
  them senseless, some lost; then another pair of glasses connects. "Synced"
  must mean synced, and nothing senseless may be written back.
* **Voice.** The start frame may be lost and the end frame never comes. A caller
  must know from the events alone whether a capture is open.
* **Client calls.** Timers race events, the receiver may lag, the link may drop
  at any point, a write may fail after the device saw it, and a call that gave
  up leaves the device and the pump in the middle of something. A call must
  return, in time, with its own answer, and leave no microphone open.
* **RTSP.** Any method at any time, replies split or batched, a server that
  refuses or misbehaves. No PLAY without a session, no event lost, and no wait
  for an answer nobody will send.
* **Live media.** UDP loses, copies and reorders; numbers wrap. Loss counters
  must be exact, an access unit never a mixture, damage never silent.
* **Gallery.** Download, write and delete of each file may fail or be cut short
  in between. A picture may leave the glasses only when it is on disk.
* **Readers.** Texts cut short, damaged, with fields in another order; bit widths
  and durations that are one off. Truncated must be told from wrong, and what is
  read must be what was sent.

## 2. The modules

| Module | Models | Kind |
|---|---|---|
| `FileDelivery` | what a caller of the file channel is promised | abstract specification |
| `FileReassembler` | `FileReassembler` and `Transfer` after framing | component, implements `FileDelivery` |
| `ReceivedRanges` | the span vector: its one-pass merge, count and first gap | operators |
| `SpanReassembler` | the reassembler with its vector, and the progress an app is shown | composes the two |
| `Framing` | both envelopes: encode, checksum, drain, resynchronise | operators |
| `FrameStream` | a deframer or a file drain behind a link that cuts the bytes | component over `Framing` |
| `Opcodes` | the closed tables of both directions | operators |
| `ControlFrames` | the command builders, and `parse` with every decode | operators |
| `AppEvents` | events and settings as they cross the bindings | operators |
| `VoiceStream` | the capture machine as the Parser drives it | component |
| `DeviceSync` | the app's GlassesParser and the glasses' own state | composes `VoiceStream`, `AppEvents`, `ControlFrames` |
| `EventChannel` | one receiver of the broadcast channel | building block |
| `VoiceCapture` | `voice_capture`, the pump, the device's microphone | composes `VoiceStream` and `EventChannel` |
| `PhotoCapture` | `take_photo`, the pump, the device's camera | composes `FileReassembler` and `EventChannel` |
| `Handshake` | `handshake`, the device's replies, the switch burst | over `EventChannel` |
| `OpenWifi` | `open_wifi`, `close_wifi`, the device's access point | over `EventChannel` |
| `RtspSession` | the session, a server and the TCP connection between | component with its environment |
| `RtspMessage` | how one response is cut out of the byte stream and read | component |
| `SequenceTracker` | the loss counters of one RTP stream | component |
| `Depacketizer` | H.264 packets to access units | component |
| `LiveMedia` | the media loop of `examples/live.rs` over a lossy link | composes the two |
| `Sdp` | the session description, line by line | operators |
| `LiveAudio` | description, RTP datagrams, AAC units, ADTS file | composes over `Sdp` |
| `Json`, `FileApi` | the JSON reader; replies, plan and URLs of the file server | operators; component over them |
| `Gallery` | `sync_all` between the glasses and a folder | component with its environment |
| `VoiceWav` | Opus packet headers, decoder, WAV file | component |
| `MC*` | constants of a run that a cfg cannot write | model checking |
| `*_proof` | theorems about the module named; `Reassembly_proof` about `FileReassembler`, `SpanReassembler` and `FrameStream`, `DeviceSync_proof` about `VoiceStream`, `Voice_proof` about `VoiceCapture` and `VoiceWav`, `LiveMedia_proof` about `SequenceTracker` and `Depacketizer`, `RtspSession_proof` about `RtspMessage`, `GlassesCalls_proof` about `PhotoCapture` and `OpenWifi` | proofs |

Operators whose comment begins with *Fault:* are not part of any specification.
Each is the mutated form of the definition after it, written to show that some
property notices the bug.

### Correspondence with the code

**FileReassembler, SpanReassembler.** `declared_total`, `file_type`, `data` and
`received` are the fields of `Transfer`; no transfer is `declared_total = 0`.
`received` is the set of delivered offsets instead of the span vector: `Starts`
counts the runs of that set and `Covered` its size. `SpanReassembler` keeps the
vector beside it, driven by the same calls through `Merge` (the loop of `insert` as
a function of the turns taken), and `SpansAreExact` shows that the two, and the
progress record of `ffi.rs`, always say the same. The zero fill of `resize` is the value `Pad`, which
no frame carries, so that padding can be told from data. One action per opcode;
`OnData` is the disjunction of the ways `on_data` ends. `OnUnusable` stands for
the early returns of short payloads and unknown opcodes.

**Framing, FrameStream.** Bytes are numbers below `Base`, the length field has
two digits in that base, and the checksum is the sum modulo `Base`, as in the
code with 256. `Drain` is `frame::drain`, `DrainFileFrames` the file stream's
variant: one turn of the loop is `Turn` or `FileTurn`, and a turn that ends the loop in
the code changes nothing more here, so a buffer of n bytes is drained by n turns.
`Residual` and `Kept` are the verdict of `push_detailed` and what it leaves
buffered. In `FrameStream` the sender's stream is a queue of pieces, and a
notification delivers any number of the bytes that are left. `StreamAssumption` says
what a piece may be: a frame; one whose bytes after the length were damaged; on `AA15`
junk without the first magic byte; on `AA14`, when a notification is a piece, a
header that a restart cut short or a length no frame has.

**Opcodes, ControlFrames, AppEvents, DeviceSync.** A frame is its opcode and its
payload bytes, and `parse` is total on them as in the code, `Unknown` included;
`ControlFrames` also has the builders, so that a setter, its echo and its decode
meet. `DeviceSync` is `Parser::feed_into` on one frame followed by
`SwitchStates::ingest`, and one action per thing the unit meets. `stale` is a history
variable: the subjects whose newest report was lost or garbled, until a newer one
takes its place.

**VoiceStream.** `capturing` and `packets` are the struct's fields. `view` is no
state of the code: it is what a caller that reads only the events believes.

**EventChannel.** `inbox` and `lagged` are one receiver's view of the broadcast
ring: without a receiver an event is dropped, a full ring loses its oldest, and
the next `recv` then reports the lag before anything else.

**VoiceCapture, PhotoCapture, Handshake, OpenWifi.** `phase` (`call` in `OpenWifi`)
is the position in the async function between its awaits; timers count the ticks
left of a timeout. A step of the pump decodes one frame and broadcasts its
events, which is the atomicity of the code as a call can observe it: the pump
holds the only reference to its decoders. `recv` is polled before the timeout, so
a ready event wins over an expired timer; a tick never passes an expired timer. A
failed write may or may not have reached the device.

**RtspSession.** The six values of `State` that name an outstanding request are
the `Awaiting` set; `Awaiting` with `pending = NoCseq` is the moment before
`pending_request`. A reply is a head and a rest, so that a read can end inside
it. `feed` is a loop: `Feed` appends what the read returned, each `FeedStep`
takes one response or ends the call, and no method runs meanwhile, because
`feed` borrows the session mutably. `failed`, `overlapped` and `ends` are history
variables of the properties and bounds. What is inside a response is
`RtspMessage`'s: a line's text is one unit of the stream, CR and LF are units of
their own, and a body is as many units as its Content-Length says. Its server speaks
(`Speak`) whenever it likes, its socket hands over a unit at a time (`ReadSocket`), and
`FeedRound` is one turn of `feed`'s loop: a blank line is looked for, and the status
line, the headers and the length of the body are judged in the order of `take_response`.

**SequenceTracker, Depacketizer, LiveMedia.** The 64 bit window is the set of
distances behind the highest number at which one arrived. A NAL unit is its kind
and the pieces its bytes came in, each marked with the timestamp it was sent
under, so a mixture shows. `LiveMedia` is the body of the media loop: a datagram is
observed, depacketised and written in one step, as in the single-threaded loop.
The script is what the glasses' packetizer makes of a list of pictures, each a sequence of
NALs: parameter sets in one STAP-A, a NAL of one packet alone, a larger one in FU-As.
`counted` and `arrivals` are history variables, the packets in the order they came,
without and with those of strangers: what the counters and the units are compared with.

**Sdp, LiveAudio.** A word is its spelling, its lower case and its number, which is
all the parser asks of one. AU headers are read bit by bit; of a payload the
lengths are kept, and a frame is the datagram and the byte interval it came from.

**Json, FileApi.** The text is a sequence of lexemes; a text cut inside a lexeme
ends in a cut one, and `Arrive` parses after every piece as a streaming caller
does.

**Gallery.** A file's content is the number of its shot, so a file on disk says
whose it is; `Partly` is what a failed or killed `fs::write` may leave. `listing` is a
history variable, what the sync was told; `max_download_bytes` sums step by step.

**VoiceWav.** A packet is its first two bytes and its fate. libopus is external:
it refuses what RFC 6716 calls malformed and what does not fit the buffer.

## 3. The runs

| Run | Question | Shows |
|---|---|---|
| `file_reassembler` | Can a file with a hole, or with bytes of another transfer, be handed over? | No; discards are reported, the span vector and the shown progress are exact, and every behaviour is one of `FileDelivery`. |
| `frame_stream` | Does any cut, junk or corruption lose or repeat a frame? | Every undamaged frame once, in order and in time. |
| `voice_capture` | Is the microphone closed, the time bounded, the utterance whole? | Yes behind an `Ok`; the call always returns. |
| `photo_capture` | Whose photo does a call return after losses and time-outs? | Its own, unless an earlier call gave up; an abort has a cause; the call always returns. |
| `handshake` | Does a missing field always have a reason? | Yes; a full channel never loses the end of the link, though an `Ok` may come before it is read; a refused record duration costs the whole budget. |
| `open_wifi` | Whose credentials does an open return? | Its own service's, or those of one an earlier open gave up on; an open always ends. |
| `rtsp_session` | What can any caller and any server do to a session? | PLAY only behind SETUP, events lost only as stated, the documented loop always gets somewhere. |
| `live_media` | What does a bad link do to counters and pictures? | Counters exact across the wrap, no unit of two pictures, a clean picture always returned and recorded, no damage uncounted. |
| `gallery` | Can a sync lose a picture? | Only to another with its basename; a sync without failures means what it says; a sync ends. |
| `device_parser` | Can an app trust its settings, readings and capture state? | Yes, also after faults, settings and capture state also after a change of units (an app starts its readings anew); nothing senseless is written back; a burst completes the settings. |
| `readers` | Is what is read what was sent, however it arrives? | Truncation is told from damage, replies, plan, tracks, both sound files and RTSP responses are whole. |
| `rtsp_teardown` | violation, see 5 | |

`readers` starts in one of four readers, which share nothing; each is a component
of its own with its own next-state relation, under one specification.

### Bounds, and why they are enough

* **Files** of up to seven bytes, chunks of up to two, a cap of three spans: enough
  for a chunk to lie before, in, across and after every other, for four runs to be
  attempted, and for a size of zero and one above the ceiling. The proofs cover
  every size.
* **Framing**: four byte values of which two are the magic, so that magic bytes
  occur as command, payload and checksum of the frames; up to three pieces, so
  that a damaged one has neighbours on both sides. A corrupt *length* on AA14 is
  only delivered as one notification per piece: inside a cut stream it may
  swallow the next frame by design of the envelope.
* **Client calls**: two calls (three opens), so that the first can leave something
  behind; a channel of two or three events, so that lag is common; timers of one
  to four ticks, so that every order of two timers and an event occurs. The
  handshake run has five reads, one of each kind the loop tells apart.
* **RTSP**: six requests, which is a whole set-up of both tracks and a TEARDOWN,
  or retries of refused requests; two calls of `teardown` or `close`. Replies of
  seven shapes in three styles of line ends, cut at every unit.
* **Live media**: three pictures, the end of one, a key picture with its parameter
  sets and two slices (which is an aggregate and fragments) and a small one; 18
  sequence numbers so that the script wraps, and a window of three so that packets
  can be late on both sides of it; three faults. A script shorter than half the
  number space is assumed (`ScriptAssumption`), as in the code's arithmetic. A picture
  has its parameter sets, if any, before its slices (`PicturesAssumption`).
* **Gallery**: three names, two of which share a basename; three shots with bodies
  of zero to two KiB in a size unit of two bytes, so that a body can be too short,
  just long enough and whole; two syncs, so that one begins in what another left.
* **Device**: two units with different settings, two stimuli and one fault: read,
  write, write back and change of units in every order with one lost or garbled
  frame. All ten settings have their own opcodes and payloads.
* **Readers**: one or two folders, empty, single and with a name to be escaped;
  fields in both orders, unknown fields, blanks, wrong counts; every prefix, and
  every lexeme exchanged for another. `MAX_DEPTH` is 8 instead of 32, above what a
  reply needs and below what damage can nest. Audio: four widths of headers, units
  at and above the 13 bit limit of ADTS, fragments, padding, extensions. Voice: all
  256 headers with frame counts about each limit, captures of up to three packets,
  and a maximal size that a capture of that length can exceed. RTSP: two replies
  (`MaxReplies`), with and without a body, a session and ports, one flawed in its
  status, one in a header and one in its length, under each way of breaking lines; one
  that a fault of the first can spill into is enough.

`CHECK_DEADLOCK FALSE` is said of the runs whose system really stops: the client
calls when they are made, a session that is over, a script that was sent, a text
that has arrived.

### Fairness

The BLE client modules assume that the runtime polls a ready task (weak fairness
of the client's steps) and that time passes (weak fairness of the tick). Nothing
is assumed of the device or of the link: a call must return against a silent
one. `RtspSession` assumes that the server answers, and that the caller runs the
documented loop (`pending_request`, write, read, `feed`); teardown and close are
never assumed. `Gallery` assumes that a request answers or times out, which the
HTTP client's 60 seconds do. `DeviceSync` assumes that the BLE stack delivers what
it has received. The other modules make no progress claim and have no fairness.

## 4. What is proved

All theorems hold for every value of the constants that satisfies the named
assumptions; `tlapm` checks them to the last leaf. Each list ends with the
argument: why the property is not inductive, and what is.

**Reassembly_proof** (`PadAssumption`, padding is no byte value;
`BoundsAssumption`, a positive ceiling and a cap of at least two; `WireAssumption`, the
types of the inputs; `FramingAssumption`, two magic bytes that are no legal length, as
`AC 55` and `52 58` are above the maximum of 4096; `StreamAssumption`, what a piece is).

* Types, `CompletedIsGenuine`, `IncompleteHasGap`, `SpansBounded`,
  `DiscardIsReported`, and the refinement of `FileDelivery`. `DiscardIsReported` is about
  every step of `handle()`, whichever frame it is (`Handle`): only the shell's own
  `reset()` is outside. `CompletedIsGenuine` says
  nothing of the open transfer. `DeliveredIsStored` is what `on_end` relies on: an
  offset holds a byte of the wire if it was delivered and padding if not. A file
  is whole when the number of delivered offsets equals the declared size, and a
  set of offsets below n with n elements is all of them. For `IncompleteHasGap` the
  cap matters: the whole file is a single run, so a cap of at least two never ends
  a transfer that has nothing missing.
* `SpansAreExact`, of `SpanReassembler`. The three loops over the vector, `insert`,
  `covered` and `first_gap`, are each shown right for a vector of any length by what
  holds after i turns (`Merging`, a sum, `GapAt`). A sorted vector of spans that
  do not touch then has as many spans as the offsets have runs, so the cap test on
  one is the cap test on the other.
* `EveryFrameOnce`, of `FrameStream`. That the frames are the expected ones says
  nothing of the buffer, and what a push hands out depends on it. Inductive is
  `StreamInv`: the buffer holds the bytes of the frame under way and nothing else, of
  junk and of damaged frames that have ended not a byte. The stream of a queue is laid
  out once (`Lays`: where each piece ends, and the bodies up to there). Then one turn
  over a buffer that starts where a piece starts, or in junk, takes the next
  frame or leaves what has come of it (`OneTurn`), and a turn that takes something
  shortens the buffer, so the turns as many as bytes come to rest. Damage does not
  matter to where a frame ends, because the code trusts the length and not the
  checksum. From the same invariant, `Overflowed` is never the verdict (`StreamTypeOK`).

**DeviceSync_proof** (`DeviceAssumption`: units are in a legal state, the app calls a
setter with values its type allows, and junk is what `parse` makes nothing of).

* `CallerKnowsCapture` and `IndexIsOrdinal`, of `VoiceStream` alone, and the first again
  of the whole control channel. With the types they are inductive: each action
  is one fold step of the caller's view per event.
* `SyncedMeansIt` and `ReadingsAreDevices`. Between a change of the unit and the report
  of it the screen is wrong, so what is inductive speaks of the air: of each subject
  that is not stale, the last frame on its way that means anything is the unit's
  present report, or there is none and what is held is true (`FreshWith`).
* `WriteBackStaysLegal`. It rests on `parse` reading back what each setter writes, setting
  by setting, and on `Held`: the accumulator only holds what a write may carry.
  Gestures are the exception that makes it worth proving, as any byte is adopted
  there; writing one back goes through the closed list of actions.

**RtspSession_proof** (`RtspAssumption`; `RepliesAssumption` for the last theorem). No
property of the server is used for the first three: it may answer anything of the right
shape at any time.

* Types, `PendingIsAwaited`, `PlayIsSetUp`. The last speaks of two states only.
  `Progress` says what each earlier state has behind it (a description from the
  video SETUP on, a session id from the audio SETUP on, no audio before its own
  SETUP), and `WireOK` that what travels is well formed.
* `NoEventLost`. `feed` drops what it collected when a later response in the same read is
  an error, so there must be no later one. `OneReply`, of the buffer and the
  connection taken together: as long as requests do not overlap, at most one reply
  is still to come, none while nothing is outstanding, and what was collected was
  the answer to the last request.
* `RepliesAreWhole`, for any number of replies of any bodies, headers and length.
  `RepliesAssumption` says what a server may send: lines of text, all ended by CR LF or
  all by LF, and a blank line, where a CR after a bare LF is excluded (the code does not
  take it for a blank line and would wait). That the first blank line found is the one
  behind the headers (`BlankIs`), and each header is read off its own line (`LinesAre`,
  `OneNamed`), makes a reply without a flaw be waited for and then read as it was meant
  (`TakeWhole`), and a flawed one an error (`TakeFlawed`). `ControlInv` keeps the caller
  at the start of a reply (`Laid`: where each one starts in the stream), which is what
  the next round needs; a length misread by one would break it.

**Voice_proof** (`CaptureAssumption`; `PlayerAssumption`, captures of any length made of packets
that are not empty, and the five rates of Opus).

* `WithinHardCap`, `OkClosesMic`. `Writes` says of each phase how many 0x56 writes are
  behind it and when a microphone that is open was opened: the first write that
  succeeds closes it, so one open in the pause was opened in the pause.
* `NotCutShort`. `Patient`: an event is waiting, the timer is the hard cap, or silence so
  far and timer together are at least the idle gap. An event that is published
  is in the channel however full it is, since what it overwrites is the oldest.
* `WavPlaysTheCapture`: after i packets the samples are as long as what should be heard of
  i packets (`PcmIsHeard`), which concealment keeps because a gap is heard exactly when
  a later packet shows it, and a written file holds these samples (`FileIsPcm`).
* `AnnouncedIsDecoded`: the code's table of microseconds and the standard's of samples agree,
  mode by mode, once both are brought to half milliseconds (`Lasts`).

**Handshake_proof** (`HandshakeAssumption`, and where said, about the lists of reads and
replies the code has).

* `RefusalCostsTheBudget`, when the burst reports a record duration: a refused one is
  never collected, without it `is_complete` is false, and then only the deadline
  ends the loop.
* `DropIsNotLost`. The pump's `Disconnected` is its last event, so overwriting, which
  takes the oldest, never takes it (`DropIsNews`). A collecting call that has received
  it ends in "disconnected"; one that returns Ok over a dead link left it unread behind
  earlier events, and was complete or out of time.
* `MissingHasCause`, when the reads include the switches. `AllAccounted`: the reply that fills a
  field some read asked for is collected, refused, lost, overwritten, owed by the
  device or in the channel.

**LiveMedia_proof** (`TrackerAssumption`; `PacketsAssumption`, a packet's pieces carry its
timestamp; `LiveAssumption`; `ScriptAssumption`, the script is shorter than half the
number space; `PicturesAssumption`, a picture is at least one NAL of at least one packet,
and its parameter sets lead).

* `Conservation`, of the tracker alone and in the loop: an advance by d adds d numbers of
  which d - 1 are lost, a late arrival moves one from lost to received, a copy none.
* `OnePicture`, of the depacketizer alone and in the loop. The open unit, the open
  fragment and what was last returned each hold pieces of one timestamp (`Coherent`),
  and a fragment is only continued or glued under the timestamp of the unit it
  will be put into.
* `LossIsExact`. `CountedTo`: the counters are those of the set of packets that came, and
  the window is that set as far as it reaches. For that the distance between two
  numbers must be the distance of their packets, which holds below half the space.
* `FileIsWanted`: the file is what was returned from the first decodable unit on. It needs
  that `keyframe_seen` is whether such a unit was returned, and not merely begun.
* `CleanPictureComesOut`. `Follows`: the picture whose packets are the last arrivals. `Gathering`:
  then the depacketizer holds what those packets bring, the NALs that are complete and the
  fragment begun, whatever it held before. That a picture's first packet closes or drops
  what is open, and that its i-th adds exactly its part, is shown form by form
  (`GatherMore`); the last has the marker, and what is open then is the whole picture.
* `DamageIsCounted`. `InOrder`: while the counters show nothing, what came since the last
  reset is a stretch of the script, without a gap. So every picture but the one the stream was joined
  in comes clean; and the close by a new timestamp, the code's backstop for a lost
  marker, finds nothing open in such a run.

**Gallery_proof** (`GalleryAssumption`), for any names, sizes, orders of listing, failures
and kills.

* `LostOnlyToItsNamesake`. The step to watch is a delete. `Current` says that just before
  it the file on disk is whole and is that of the entry about to go; for that a body
  must be the listed shot's when it is written, so `Ahead` says that every entry
  still to come is on the glasses as it was listed, and comes once.
* `CleanSyncSaved`. It speaks of the end of a sync; `History` says on the way there that the
  entries behind are on disk and off the glasses while nothing has failed, and
  that the bytes moved are at most what these may bring. Without namesakes no later
  write touches an earlier file, and `Numbered` (no two shots have one number) keeps
  the glasses from showing a deleted shot again. The bound on the bytes needs that
  what a plan announces, thumbnails, downloads and deletes flattened into one list,
  is the sum of what its entries may bring.

**GlassesCalls_proof** (`PhotoAssumption`, `WifiAssumption`, `ChannelAssumption`). A photo's frames
name no photo and a 0x25 names no service; what tells answers apart is that a call
waits for one at a time.

* `OwnPhoto`, `AbortHasCause`: while every call before got an answer, nothing of an earlier
  photo is in the glasses, on the air, in the pump or in the channel (`Requests`, `OnAir`),
  an answer in the channel is its last event and true (`Fits`), and each offset has
  come, is on its way or was in a frame that was lost (`Traced`).
* `OwnService`: a request or an answer for a service no call gave up on exists only while
  its own call waits, and then there is one (`Kept`, `OneRequest`). `owed` is a history
  variable, the services an earlier open asked for and did not return with.

`TypeCorrect`, `IncompleteGap`, `SpanCap`, `PacketOrdinals`, `Awaited`, `HardCapHolds` and
`RecordingIsWhole` are proved and need no run: with a proof for every value a small
instance adds nothing.

*Loops.* The provers cannot instantiate the library's induction theorems, which take an
operator as a parameter. Where a loop over a sequence must be right for every length
(`SpansExact`, `FramesComeOnce`, `CleanSyncIsComplete`, `FilePlaysCapture`, `CleanPictureIsReturned`), the loop is a function of the turns taken, and
the induction hypothesis is the set of turns after which it holds: if one were not in
the set there would be a least (`Least`, from the library's order on the naturals, which
needs no operator), and the turn before it is in the set (`UpTo`). `Turns` is the same
argument for the existence of the function, so that a recursive definition is one.

### Only model-checked

* Liveness (`CallReturns`, `LoopEnds`, `SyncEnds`, `OpenEnds`, `BurstCompletes`): under
  fairness it is out of the prover's reach.
* The properties of the readers (`CutIsTruncated`, `ReplyIsRead`, `PlanSavesFirst`,
  `TracksAreDescribed`, `FileIsWhatWasSent`): what a recursive parser
  computes for every input, against a fixed list of inputs.

## 5. Disagreements met while modelling

With a run that shows it: `rtsp_teardown`. TEARDOWN over an outstanding request
never reaches `Closed` (`src/rtsp.rs:454`), though its doc says it can be driven there.

Stated in a module, but without a run of their own; adding the name to the cfg
shows each as a counterexample of a few steps:

1. `CompleteMeansEveryRead` (`Handshake`): `is_complete` does not ask for
   `voice_features`, the last of the eight reads (`src/client/ble.rs:192`, "Whether
   every read answered"), so a device that answers everything in order gets a
   result without them. It needs the list of all eight reads.
2. `LostStartIsRecovered` (`VoiceCapture`): after `voice_capture` the pump's Parser
   still believes the capture open (`src/client/ble.rs:557`), so a lost 0x97 of the
   next utterance is not recovered as `src/voice.rs:297` says.
3. `TimeoutResets` (`PhotoCapture`): nobody resets the reassembler on a stalled
   transfer (`src/client/ble.rs:508`), as `src/timing.rs:97` says the client does.
4. `NeverHeadless` (`LiveMedia`): the tail of a fragment whose own head was lost is
   put behind an open head of the same timestamp (`src/h264.rs:280`); the module
   note at `src/h264.rs:36` says it is dropped.
5. `StrangerYieldsNothing` (`LiveMedia`): `src/h264.rs:167` says that RTP of another
   payload type yields nothing; no payload type is ever compared. The same holds
   of `src/aac.rs`.

For a reader of the code:

* *Files.* Two listed names with one basename: the second overwrites the first,
  whose original is deleted by then (`src/client/fileapi.rs:255`: "an interrupted sync
  loses nothing that was not already saved"; `LostOnlyToItsNamesake` states the
  exception). A body cut by less than one KiB passes the size check.
* `src/fileapi.rs:988`: a body cut right after a minus sign is `NotJson`, though
  `:572` says a streaming caller can wait. `src/fileapi.rs:714` says the listing needs
  a depth of 3; it needs 5. The sum of `max_download_bytes` can overflow. The sync plan
  the bindings make of a listing that does not parse is empty and has no tear-down.
* `src/reassembly.rs:718` tests the span count before the merge, so at the cap it
  also refuses a chunk that would fuse with a neighbour; the comment above it
  says it only rejects a genuinely new hole.
* `src/parser.rs:1007` says a stray 0x99 gives no event; it gives `Ignored`. At `:1082`
  an implausible record duration is "left unset", but one that follows a plausible
  one leaves the old value (`SyncedMeansIt` counts it as garbled).
* `src/client/ble.rs:406` asks for the time before it asks for the next event: a
  handshake whose link has dropped may run to its deadline over older events and
  return `Ok` with `Disconnected` still queued. `:487` and `:602` take the next photo and
  the next 0x25 for their own; after a call that gave up it may be the one that call
  asked for.
* `src/client/ble.rs:519` promises a return when the idle gap passes with no 0x46; any
  event restarts the gap (`:551`). `NotCutShort` is therefore stated in one
  direction only. `:520` says 0x56 is written twice unconditionally; a failed
  first write skips the second and drops the packets (`:557`). `:376` ends the
  connection sequence with the phone time; the function does not send it.
* `close_wifi` always writes `44 30 00`, though `src/commands.rs:144` has another frame
  for a session that downloaded nothing. `open_wifi` returns `Ok` also when the link
  drops while the SSID settles.
* `src/rtsp.rs:50` says a failure of the audio SETUP does not stop the video; a 200
  without a Session header does (`:581`). `find_header_end` never sees the end of
  headers whose lines end in LF and whose blank line is CR LF.
* `src/rtp.rs:195`: the window remembers 64 numbers, but a jump of exactly 64 forgets
  the previous highest.
* `src/aac.rs`: `adts_header` silently truncates object types from 5 and channel
  configurations from 8; the bindings' header always uses the glasses' own
  configuration.
* `src/client/opus.rs` suggests looking for gaps in `VoicePacket::index`; the index is
  an ordinal of what arrived (`IndexIsOrdinal`), so only a lagging receiver sees
  one. The buffer is "sized for the maximum" at 16 kHz only: at 48 kHz packets of
  60 ms and more are refused, and `decode_lost` conceals a third of a frame; 48 kHz
  gives three times the samples, not four. One test of an empty payload expects a
  refusal of what is concealment to the codec.

## 6. What is not modelled, and why

`gatt.rs` and `timing.rs` are UUIDs and durations; the latter appear as tick
constants. Scan, connect, discovery and disconnect are one awaited call after the
other, `send_time` and `interrupt_voice` one write. The bindings hold a mutex for one call
of a core object, so they add no interleaving the core models do not have; of
them the conversions are modelled. Payload bytes of pictures, sound and files are
opaque, and so are names and messages. Of the examples and demos the loops that
keep state are modelled, with the exception of the iOS demo's write queue: it is
sample code of another language and runtime, outside the crate. That the pump may
send before anyone listens (`src/client/ble.rs:318`) loses an event that nothing keeps
and the handshake reads again; no state is left a property could speak of.

## 7. Plan

Done, in this order: file reassembly and its promise, framing, voice, the channel
and the four client calls, RTSP, the live media path, the gallery, the parser
and its app, the readers; proofs of every safety property of the stateful
components, and of the WAV writer.

Next: of the readers, the properties that are a loop over a list and not a recursive
parse, first `PlanSavesFirst`.
