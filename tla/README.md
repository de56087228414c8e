# Verification of rtp-engine

rtp-engine is the media half of a SIP phone: it puts microphone audio on the
network as RTP, optionally encrypted (SRTP), and plays what it receives. This
directory models its protocol state machines in TLA+, checks small instances of
them with TLC and proves the most important results with TLAPS for every value
of the constants. Source paths below are relative to the repository.

## 1. The system

| Part | State | Operations | Where |
|---|---|---|---|
| Jitter buffer | packets by extended sequence number, playout position, cycle count, delay, counters | `push_at`, `pop_at`, `reset`, `flush` | `src/jitter.rs` |
| Replay window | highest index, 64-bit map of the ones below | `admits`, `accept` | `src/srtp.rs` |
| SRTP | per source: rollover counter, last sequence number, window; bounded number of sources | `protect_rtp`, `unprotect_rtp` | `src/srtp.rs` |
| SRTCP | send index; per source a window | `protect_rtcp`, `unprotect_rtcp` | `src/srtp.rs` |
| Headless stream | latched peer, its SSRC, last event, silence clocks; counters and digit queue for sending | `ingest`, `playout`, `queue_dtmf`, `packetize`, RTCP | `src/stream.rs` |
| Media session | sequence and timestamp atomics, flags, SRTP contexts behind mutexes, playback queue | microphone callback, keepalive thread, DTMF tasks, receive loop, output callback, RTCP task, mute, stop | `src/session.rs` |
| Recorder | two sample buffers, a flag, shared handles | `start`, `stop`, `add_samples`, `write_wav` | `src/recorder.rs` |
| RTP statistics | atomics | `record_received`, `snapshot` | `src/rtp/stats.rs` |
| Voice processor | negotiation state, per side a frame accumulator | `attach`, `process`, `analyze`, `reset` | `src/audio_proc/` |
| Session set-up | two UDP sockets and who holds them, a running flag | `allocate_port`, `start*`, `stop`, `drop`, ends of threads | `src/session.rs` |
| RTCP task | phase of its five-second round, the peer's SSRC | `run_rtcp` | `src/session.rs` |
| STUN client | socket, transaction, attempt | `discover_public_address`, `parse_binding_response` | `src/stun.rs` |
| Wire formats | none | `parse`, `to_bytes`, `parse_rtp`, RTCP builders and parser | `src/rtp/`, header readers in `src/srtp.rs`, `src/stream.rs` |
| Codec selection and framing | payload type, clock and PCM rate | `negotiate_codec*`, `create_encoder`, `create_decoder` | `src/codec/mod.rs` |
| Codecs | G.711 none; G.722 filters and predictors; G.729 LSPs and excitation; Opus the library's | `encode`, `decode`, `conceal_loss` | `src/codec/` |
| Resampling | remainder of the last call, position | `StreamResampler::process`, `flush` | `src/resample.rs` |
| Audio devices | the process-wide enumerator thread, one buffer per direction | `host`, `list_*`, `start*`, `read_samples`, `write_samples`, callbacks | `src/device.rs` |

How they meet. There are two users of the same building blocks. A *headless
stream* is single-threaded: `recv_frame` awaits either a datagram (`ingest`) or
a 20 ms tick (`playout`), and both work on one jitter buffer and one inbound SRTP
context. A *media session* is concurrent: an input callback, a keepalive thread
and one task per digit share the send counters and the outbound SRTP context; a
receive loop feeds a jitter buffer and a playback queue that an output callback
drains; both audio directions reach into a recorder that the application starts
and stops; statistics are atomics read by anybody.

What is hard in it:

- wrapping integers at three levels (16-bit sequence number, 16-bit cycle or
  32-bit rollover count, 32-bit timestamp) under loss, copies and reordering;
- a receiver that must estimate a counter the sender never transmits;
- senders that claim numbers, encrypt and send in separate steps;
- flags and shared handles that change between two steps of an audio thread;
- timeouts and playout that depend on time as well as on packets;
- answers that come after the question was given up, on a socket shared with
  other traffic;
- set-up in several steps, each of which can fail with the earlier ones done;
- signal state kept between calls whose lengths do not match the frames.

`PROJECT.json` lists these hazards one by one, at their lines, with the
property that would catch each, or the reason why there is none.

## 2. Modules

| Module | Models | Built on |
|---|---|---|
| `JitterBuffer` | the buffer, fed anything | |
| `OrderedPlayout` | *abstract*: each packet at most once and in order | |
| `JitterStream` | the buffer fed by one sender over a network, drained by a tick | `JitterBuffer`; implements `OrderedPlayout` |
| `ReplayWindow` | window operators, and `Represents`, what a window stands for | |
| `SenderRoc` | the sender's rollover counter | |
| `Srtp` | RTP contexts of a sender and a receiver, over ideal cryptography | both above |
| `SrtpStream` | one orderly sender, a network, one receiver | `Srtp` |
| `Srtcp` | the same for SRTCP | `ReplayWindow` |
| `StreamReceive` | `ingest` and `playout` of a headless stream | `JitterBuffer`, `WrappingTime` |
| `StreamSend` | `queue_dtmf` and `packetize` | |
| `DtmfStream` | digits from one headless stream to another | `StreamSend`, `WrappingTime` |
| `SessionTx` | the concurrent senders of a media session | `SenderRoc` |
| `SessionAudio` | recording and playback in a media session | |
| `RtpCounters` | receive statistics against a concurrent reader | |
| `SessionRtcp` | the receive loop's bookkeeping and `run_rtcp` | `RtpCounters` |
| `SessionSetup` | ports and sockets of sessions being set up and taken down | |
| `Stun` | servers asked in turn over one socket | |
| `RtpWire` | the bytes of RTP headers and RTCP reports, and all who read them | |
| `AudioDevice` | the way to a device, and the capture and playback buffers | |
| `Resampler` | `StreamResampler`, by the time of each sample | |
| `CodecSession` | SDP negotiation and the framing of a call with its result | |
| `G711` | both companding laws over any number of hops | |
| `G722` | encoder and decoder in integers | |
| `G729Frame` | the ten-byte frame, written and read | |
| `VoiceProcessor` | rate negotiation and framing for the echo canceller | |
| `ReplayWindowProofs` | lemmas on windows and on wrapping arithmetic | `ReplayWindow` |
| `SrtpProofs` | theorems on SRTP, and on an orderly stream of it | `Srtp`, `SrtpStream` |
| `JitterBufferProofs` | theorems on the buffer | `JitterBuffer` |
| `PlayoutProofs` | theorems on the buffer's users: the refinement, restarts | `StreamReceive`, `JitterStream` |
| `SessionTxProofs` | theorems on the concurrent senders | `SessionTx` |
| `CallProofs` | theorems on recording, playback and digits | `SessionAudio`, `DtmfStream` |
| `NetworkProofs` | theorems on SRTCP, STUN, set-up, statistics, what reports tell of loss, and wire formats | `Srtcp`, `Stun`, `SessionSetup`, `SessionRtcp`, `RtpWire` |
| `AudioPathProofs` | theorems on voice processing, devices, codec negotiation and framing, G.722 and resampling | `VoiceProcessor`, `AudioDevice`, `CodecSession`, `G722`, `Resampler` |

Each `MC` module gives one run its constants. `MCNetwork`, `MCAudioPath` and `MCCall` put
several components that share no state side by side: a variable `part`, chosen
initially, says which of them moves, so the state space is the sum of theirs.

Variables carry the names of the fields they stand for, actions those of the
functions; where a function is split, the parts are named for their case
(`PushLate`, `PopLost`, `DropSource`...). A *history* variable is marked as
such in its declaration: the code has no such field. Operators introduced as
"a mutant" are plausible wrong versions of the definition that follows; no
specification uses them. They are there to show that a property can fail:
put in the definition's place, each makes TLC report the property it is
listed with.

Conventions and abstractions:

- **Integers** keep their shape and lose their size: `SeqSpace` stands for
  2^16, `CycleSpace`/`RocSpace` for what counts its wraps, and every sum the
  code wraps is taken modulo its space.
- **Time** is a number of ticks, saturated where nothing can tell larger
  values apart (`waited` at `DelayCap`, `silent` at `RtpTimeout`).
- **The jitter estimate** (floating point) is an arbitrary target delay between
  its bounds at each adaptation; `adapt_delay`'s steps towards it are exact.
- **Cryptography** is ideal: a packet authenticates iff it was protected by
  its source under the rollover counter the receiver estimates. Forged packets
  carry no counter and never authenticate.
- **Payloads** are numbers or are left out. In `JitterStream` a packet's
  timestamp is its number, so playing order can be read off it.
- **Concurrency**: every atomic operation, critical section and channel send
  is a step. `Relaxed` accesses to different atomics may be seen in either
  order, which `RtpCounters` models where it matters; a flag becomes visible
  after a finite time, which interleaving covers.
- Locks are not poisoned (no modelled critical section panics).

## 3. What each module says, and how it corresponds to the code

**JitterBuffer.** `Push` is `push_at`: extend the sequence number, then either
drop a late packet (`PushLate`) or, after a restart or room-making, insert it
(`PushBuffered`); the adaptation at its end is part of both. `Pop` is `pop_at`:
start playout if it is due, then hand out the packet at the playout position,
or the nearest one if it is a buffer's worth ahead (`PopPacket`), conceal a
lost one (`PopLost`), or nothing. `reset` and `flush` are the functions of that
name. *Correct* means: bounded, no packet stranded behind playout, no packet
counted twice, playout never moving back, no pause concealed, and (in
`JitterStream`) each packet played at most once, in sending order, leaving the
buffer in the end, with a sender's restart costing a bounded number of packets.

**Srtp, Srtcp, ReplayWindow, SenderRoc.** `unprotect_rtp` has three outcomes,
in the code's order: an error (unknown source when the table is full, or failed
authentication under the estimated counter), a replay, or acceptance, the only
one that changes state. The receiver's 64-bit map is the set of offsets whose
bit is set. *Correct* means: an index is accepted at most once and only if it
was sent; a window is exactly what `Represents` says; nothing is called a replay
without being one; counters follow the highest index accepted, never a late
packet; an orderly stream is never refused.

**StreamReceive.** One disjunct of `ingest` per early return of `admit`, in
order, and two for the packets that pass. A datagram is the tuple of what
`admit` tells apart. *Correct* means: what waits to be played belongs to the
latched peer and its current SSRC, and silence is reported no matter what is
being dropped.

**StreamSend, DtmfStream.** `packetize` either sends the next packet of the
digit under way (the last one in three copies) or an audio packet. The receiver
tells presses apart by timestamp. *Correct* means: events whole and in order,
each digit reported once.

**SessionTx.** One process per sender, one step per atomic operation: claim a
sequence number, claim a timestamp, protect under the lock, send. `set_mute` and
`stop` happen at any time. *Correct* means: one gapless sequence, digits whole,
nobody running on after mute or stop by more than the packets already begun, and
a stopped session going quiet.

**SessionAudio.** The two audio threads against `start_recording`,
`stop_recording` and dropping the session, with the handle locks they really
take; and the playback queue between the receive loop and the output callback.
`write_wav` can fail before it has created the file or at any frame after; what
it has written by then stays on disk (`file`), and only an `Ok` counts as `saved`.
Each recording has a path of its own. *Correct* means: a saved file is everything
its recorder was handed and a truncated one the beginning of that, a running
recording misses no frame, a pre-buffer is worth what it promises.

**RtpCounters.** `record_received` against `snapshot`. *Correct* means: the
extended highest number is that of the newest packet, and a snapshot hides no
loss.

**VoiceProcessor.** `attach` from either side in either order, including a
device reopened later (as the comment in `attach` provides for; inside this
repository each side attaches once per call), with the old path's callback still
running until the new path replaces it. *Correct* means: the canceller runs only
at the rate both devices last reported, gets whole frames of that rate only, and
less than one frame is held back.

**SessionRtcp.** `Wake`, `SendSr`, `SendRr` and `ReceiveRtcp` are the steps of
one round of `run_rtcp` between its awaits; `ReceiveMedia`, `Record` and
`ReceiveRefused` are the receive arm of `run_audio_rx`, which goes on meanwhile.
The snapshot and the expectation the receiver report loads again later are
different steps, as in the code. *Correct* means: the loss told to the peer is
off by no more than what was recorded in between, and a peer that reports is
reported to.

**SessionSetup.** Each bind is a step, and so is each failure; `holders` says
who owns a reference to a socket, and a port is free when the last one is
dropped. Other processes bind ports at any time, in particular between
`allocate_port` and `start`. *Correct* means: a started session has its pair of
ports, a failed start leaves neither port nor thread, a dropped session gives
both back.

**Stun.** `discover_with_socket` takes exactly one datagram per attempt,
whichever it is. Requests can be lost or answered at any later time, other
datagrams arrive on the same socket. *Correct* means: what is returned is the
answer to the request of that very attempt, an error only after every server,
and an end in any case.

**RtpWire.** Datagrams are sequences of bytes, built by `to_bytes` or an RTCP
builder, and then cut at any length or given any other first byte. *Correct*
means: what was built is parsed back, `header.rs` and `srtp.rs` find the payload
at the same byte of anything that arrives, and RTCP is known from RTP.

**AudioDevice.** `Prime`, `ComThread`, `Primed` and `AlreadyPrimed` are
`host()` with its process-wide `OnceLock` and the thread that is parked for
ever; `Open`, `List` and `Exit` are what calls do behind it, while devices come
and go. The buffers are sequences of sample numbers. *Correct* means: nobody
enumerates through an enumerator whose thread has ended, and both buffers hold
the newest second, in order, once each.

**Resampler.** An output sample is the number of the input sample it starts
from; rubato is external, and a chunk it fails on takes the fallback, which
rubato's position then has no part of: the neighbours where the two meet can be
nearly twice as far apart as the rates say, the only place where they are. *Correct*
means: in time however the input is cut into calls, less than a chunk waiting,
and nothing unheard after `flush`.

**CodecSession.** A session description is the sequence of its relevant lines;
a payload is its codec, its bytes and the samples it stands for. What the peer
means by a payload type (`PeerMeans`) is defined from its audio section and RFC
3551, independently of `negotiate_codec_with_pt`. *Correct* means: the peer's
first preference that this end has, understood as the peer means it, unless
another section's `rtpmap` shadows the audio section's (`Shadowed`); and frames
and RTP timestamps in step over lost packets.

**G711, G722.** The laws and the ADPCM blocks digit by digit, shifts as floor
divisions. *Correct* means: hops do not add up their errors; and a G.722
decoder's predictors are those of an encoder fed the same samples in one call,
odd call lengths included.

**G729Frame.** The fields of a frame, and the bytes the code packs them into;
the analysis is an arbitrary choice of fields. *Correct* means: the decoder
reads what the encoder wrote, which one field does not (section 4).

## 4. Runs

All passing runs explore the full state space of their instance. Type
invariants are not checked in runs: they are proved in the modules with proofs
and document the state elsewhere. Deadlock is not checked where an instance ends
because its bounds or its system do (all packets sent, session stopped).

| Run | Instance | Why these bounds |
|---|---|---|
| `jitter_buffer` | 8 sequence numbers, 2 cycles, capacity 2, 5 pushes of any number, adaptive delay | the key wraps within the run; capacity is reached, exceeded and a restart distance (2) is well below half the space |
| `jitter_stream` | 16 numbers, capacity 2; three kinds of network: reordering with gaps; loss over a rollover; one restart by any of ten jumps | half the space (8) exceeds every reordering and gap, as in the code; the jumps fall behind, within, ahead of and half a space from playout |
| `srtp` | 6 numbers, 3 rollovers, window 3, two sources of which one fits; up to 4 packets of any kind with forgeries, or an orderly stream of 14 | two rollovers, late packets within and beyond the window, a full source table |
| `session_tx` | microphone, keepalive and one digit, 16 numbers starting at 14 | every pair and triple of senders meets at every step, at a rollover |
| `stream_receive` | three addresses (two of the SDP's host), two SSRCs, two numbers each, with and without keys | every check of `admit` fails and passes, SSRC changes back and forth, timeouts in every state |
| `call`, digits | 3 digits in 7 frames, reordering up to 4 packets, timestamp wrapping in 16 | more late packets than one press has; the wrap falls in a press or between two |
| `call`, audio | two recordings with three captured and two received frames, or three received frames and no recording; frames of 2 or 3 blocks in a queue of 5 | a recording is replaced, stopped and dropped at each point of either thread; the queue overflows and runs dry |
| `network`, statistics | 10 packets over 6 numbers starting at 4, loss 1, reordering 2; and 3 packets with RTCP (2 packets of the peer), refused datagrams and stop | two rollovers, every packet late or lost once; a report about each interleaving of a round with arrivals |
| `network`, SRTCP | 5 indices, window 3, two sources of which one fits | the index wraps, the window is left behind |
| `network`, STUN | 3 servers, 1 foreign datagram, five kinds of answer | an answer can be one or two attempts late, and the last attempt differs from the others |
| `network`, set-up | 2 sessions and another process on 3 ports | one pair of ports for two: every step of one meets every step of the other, and allocation fails |
| `network`, wire | 24 headers with 3 payloads and all reports, cut at any byte or with any of 256 first bytes | every flag, CSRC count and extension length against every length |
| `audio_path`, devices | 3 threads, 2 devices; buffers of a 20-sample second in bursts of 1, 4 and 9, 30 samples | an enumerator's builder exits while two others go on; a buffer overflows after being read |
| `audio_path`, resampling | six ratios, chunks of 4, calls of 1, 3 and 9, 40 samples | no, one and several chunks a call, up and down, any of them failing; it takes 18 samples before a failed chunk between good ones shows its widest gap |
| `audio_path`, voice | two supported rates with frames of 2 and 3 samples, one unsupported, up to 4 samples a callback | all agreements and disagreements, callbacks of none, part, one and two frames |
| `audio_path`, G.711 | all 65536 samples, any number of hops | exhaustive: hops settle, so the state space is finite |
| `audio_path`, G.722 | 12 samples in calls of 1, 2 and 3, at both ends of the range and 0 | a sample is carried over between calls; the predictors saturate |
| `audio_path`, codecs | 1600 session descriptions, 3 packets of each codec, any lost | static, dynamic, remapped, doubly mapped, unknown and malformed payload types before, between and after other sections, which map them as well in 197 |

Four runs end in a violation, each of something the repository says:

- `jitter_late_rollover` (`RestartOnlyAfterSender`). A stream rolls over, and a
  late packet (or copy) from before the rollover arrives when playout has passed
  it. `extend_seq` turns the cycle count back by one for it
  (`src/jitter.rs:400`); the packet is dropped as late (`src/jitter.rs:198`), and
  `last_seq`, which only a buffered packet moves, still holds the number from
  after the rollover, so nothing turns the count forward again. The packet that
  arrives next is keyed one cycle too low, far behind playout, and the buffer is
  emptied as for a sender restart. It can happen at every rollover, costs what
  was buffered, and playback recovers.
- `session_tx_rollover` (`RocOfStream`). Two senders claim 65535 and 0 and
  protect them in the other order. `protect_rtp` counts a rollover only when 0
  follows 65535, so the counter stays behind for the rest of the call and the
  receiver authenticates nothing more. It takes a keepalive or DTMF packet within
  one packet of the rollover.
- `session_tx_digits` (`PressesTold`). `send_dtmf` takes the current audio
  timestamp, which only audio packets move, and starts a task per digit. Two
  digits with no audio packet between them share a timestamp, their packets
  interleave, and a receiver for which "One press is one event timestamp"
  (`src/stream.rs:424`) reports the first only. A headless stream queues its
  digits, so `DtmfStream` does not have this.
- `g729_lag` (`FrameSurvives`). `decode_frame` computes the second subframe's lag
  as `high << 4 | low + PITCH_MIN`, in which `+` binds tighter than `|`
  (`src/codec/g729.rs:467`): a lag of 36 is read back as 20. The module comment
  says the frame codes "the pitch lag directly" (`src/codec/g729.rs:8`). Both
  ends run this same code, so such a frame is synthesised with a wrong pitch.

The models also show, without a run of their own:

- With an event clock slower than the audio clock (`Ratio > 1` in `StreamSend`,
  for instance Opus with 8 kHz events), the event timestamp is the *wrapped*
  audio timestamp scaled down (`src/stream.rs:575`), so it falls back when that
  wraps and the receiver, for which "Event timestamps only move forward"
  (`src/stream.rs:425`), reports no digit until it has caught up. `DigitsOnce`
  fails with `Ratio = 2`.
- A concealed packet always carries the base timestamp: `estimate_timestamp` is
  only called for the packet at the playout position.
- In a session, sequence number and timestamp are claimed separately, so a
  packet with a later sequence number can have an earlier timestamp.
- A packet that authenticates and then fails a later check of `admit` has moved
  the replay window (it can only be refused again, so nothing is lost).
- After a change of SSRC `playout` returns no frames, not even silence, until
  the jitter buffer has filled again.
- If the first packet an SRTP receiver gets is from after a rollover the sender
  has counted, no packet authenticates; RFC 3711 leaves this to signalling.
- `record_received` takes a late packet from before the first rollover for one
  from the end of the range, and reports that as highest from then on.
- The session learns the remote address from the first datagram, before it has
  authenticated; without keys any datagram of four bytes or more also counts as
  received.
- A receiver report whose fraction would be 256 (nothing received by the
  snapshot) carries 0, and the octet count of sender reports includes headers.
  When SRTCP fails, the task sends in the clear and reads packets as they came.
- `start(0)` binds RTP to any port and RTCP to port 1, though `session.rs:144`
  offers "use 0 for OS-assigned"; started on the highest port, the RTCP port
  wraps to 0, any port (a debug build panics). Starting again on the same port
  fails until the RTCP task has woken from its sleep, up to five seconds later.
- When `write_wav` fails after `File::create` (`src/recorder.rs:102`), a file stays
  behind that is short, under a header that already claims the full length. The
  recorder is gone either way: `stop_recording` has taken it, so the call cannot
  be repeated, and where a recording is replaced or the session dropped nobody
  sees the error (`src/recorder.rs:156`).
- A late STUN answer, or any foreign datagram, fails the attempt that reads it
  although its own answer may be on the way.
- `prime_device_enumerator` counts as done even if its thread could not be
  started or was not ready in time (`unsafe` in `AudioDevice`).
- `AudioPlayback::stop` does not stop its callback. `read_samples` may return one
  sample more than asked when it resamples, and samples lose their last bit from
  `i16` to `f32` and back.
- `negotiate_codec_with_pt` looks for an `rtpmap` in the whole text
  (`src/codec/mod.rs:335`), so that of another media section with the same
  payload type shadows the audio section's if it comes first or the audio section
  has none: the two ends then use different codecs, or the peer's is not found.
  The runs include such descriptions (`Shadowed`); `PeersAgree` and
  `AudioKeepsTime` are about the others, and fail without that condition.
- The G.729 encoder predicts LSPs from the unquantised last ones, the decoder
  from the decoded ones, so the two drift apart.

### Fairness

`JitterStream` and `StreamReceive` assume that the receive loop's interval keeps
ticking and that time passes (`PlayTick`/`Clock`, `playout`/`TimePasses`): both
loops `select!` on an interval and do nothing else that blocks. `SessionTx`
assumes that a thread or task that has begun keeps being scheduled
(`PacketStep`, `KeepaliveLoop`, `KeepaliveWake`) and that the sending thread's
poll of `running` every 50 ms happens (`CloseStream`). In `MCNetwork`, `run_rtcp`
keeps going round (`RtcpTask`: every await in it is a sleep, a timeout or a UDP
send), discovery goes on (`Discover`: each attempt has its three-second timeout;
that `recv_from` fails is not assumed), and a thread or task that can see a
cleared flag ends (`TaskEnds`, per session). Nothing is assumed of the
device, the network or the application: callbacks, datagrams, digits, mute and
stop may never come. The liveness properties are `EveryPacketLeaves`,
`SilenceReported`, `StopEnds`, `PeerIsReported`, `StunEnds` and `PortsReleased`.

## 5. Proofs

All theorems hold for every value of the constants that satisfies the named
assumptions of the modules (`SpaceAssumption`, `ConfigAssumption`,
`RocAssumption`, `SrtpAssumption`, `SendAssumption`, `DeviceAssumption`...):
widths are at least one, bounds are natural, first numbers are within their
space, a model value that stands for "none" is not one of the values it stands
beside, `min_ms <= max_ms` (the code would panic otherwise). Of inputs they say
what the code's types or its callers do: a header to be built has at most 15
CSRCs and an extension of whole words (`HeadersAssumption`), samples are 16 bits
(`G722Assumption`), and a resampler's 20 ms chunk holds at least the input of one
output sample (`ResamplerAssumption`). TLC evaluates each of them in a run.

Five theorems and the refinement are about traffic within limits, which are
their hypotheses (that no `rtpmap` is shadowed is part of the properties
themselves):

| Hypothesis | Says | Without it |
|---|---|---|
| `OrderlyTraffic` (`SrtpProofs`) | reordering and gaps stay below half the sequence space, the first packet to arrive is from before the first rollover, the index does not wrap | `estimate_roc` guesses another counter, as RFC 3711 says it does |
| `OrderlyCount` (`NetworkProofs`; also for what the reports tell) | the same for the statistics and their 32-bit numbers | a jump of half the space looks like a late packet |
| `Orderly` (`PlayoutProofs`), for networks whose sender does not restart | nothing is a buffer's worth late, the key does not wrap, and either packets stay in order or the number does not roll over | the run `jitter_late_rollover` |
| `Recoverable` (`PlayoutProofs`), for senders that restart | the network only copies packets, and the numbers before and after a restart lie within half the sequence space and do not roll over | a late packet across a rollover moves the cycle count and not the last number, so the next one is counted down once more; TLC's instance has such restarts and the bound holds there too |
| `ShortCall` (`CallProofs`) | event and audio clock are the same, and the call is shorter than half the timestamp space (74 hours) | the event clock falls back when the audio clock wraps (section 4) |

TLC's instances satisfy all of them but `Recoverable`, whose instance goes
further.

Each argument counts without wrapping: how far a packet is behind the newest
one, or a timestamp behind the clock, is a natural number below half the space,
and the wrapped difference the code takes determines it.

- **ReplayWindowProofs.** The empty window represents the empty set; `admits`
  refuses what was accepted and admits what was not, down to the edge of the
  window; `accept` keeps `Represents`. The shift is the whole difficulty: what
  falls off the map is exactly what is too old for `admits`. `Division`,
  `QuotientFits` and `OneRollover` are the arithmetic of rollovers that
  `SrtpProofs` and `NetworkProofs` share.
- **SrtpProofs.** `TypeCorrect`, then `IInv`: types, `WindowExact`,
  `RocOfHighest`, `AcceptedOnce`, `AcceptedWasSent`, `SourcesKept`,
  `NoFalseReplay`, and finiteness. None is inductive alone: that an index is
  accepted once needs the window to be exact, and that needs windows never to be
  forgotten, hence `SourcesKept`. One lemma (`InvAccepted`) does the accepting
  step, one (`InvFrame`) all the others. `StreamIsSrtp` carries these over to
  `SrtpStream`. `BothEndsAgree` needs `OrderlyInv`: the i-th packet sent has index
  first + i - 1, the sender's counter is that index divided by the space, the
  receiver's is that of the newest packet delivered; half the space on either
  side of it is then enough for `estimate_roc`.
- **JitterBufferProofs.** `IInv` is `TypeOK`, `WithinCapacity`,
  `NothingStranded`, `CountersConsistent` and `Started` (nothing is buffered
  before there is a base timestamp), one lemma per action. `NothingStranded`
  over the wrap of the key is the heart: `HandOut` gives up playout there.
  `PausesStaySilent` is an action property of the same invariant.
- **PlayoutProofs.** `PeerAlone`: `MediaBelongs` is inductive once nothing is
  buffered before there is a peer (`PeerInv`). `PlayedOnceInOrder`: `SteadyInv`
  says which key a packet of the sender gets (`Located`) and that everything
  buffered is under its own key and newer than what was played (`Placed`); a pop
  is then a step of `OrderedPlayout` and everything else a stutter.
  `ResyncIsBounded`: `ResyncInv` follows a restart. Before it the buffered keys
  lead up to the newest packet without a gap (`InOrder`), so they are less than a
  buffer's worth apart; after it they stay unbroken past the new sequence
  (`Unbroken`). While packets are dropped as late one of three things holds
  (`Recovering`): playout and the whole old sequence are within three buffers'
  worth of the first one dropped; or playout is about to skip ahead; or it has,
  and the next packet starts it over.
- **SessionTxProofs.** `TxInv` has a part for each theorem. `StreamInv`: numbers
  handed out are distinct, in a hand or on the wire, and wrap to their sequence
  number. `DigitInv`: where a digit's task is and what it has sent so far.
  `OverrunInv`: packets begun without reason plus those a callback has yet to
  begin are at most one callback's.
- **CallProofs.** `RecordingInv`: the application's book of recorders agrees with
  the handles of the audio threads at every step of `start_recording` and
  `stop_recording` (`BooksAgree`), frames are appended only under a handle, what
  is on disk is the beginning of what its recorder was handed, up to the last
  frame if saving succeeded (`FilesWhole`), and running recordings miss nothing
  so far. `PlayInv`: what is queued and what was played since playback began add
  up to the pre-buffer. `DialInv`: what
  the sender remembers of the last datagram, and that the digit being sent is
  the last one begun and not over. `DigitsReportedOnce` adds `AgeInv` (a later
  press is younger, all are younger than the call) and `HeardInv` (the receiver
  holds the timestamp of the newest press).
- **NetworkProofs.** `SrtcpInv` from the window lemmas. `StunInv`: no address is
  kept while the client still asks. `SetupInv`: what each stage of a set-up
  owns; since a step of one session leaves the others' ports alone (`OneSession`),
  each is argued alone. `CountInv`: the counters stand at the newest packet
  tracked, and the packet in hand is within the bounds of it. `ReportsTellLoss`
  adds `ToldInv`: all that arrived is counted or about to be, what `snapshot` has
  loaded so far is off by no more than what was recorded since (`Covers`), and so
  is the count the receiver report still waits to use. `WireInv`: an untouched
  datagram parses to what was built; `WireAlwaysAgrees` compares the two header
  readers on any bytes whatever, so cuts and garbling need no invariant.
- **AudioPathProofs.** `Inv` of `VoiceProcessor` adds `KnownIsReported`: while
  rates are being negotiated, what is known of a side is what it reported last.
  Without it `DevicesAgree` is not inductive. `HeldBack` rests on one lemma on
  remainders. `HostInv`: nobody is inside before `PRIMED` is set, and by then
  the COM thread has enumerated, or priming failed. `BuffersInv`: a buffer is an
  unbroken run of numbers up to the last one that came in. `CodecInv`: what was
  negotiated is a function of the description and, unless an `rtpmap` is
  shadowed, timestamps count the ticks of the packets sent and all that is under
  way was coded by that codec; that the search finds the peer's first preference
  is a statement about the least
  position of a line. `G722Inv` compares with the run of an encoder given
  everything in one call (`OneCall`): the encoder stands where it ends, the
  decoder where the bytes not yet decoded begin. `ResampleInv`: the output stands
  for the first `t` samples (`Resampled`), each output sample following the last
  by at most a stride (`Follows`) and, without a failure, at its own place
  (`InTime`); a call adds one `Piece` per chunk.

Statements about all prefixes, pairs or chunks would be inductions; they are
proved by taking the least counterexample, which exists because the order of the
naturals is well-founded. In this way even the recursive functions of `G722` and
`Resampler` are shown to exist and to satisfy their equations.

Left to TLC:

- liveness and fairness, which are out of the prover's reach;
- `ResyncBounded` where the sequence rolls over around a restart;
- `TandemStable`, which has no parameter: TLC tries every 16-bit sample, so the run
  says all that a theorem would.

## 6. Not modelled

- Key derivation and ciphers: arithmetic on bytes, taken as ideal.
- Floating point: the jitter estimate, the analysis and synthesis of G.729, the
  values of resampled samples, the one-shot `resample_linear`.
- The echo canceller (a C++ library), rubato, cpal and libopus: external, modelled
  only by how they are used.
- Level meters, conference mode, sent counters, the single-field readers of
  `src/rtp/mod.rs`, the process-wide default voice configuration, error types:
  values without a protocol.

`PROJECT.json` gives the reason for each component.

## 7. Plan

In this order; all are done.

1. `JitterBuffer`, `JitterStream`, `OrderedPlayout`, and the buffer's proofs.
2. `ReplayWindow`, `SenderRoc`, `Srtp`, `SrtpStream`, `Srtcp`, and SRTP's proofs.
3. `SessionTx`: the concurrent senders.
4. `StreamReceive`, `StreamSend`, `DtmfStream`, `RtpCounters`.
5. `SessionAudio`, `VoiceProcessor` and its proofs.
6. `SessionRtcp`, `SessionSetup`, `Stun`, `RtpWire`: the rest of a session on the
   network.
7. `AudioDevice`, `Resampler`, `CodecSession`, `G711`, `G722`, `G729Frame`: the rest
   of the audio path.
8. Proofs of every safety invariant and action property but those listed at the
   end of section 5, and of the refinement of `OrderedPlayout`.
