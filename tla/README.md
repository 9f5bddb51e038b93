# remote-audio: specification and proofs

remote-audio streams sound over UDP. A *source* captures audio, encodes it with
Opus, encrypts it and sends it to a *sink*, which decrypts, decodes and plays
it. One sink serves up to 16 sources, each in a slot of its own. This directory
holds TLA+ modules translated from the C code, TLC configurations that check
them on small instances, and theorems about them that TLAPS checks.
`PROJECT.json` maps each definition to the lines it models.

## Inventory

Paths are relative to `src/src/` (`src/` is the repository).

| component | state | operations | hard behaviour |
|---|---|---|---|
| encrypted stream, `lib/stream.c` | id, 32-byte secret, `read_nonce`, `write_nonce` | create, reset, write, read, send | replay window, nonces of old sessions, two threads writing |
| protocol and keys, `lib/proto.c`, `lib/crypto.c` | two constant messages | build the datagrams, send, receive, shared secret | the secret is per pair of processes, not per session |
| sink, `app/sink.c` | 16 slots (`ra_audio_stream_t`), key pair, `is_running` | handshake, data, terminate, liveness pass, audio callback, shutdown | main loop, background thread and one PortAudio thread per slot share the slots without a lock |
| source, `app/source.c` | one stream, handshake state 0/1/2, `last_heartbeat`, `is_running` | handshake, heartbeat, timeout, audio callback, signal handler, stop | callback and signal handler against the main loop; repeated handshakes |
| ring buffer, `lib/utils.c` | two indices, a state flag, memory | fill/free count, advance, reset | written by the sink's main loop and read by PortAudio's thread, no lock |
| UDP and sockets, `lib/socket.c`, `lib/*/socket.c` | none | select, send, receive | loss, duplication, reordering |
| threads, `lib/unix/thread.c`, `lib/win32/thread.c` | handle with a mutex | start, join, timed join, destroy | the timed join against a thread that has not started |
| audio devices, `lib/audio.c` | none of its own | find a device, a format, a rate; open a stream | every step may fail |
| configuration, `lib/config.c` | lists of sections and entries, a parser state | parse, look up | positions that do not survive a chunk |
| Windows service, `cmd/win32/service.c` | service status, stop event, two thread contexts | start, control, stop | a stop during start-up |
| logger, strings, integers, command line | none | format, convert, start | none |

They interact so. The sink's main loop receives datagrams and calls the
handlers, which change the slots; its background thread walks over the slots
every second, closes the silent ones and sends heartbeats; each open slot has a
PortAudio stream whose thread empties the slot's ring buffer. The source's main
loop receives datagrams and watches the age of the last heartbeat; PortAudio's
thread sends a datagram for each captured frame; a signal handler sends the
farewell. Sources and the sink share nothing but the network.

What makes each part correct:

* stream and protocol: only the holder of a key can produce or end a session;
* sink: a slot belongs to one source at a time, is not taken from it, and comes
  back when the source left or went silent;
* source: a session is kept while it works, given up when it does not, and
  eventually replaced;
* ring buffer: a byte queue, under every interleaving of its two users;
* threads, teardown, service: nothing is used after it is freed, and a stop
  that was asked for happens.

The hazards, each at its line and with the properties that cover it (and, where the
harm does come about, what the property holds it to), are in
`PROJECT.json`.

## Modules

```
Stream -> Network -> Sink   \
                  -> Source --> RemoteAudio -> MCRemoteAudio
SlotLease (abstract) ......../            \--> HeartbeatMonitor -> MCHeartbeatMonitor
                                           \-> RemoteAudioProofs -> SlotsBoundedProofs -> TimelyProofs
ByteQueue (abstract) ... RingBuf -> RingBufThreads -> RingBufProofs
SinkThreads -> SinkThreadsProofs
Threads -> SinkShutdown -> MCPrograms -> ProgramsProofs
SourceTeardown ........../             (programs: unix sink, win32 sink, source)
WinService -> WinServiceProofs
ConfigParser, AudioDevices -> MCInputs -> InputsProofs
```

`->` extends, `...` instantiates. The programs are looked at from three sides:
the protocol between processes, the threads inside each, and what they are given
to work with.

The protocol:

* **Stream**: `ra_stream_t` and its operations as pure operators. A 24-byte
  nonce is its 64-bit counter (its other bytes are random and never compared).
  The secret is who can compute it; a secret that `malloc` left is `NoSecret`,
  which no other process shares.
* **Network**: the datagrams in flight as a set, so any may overtake any other.
  `SecretOf` is the shared secret: both ends hash the same point and the same
  two public keys, and each process makes its key pair once, so it is a function
  of the two processes. That it is the *same for every slot and session* of the
  two is what several hazards hang on.
* **Sink**: the slot table. `HandleHandshakeInit`, `HandleMessageCrypto` and one
  slot's turn of the liveness pass are one step each, with all they change and
  send. `HandshakeOpenFails` is a device or decoder that refuses the format: by
  then the slot is allocated and its stream keyed, but it stays closed.
* **Source**: each source is one run of the program. An iteration of its loop is
  one step: the datagram, if there is one, and then the timeout check, on the
  state the handler left. `LateCallback` is the audio callback that runs between
  `ra_stream_reset` and `Pa_StopStream`. After `is_running` is cleared an
  iteration in progress still completes, its timeout check included.
* **RemoteAudio**: the composition, with the passing of time, the network's
  losses, the fairness and the properties.
* **SlotLease**: what the sink promises without network or keys: leases that
  sources acquire when free, renew, and that end when their owner left, was
  silent for a whole term, or the sink restarted. A restart is a new `reign`
  (the model's `epoch`), so that it cannot pass for the end of a single lease.
* **HeartbeatMonitor**: RemoteAudio and an observer that counts the ticks since
  a heartbeat of its own slot reached a source.

The threads:

* **ByteQueue**, **RingBuf**, **RingBufThreads**: a bounded byte queue; the ring
  buffer's operations, and the machine of its two users one operation at a time;
  the same two threads one atomic access at a time. `RingBufThreads` keeps the
  double load of the other side's index, the wrap-around of `size_t`, and the
  gap between storing an index, comparing it and storing the flag.
* **SinkThreads**: one slot of the sink, where Sink's atomic steps are taken
  apart. The main loop opens the slot field by field (`audio_stream_open` stores
  `state` before everything it guards), decodes, closes it on TERMINATE, and
  drops a message that the slot's key or nonces do not let it read; the
  liveness pass looks at `state`, then at `last_update`, and closes the slot or
  sends a heartbeat; `audio_stream_close`, in either thread, checks `state`,
  zeroes it, destroys the decoder, stops and closes the PortAudio stream. A
  session is one use of the slot, and its number names its key, its peer, its
  decoder and its PortAudio stream. The histories `overlap` (which two
  activities were under way at once) and `damage` (what went wrong) let a
  property say which overlap a harm *needs*.
* **Threads**: `ra_thread_t`: start, `thread_bootstrap` with its mutex, timed
  join, destroy, on unix and on win32.
* **SinkShutdown**: the life of `sink_main` and its background thread: a set-up
  of which any step may fail, the loop, `is_running`, the join, what is freed
  after it.
* **SourceTeardown**: the life of `source_main` with `audio_callback` on
  PortAudio's thread and `signal_handler` on any thread: what its cleanup frees,
  in which order, under the other two.
* **WinService**: `SvcInit`, `SvcCtrlHandler` on a thread of the system, and the
  two mains that it runs in one process, with the globals they share there:
  libsodium and the two signal messages.

What they are given:

* **ConfigParser**: `ra_config_parse` as a machine over words and the characters
  it looks at (`[`, `]`, `=`, quote, backslash, space, end of line), reading a
  file in chunks. A file is a sequence of well-formed lines of the kinds a user
  writes, each with what it means.
* **AudioDevices**: how both ends find a device, settle on a format and a rate,
  open PortAudio's streams and Opus's codecs, and what the handshake carries
  from one to the other. What PortAudio and Opus answer is external: it may have
  no default device although there are devices.

`MCPrograms` runs SinkShutdown for both platforms and SourceTeardown, and
`MCInputs` ConfigParser and AudioDevices: their parts share no variable, and one
TLC instance serves them all. `MCInputs` extends both, so that its properties are
those of the two modules.

Correspondence of state: in Sink `slot[i]` is `audio_streams[i]`, with `st` "null"
for a null pointer, "closed" for state 0 and "open" for state 1; `upd` and `hb`
are the ages of `last_update` and `last_heartbeat`; `epoch` numbers the runs of
the sink, each with its key pair. `src[s].st` is the source's `state`, `hb` the
age of its `last_heartbeat`, and `run` says where `source_main` is. In
SinkThreads `astream` is `ra_audio_stream_t` with `key` the stream's secret,
`peer` the `conn` and `upd` the age of `last_update`. In SinkShutdown,
SourceTeardown and WinService, `main`, `background`, `svc` and `thread` are
program counters; the other variables have the names of the code.

## Runs

Each property has a fault, an operator named "Fault" in the comments beside the
definition it replaces, under which the run finds it violated.

| run | instance | shows |
|---|---|---|
| `sessions` | 2 sources, 1 slot; loss, duplication, reordering, any heap value | `TypeOK`, `Authentic`, and `LeaseSpec`: the slot table implements the leases |
| `reconnect` | 1 source, 2 slots; every datagram may be lost or late; fair | `SessionPinned`, `SlotsFreed`, `HandshakeCompletes` |
| `timely` | 1 source, 4 slots, one restart; only handshakes are lost, and what is due is done before time passes | `NoSpuriousTimeout`; `SlotsBounded`, at most `LIVENESS_TIMEOUT / HEARTBEAT_TIMEOUT + 2` slots |
| `heartbeat` | 1 source, 2 slots, no loss | `TimeoutMeansSilence` is **violated** |
| `ring_buffer` | 6 bytes, packets of 2, two kinds of packet | `WholePackets`, `QueueSpec`: a byte queue that tears, half drops and is stuck on no packet |
| `ring_threads` | 9 bytes, packets of 3, all interleavings, fair | `TypeOK`, `InBounds`, `KeepsMoving` |
| `ring_drained` | 6 bytes, packets of 2, all interleavings | `DrainedIsEmpty` is **violated** |
| `sink_threads` | two sessions of one slot, all interleavings, fair | `TypeOK`, `DestroyedOnce`, `DecoderAlive`, `HeardSessionsStay`, `SignalsReachPeer`, `NothingLost`, `OneReader`, `SilentSlotCloses` |
| `programs` | the sink on unix and on win32, the source; fair | `ProgramsTypeOK`, `SlotsFreedInPeace`, `HandleFreedInPeace`, `JoinMeansDone`, `StopNeedsNoTimeout`, `AudioOnlyInSession`, `CallbackSafeOutsideSession`, `FirstSignalSafe`, `ProgramsEnd` |
| `win_service` | the service with both mains, any failure, one control at a time; fair | `TypeOK`, `StoppedWhatRan`, `FailureReported`, `MessagesKept`, `StopStops` |
| `win_service_crypto` | the same | `FatalMeansFailed` is **violated** |
| `inputs` | files of up to 3 lines in up to 2 chunks; two devices | `InputsTypeOK`, `ParsedAsWritten`, `LinesResync`, `CodecsFollow`, `BothEndsAgree` |

Many of the thread properties have the form "this harm is done only if that
overlap, failure or second stop came first". The code has no locks and the
harms *can* happen; no doc or test promises otherwise. What the property says is
how far the trouble reaches: for example that a decoder is destroyed twice only
when a closing met an opening or another closing and never under DATA alone,
that a farewell can go astray only if a handshake came for the slot during the
pass's turn, or that the only stop that loses a main is one that came before it
set `is_running`. `ParsedAsWritten` and `LinesResync` are of the same kind: the
parser's test for an end of line before a value (`config.c:122`) is true of no
character, so a key without a value takes the next line as its value;
`LinesResync` says that it takes no further one, and that nothing else puts the
parser out of step, wherever the file is cut into chunks.

### What the violations say

* `heartbeat`: the source resets `read_nonce` when the heartbeat timeout strikes
  and never when a session starts. A message of the old slot that arrives in
  between (the liveness pass sends a TERMINATE when it closes the slot) raises
  it again. If the new session gets the same slot, its id and key are the old
  ones but its nonces start at 1; they are outside the window, are dropped, and
  the source times out again although every heartbeat arrived. With the code's
  window of 32 and a heartbeat every 3 seconds this takes an old session of more
  than 32 messages.
* `ring_drained`: each advance stores its index, compares it with the other's and
  stores the flag. When the other side moves in between, the last flag stored
  may be the older one. A drained buffer then claims to be filled, and the
  callback plays the whole buffer again; mirrored, a full one claims to have
  room and the next packet overwrites sound. The unit test asserts the opposite
  of both, in one thread. `KeepsMoving` shows that the stale flag does not last:
  neither side is stuck.
* `win_service_crypto`: `sodium_init` answers 1 when it ran before, and
  `ra_crypto_init` takes every answer but 0 for a failure, logs that the library
  failed to initialize, and ends the process. In the service, where `sink_main`
  and `source_main` share a process, the second of them does so every time.

### Bounds, and why they are enough

* Time: a tick is a second divided out. The liveness timeout, the heartbeat
  interval and the heartbeat timeout are constants (30, 3 and 10 seconds in the
  code) with 1 to 3 ticks in the runs; ages are capped where the code stops
  telling them apart. Where their relations matter the instance keeps them: in
  `timely` heartbeats are more frequent than the timeout, a liveness timeout is a
  whole number of heartbeat timeouts, so that the sink closes an abandoned slot
  in the tick in which its source times out, and the window holds the heartbeats
  of a liveness timeout (2 at most, in the code 10 of 32).
* `MaxNonce`: nonces saturate there, so later messages stay as new as the
  newest. With 1 every message is inside the window; a message outside it is
  only dropped, which the runs with loss cover. `timely` and `heartbeat`, where
  the window matters, use 4: in `timely` two more than the window.
* `MaxInFlight`: a send beyond it is lost, which UDP may do. Two datagrams are
  enough for one to overtake another, and for an old session's message to meet a
  new session. `timely` uses 400, more than there are datagrams, so that
  nothing is lost there but what `Lossy`, the set of message types the network
  may lose, names; with the timeouts above this is an instance of what the
  theorem of TimelyProofs assumes.
* `MaxEpoch`: the restarts of the sink, one in `timely` and none in the other
  runs. The theorems hold for any number.
* `LateCallback` sends at most one message before the stream is stopped.
* `UninitHeartbeat`: `audio_stream_create` leaves `last_heartbeat` as `malloc`
  finds it. `AnyHeap` has a value that is due at once and one that never is;
  `ZeroedHeap` only the first. `NoSpuriousTimeout` needs `ZeroedHeap`: with the
  other value it is false, which is listed as a hazard; its theorem assumes no more of
  the heap than that. `sessions` uses `AnyHeap`.
* Ring buffer: three packets give every position of the indices and every wrap.
  `ring_threads` has packets of three bytes: with two, an index that lost its
  alignment is never far enough from the end for a copy to pass it, and
  `InBounds` would hold by itself.
* `MaxSessions` (`sink_threads`): two, the least with which a slot is taken again
  while the pass still closes it for the session before.
* `JOIN_TIMEOUT` (`programs`): 3 ticks for the code's 30 seconds; it has to be
  longer than the one second the background thread sleeps, or every join would
  time out.
* `MaxLines`, `MaxChunks` (`inputs`): three lines are enough for a key without a
  value, the line it takes, and one after which the parser is in step again;
  two chunks cut a file at every place. With eight kinds of lines these are 2.2
  million states. Two formats, three rates (one of which Opus has not) and two
  channels give every way in which the two ends can differ.
* Symmetry is used in `sessions` only, over the sources, which the specification
  and its properties never tell apart.

Deadlock is checked in every run. The programs and the service end, and a slot
with nothing to do rests: there a step that changes nothing stands for it, so
that a thread that waits for ever is still found, by the liveness properties.

### Fairness

`TickFairness`: time passes. `SinkFairness`: the background thread makes a pass
every second. `SourceFairness`: the source's `select` has a timeout of a second
(`ra_socket_select` passes a copy, so it stays one), after which the timeout
check runs. `NetworkFairness`: of the INITs and RESPONSES sent again and again
one gets through and can be opened (strong fairness: a dead network would
refute any claim), and a datagram that is not delivered does not stay in flight
for ever. Nothing is assumed of audio, signals, or single datagrams.
`HandshakeCompletes` is about a source that need not share the sink: two sources
could starve each other out of one slot, and the code promises no better.

In `RingBufThreads` packets and callbacks keep coming and a thread inside the
ring buffer is scheduled. In `SinkThreads` both threads run and time passes. In
`SinkShutdown` too, but nothing is assumed of datagrams, of signals, or of when
a new thread is first scheduled: `sink_main` has to end without it. In
`SourceTeardown` the main thread, a callback and a handler that began go on;
`Pa_StopStream` sooner or later finds no callback in progress (strong fairness,
as callbacks come and go). In `WinService` every thread is scheduled, and
nothing is assumed of when a control comes.

## Proofs

All theorems hold for every value of the constants that satisfies the named
assumptions: timeouts and sizes are positive, `NoSecret` is no secret, the sink
is not a source and `NoPeer` is not one either; a packet fits the buffer; a join
waits longer than the thread sleeps. Only SlotsBoundedProofs and TimelyProofs
assume more, in the statements of their theorems.

**RemoteAudioProofs**, for every number of sources, slots and restarts, every
timeout, window and bound, and a network that may or may not lose and duplicate:
`Spec => []TypeOK`, `Spec => []Authentic`, `Spec => LeaseSpec` (the refinement
that `sessions` checks) and `Spec => SessionPinned`.
The invariant is `Inv == TypeOK /\ Authentic`. `Authentic` is inductive with the
types and needs all its parts: that an open slot is keyed with its peer
(`SlotKeyed`) follows only if INITs name sources that started
(`InitAuthentic`); that a TERMINATE readable under a source's key was sent by
that source while leaving (`DataAuthentic`) needs that a source's stream is
keyed for itself and a run of the sink that has begun (`SourceKeyed`), which
needs the same of the RESPONSES in flight (`ResponseAuthentic`). "Has begun"
matters: a restart makes a new key pair, and no older datagram may fit it. Each
step adds at most datagrams that are `Genuine`, and genuine ones stay so
(`StaysGenuine`). The refinement then rests on it: a message accepted in a slot
carries its owner's key, so a TERMINATE that closes the slot is the release of
an owner that left, and everything else a renewal.

**SlotsBoundedProofs**: `Spec => []SlotsBounded` for every number of sources,
slots and restarts and all timeouts, with any datagrams lost, under the two
assumptions `Timely` and `~MayDuplicate`. Without the first a slot need not be
freed in time at all; without the second one INIT opens several slots. The
argument is about when each slot was opened, which no variable says, so the
invariant `CountInv` claims that for each source there *are* ages of the
openings (`OpenedInv`) such that two openings are at least `HEARTBEAT_TIMEOUT`
apart, and a slot was last heard of after its own opening and not after the
next (`Spread`). That needs the whole course of a handshake: a new INIT is sent
only after a timeout's silence since the last opening (`SinceHandshake`,
`RoomForInit`), at most one handshake is under way and it ends within its tick
(`HandshakeInv`), a response and the session it leads to name the newest slot
(`NewestAnswered`, `NewestStreams`), and data for an older one can only come in
the tick of the newest opening (`LateData`). All but the oldest slot were then
opened within the liveness timeout, in different quotients by the heartbeat
timeout, and there are no more of those than the bound says (`Counting`).

**TimelyProofs**, on top of it: `Spec => NoSpuriousTimeout` for every number of
sources, slots and restarts, whatever handshakes are lost. It assumes
`NothingOverdue` (`Timely`, nothing sent on a stream is lost or duplicated, and
buffers for every datagram, so that none is dropped for want of room) and
`TimeoutsFit`: every slot will be due a heartbeat, the interval is shorter than
the timeout, and the window holds the heartbeats of a liveness timeout
(`LIVENESS_TIMEOUT <= WINDOW_SIZE * HEARTBEAT_INTERVAL`; 30 <= 32 * 3 in the
code). That a source heard of its slot when the slot last sent a heartbeat, or
will in this tick (`BeatInv`), gives the property; the rest is there to show that
the heartbeat can be read. A source whose RESPONSE was lost takes another slot
and abandons the first, which goes on counting nonces for it and sends a
TERMINATE when the sink closes it, under the one key that all its slots share.
When the liveness timeout is a multiple of the heartbeat timeout, as in the code,
that happens in the very tick in which the source may be given the freed slot
again, with nonces from 1; and the old TERMINATE then raises `read_nonce` in the
new session. With `WINDOW_SIZE` 0 `NoSpuriousTimeout` is false for that reason.
The invariant bounds the damage: an abandoned slot was last renewed before its
first heartbeat, so it sends at most a window of them (`AbandonedInv`, with
`LateInv` for what is still on its way to it); datagrams with larger nonces are
the session's own (`NewInv`); so what the source has read is never more than a
window ahead of what its slot will send (`ReadInv`). Which slots are abandoned,
and that none is renewed late, is `HandshakeInv` of SlotsBoundedProofs. TLC
found the invariant true on the instance of `timely` before it was proved.

**RingBufProofs**, for every buffer size and packet: `Spec => []TypeOK` and
`Spec => []InBounds` of the two threads' machine, `RingSpec => []WholePackets` and
`RingSpec => QueueSpec` of the operations. All but the last need that packets
divide the buffer, as the code's do. Alignment carries the first three: with packets that divide the size both
indices stay multiples of the packet, every count either thread computes is one
too, whichever of the two loads it came from, so that a packet goes in whole or
not at all and a copy ends at the end of the memory or before it. `RingInv`, the
state is EMPTY or FULL where the indices are equal and FILLED where they differ,
is what makes the operations those of a queue.

**SinkThreadsProofs**, for any number of sessions and any timeout: `TypeOK` and
the six safety properties of `SinkThreads`. The invariant has eleven parts
(`PcInv` and `RecordInv` on what each thread and the recorded overlaps say,
`FreshInv`, `PeerInv`, `UpdInv` on the fields, `HeardInv`, `LiveInv`,
`DestroyInv`, `AliveInv`, `PaInv`, `LostInv` on the resources). Most are of the
form "the overlap that does this harm was recorded, or the slot and both program
counters stand as the code intends"; the second half says, for every pair of
positions of the two threads, which fields belong to which session.

**ProgramsProofs**: all safety properties of the programs, as MCPrograms composes
them. For the sink, with every `JOIN_TIMEOUT` longer than the thread's sleep:
`SlotsFreedInPeace`, `HandleFreedInPeace`, `JoinMeansDone`, `StopNeedsNoTimeout`,
as theorems of SinkShutdown's `Spec`, which leaves the platform open. The
invariant says who holds the mutex (`ThreadInv`), what each place of `sink_main`
implies for the handle and the slots (`MainInv`), that with the flag cleared the
thread is at most one sleep away from its end (`StopInv`), and what a join that
came back tells of the thread (`JoinInv`). For the source: `AudioOnlyInSession`,
`CallbackSafeOutsideSession`, `FirstSignalSafe`. None is inductive: that the
callback is safe needs to know when its stream runs (`StreamInv`: only in state
2, or between `Pa_StartStream` and the store of that state) and what is
still allocated then (`LiveInv`: the cleanup remembers the state it began in, in
`streaming`); that the first signal is safe needs `SignalInv`: a source that
ends without an error was told to, by a signal whose handler is still under way
only if there was another. `ProgramsTypeOK` is proved of all three programs, the
win32 sink included.

**WinServiceProofs**: `TypeOK`, `StoppedWhatRan`, `FailureReported` and
`MessagesKept` of the service. `SvcMain`, the control handler and the two
mains share flags without a lock, so the invariant says for each place of
`SvcMain` which mains were started (`StartInv`), what each main did by then
(`ThreadInv`), what a stop that was asked for found (`StopInv`) and what a join
that is over leaves (`JoinInv`). `CryptoInv` is the surprise: `sodium_init`
succeeds once in a process, so at most one main gets past `ra_crypto_init`, and
that alone keeps the other from using the messages after `ra_proto_deinit`
(`MessagesInv`).

**InputsProofs**, of both parts of `MCInputs`. The devices, for every set of
formats and rates a device may support and `MAX_CHANNELS` at most 2, which is
what Opus takes: `Spec => []CodecsFollow` and `Spec => []BothEndsAgree`.
`SourceInv` says that what the source opened is what it settled, from the two
lists of `audio.c`, and what its handshake says; `SinkInv`, that what the sink
opened is that message. The first supported rate of the list is a rate of Opus
(`RateFound`), so neither codec fails.

The parser, for files of any number of lines, of the kinds in `Lines`, read in
any number of chunks: `InputsSpec => []InputsTypeOK`, `[]LinesResync` and
`[]ParsedAsWritten`. None of the three is inductive, since they speak of the ends
of lines only. `PlaceInv` says where the parser is at every character: it is so
far in line n + 1, and there either at its start, with the sections of the n
lines before it (`Starts`), or taking the line for the value of the key before
(`Swallows`), or between the landmarks of the line (`Landmarks`: where its key
begins and ends, where its value begins and ends) in the state that belongs to
that stretch, with `q` at the right landmark and the sections of n lines, of n
lines and the key, or of n + 1 lines. All but the state and the position are
claimed only as long as nothing was torn and every key had a value. `TypeInv`
adds the types, that the text is that of the lines, and the list of sections
(`LinkInv`: `prev` is the last section or none, and only a torn chunk makes it
none). TLC found these parts true of files of two lines in three chunks before
they were proved. As ends of lines never repeat (`EndsGrow`), a parser at one is
at the start of a line or swallows it (`AtEnd`); that is `LinesResync`, and with
`Starts` the first half of `ParsedAsWritten`, the sections. The second half, the
look-ups, has nothing to do with the parser any more: `Reads(n)` says of what
the first n lines mean that the last section is that of the last header, that it
is the first of its name exactly when its header is, and that each look-up finds
what was written, and it passes from each line to the next.

Text, strings, sections and ends of lines are folds, and what a fold computes is
shown by induction. The library's induction theorems take an operator and cannot
be used here, but a set does as well: `Least` takes the least number of a set from
the well-foundedness of `<`, a theorem of the library without a parameter;
`Induction` follows from it for the set of the numbers that have the property,
and `Recursion`, that a function defined by recursion over an interval exists,
follows from that. `string_unescape`, `Meaning` and `Ends` are therefore
recursive functions.

Only model-checked: liveness under fairness (`SlotsFreed`, `HandshakeCompletes`,
`KeepsMoving`, `SilentSlotCloses`, `ProgramsEnd`, `StopStops`), which, like
ENABLED, is out of the prover's reach. Every safety property of a passing run has a
theorem.

## Not modelled, and why

* The bytes of the datagrams and their lengths: a datagram is what its sender
  built. Datagrams that no source or sink sends are not modelled, except the
  empty one, which ends the sink (`SinkShutdown`). An INIT with a cut or unusable
  public key, which `handle_handshake_init` answers with an early return
  (`sink.c:240`, `sink.c:248`), is one of them.
* The undefined part of a failed `ra_thread_start` on unix (`thread.c:67`):
  `ra_thread_destroy` also detaches a thread that was never created. The model
  has what the code means there: the handle is gone and null is returned.
* Opus and PortAudio: sound is the packet a byte belongs to; whether a stream
  opens is a free choice, or a table of what the device supports.
* The audio callback's own `audio_stream_close` for a frame of another size
  (`sink.c:69`): PortAudio calls back with the size the stream was opened with,
  so no run of the program takes that branch.
* Logger, byte order, address resolution, command-line programs, tests: no
  state. `strstrip` and `strequal` are part of ConfigParser; that the logger
  closes one file twice is an outcome in WinService.
* The service's commands install, uninstall, start and stop: each is a sequence
  of calls of the system's service manager and keeps no state of the program.
* `ra_thread_join` without timeout has no caller.

## Plan

Done: every part above. What is left:

1. A composition of SinkThreads with SinkShutdown: a slot that is being closed
   while `sink_main` destroys all slots.
2. More than one slot in SinkThreads, for the order in which the liveness pass
   and `ra_audio_stream` allocation walk over the table.
