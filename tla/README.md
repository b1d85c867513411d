# OneClickKVM in TLA+

OneClickKVM shares one keyboard and mouse between Windows PCs on a LAN. Each PC
runs the same program: it discovers the others, opens an encrypted TCP session
with each, and one of them, the *master*, captures its keyboard and mouse and
routes them to the PC the cursor has moved to. This directory holds TLA+ modules
of the parts of it that are concurrent or hard to get right, TLC configurations
that check them on small instances, and TLAPS proofs for every instance.

Line numbers refer to the files under `src/`. `state.rs` and `commands.rs` are in
`src/app/src-tauri/src/`, `session.rs` is `okvm-net`'s, `win32.rs` is
`okvm-input-capture`'s unless a crate is named.

## 1. Inventory

| component | state | operations | hard because |
|---|---|---|---|
| AEAD channel (`okvm-crypto/aead.rs`) | send counter, largest counter received, 64-bit window | `seal`, `open` | reordering, duplicates, corrupted frames, counter limit |
| Master switch (`state.rs` 956-1092, `okvm-switch`, `win32.rs`) | two process-wide statics (`HOOK_STATE`, `SUPPRESS`), the capture handle, a loop's `current_target`, the engine's `current` | `become_master`, `stop_master`, hook callbacks, `on_input`, the loop | a hook thread, a watcher task, a loop and the registry run concurrently; the loop blocks on a peer's channel; three places remember where the cursor is |
| Session registry (`state.rs`, `commands.rs`) | `sessions`, `peers`, `grid_id_by_device`, the engine's grid, `peers.json` | registration, `on_close`, `unpair_peer`, discovery and auto-reconnect, `start_services`, `stop_services` | five structures under five locks, changed by tasks on several worker threads; closes race registrations |
| Session tasks (`session.rs`, `SessionRef` in `state.rs`) | per side: typed channels, write channel, ten tasks, five inbound tasks | send, encode, write, read, demultiplex, heartbeat, watchdog, GoodBye, shutdown | bounded queues on both sides, tasks that end at different moments and for different reasons |
| Handshake (`okvm-net/handshake.rs`, `okvm-crypto/handshake.rs`, `kdf.rs`) | transcript, keys | four messages under one timeout | many in parallel, on tasks that outlive the listener; a side may finish when the other fails |
| Pairing mode and ACL (`state.rs` 252-423, 644-723) | PIN, expiry, failed attempts | `start_pairing_mode`, `stop_pairing_mode`, the ACL closure | parallel handshakes, expiry, unpairing during a handshake |
| Listener, connector (`okvm-net`) | tasks per connection | accept, connect, timeouts | accepted connections outlive the listener |
| UDP + FEC (`okvm-udp`) | pending frames, list of resolved ones | `send_frame`, `recv_frame` | loss, duplicates, reordering, eviction |
| UDP audio (`okvm-net/udp_audio.rs`) | transport of each side, pinned address, the sender made late | sender and receiver task, pinning, close | one task learns the address in the middle of the other's stream; the sides may differ in their transport |
| File transfer (`okvm-files`) | per sender: entries, permits, tasks with offset and hash; receiver: a table of transfers with a slot per open file | `send_files`, parallel tasks, `start`, chunk, complete, cancel | parallel tasks over one bounded channel, calls that fail half-way, files that change meanwhile, transfers to the same place |
| Frame codec, messages (`okvm-protocol`, `codec.rs`) | reassembly buffer | encode, decode | incremental decoding |
| Grid geometry (`okvm-switch`) | rectangles of peers, where they are placed | `exit_edge`, `neighbor`, `by_hotkey`, the placing of a new peer | exclusive ends, negative origins, gaps |
| Configuration (`okvm-config`) | `peers.json`, `config.json`, the identity, their temporary files | load, save through a temporary file, migration of the identity, reset | crash between two calls, concurrent saves of one file, several writers of one configuration |
| Discovery (`okvm-discovery`) | mDNS daemon, UDP broadcast | announce, listen, shutdown | best-effort I/O |
| Sharing screen and sound (`state.rs` 425-540, `okvm-video/win32.rs`, `okvm-audio`) | capture handle, capture thread, bridge, fan-out, the codec a receiver uses | start, stop, capture, encode, fan-out, decode | a start that times out, a codec announced before its encoder is made, a peer that is stuck or joins late |
| Asynchronous encoder (`okvm-video/mediafoundation_async.rs`) | credits, queue of frames, event pump, drain acknowledgement | `encode_rgb`, `force_keyframe`, `drain`, drop; the worker loop; events of the transform | four queues between three threads; credits lost or invented; drop while the worker waits |
| Keyboard and mouse (`okvm-input-capture`, `okvm-switch`, `okvm-input-inject`) | keys held, keys down on each PC, cursors, dwell and cooldown | hooks, `on_input`, the loop, `SendInput` | keys across a switch, time between events, coordinates of two desktops |
| Clipboard, wake-on-LAN, power, logging, translations, IPC types, Svelte interface | little or none | one-shot calls | |

How they interact. `start_services` spawns the listener, a dispatcher that
registers accepted sessions one by one, and the consumer of discovery, which may
reconnect a paired device. A registered `SessionRef` owns the senders of the
session and the tasks that consume what it receives; the first of these tasks
to end runs `on_close`, which takes the session out of the registry, marks the
peer offline and removes it from the grid. The master loop looks its target up
in the registry for each event, through the grid identifiers the engine decides
with. Commands of the interface (pairing, unpairing, start, stop, master mode)
run on any worker thread at any time.

What makes each part correct:

* AEAD: a nonce is used once; a message is opened once; nothing fresh is refused
  without need.
* Master switch: the local input is swallowed exactly while it is routed to a
  peer; loop, engine and statics agree once everything settles; the user gets the
  cursor back by hotkey 0 and when the peer is gone; the handle controls the hooks.
* Registry: sessions, peers, grid, mapping and `peers.json` agree at rest; what is
  found in the registry was not stopped; a live session is in it, and one that ends leaves it.
* Session: each kind is delivered in order; what was sent arrives unless something
  fails; both sides learn that a session is over, and its tasks end.
* Handshake and ACL: both sides derive the same keys for the same channels; a device
  that is not paired enters only with the current PIN, at most five times wrong; a
  device does not believe in a session that it was refused; every handshake ends.
* UDP + FEC: a frame is delivered at most once, and from any K of its shards.
* UDP audio: no nonce is used twice; what waits when the address becomes known arrives; the
  sender never waits for the address.
* Files: a file reported verified is on the disk as it was read; no message meets a
  receiver that does not know its file; a transfer ends.
* Configuration: wherever the process is killed, a file holds its old value or its new
  one, and the next start uses the same identity; `peers.json` follows the list in memory.
* Encoder: frames come out once and in order; a credit is neither lost nor invented;
  frames go on flowing; `drain` brings back what was accepted; drop returns.
* Sharing: a receiver decodes with the codec of the stream it is given; a slow peer holds
  nobody up; a start that fails leaves no capture behind.
* Keyboard and mouse: a key is down on the one PC that has the input; a user who pushes the
  cursor against an edge gets to the peer behind it; the PCs lie in the grid side by side.
  The last holds of the peers' primary screens only: a screen left of a primary one overlaps
  what is placed before it (section 3, findings).

`PROJECT.json` lists each hazard of this code at its line, and the properties that
would catch it.

## 2. Modules

| module | models | composes or refines |
|---|---|---|
| `AtMostOnce` | abstract: what was sent is delivered at most once | |
| `ReplayWindow` | one direction of an AEAD channel | implements `AtMostOnce` |
| `MasterSwitch` | captures, hook threads, statics, master loops, engine, and the registry as the loop sees it | |
| `SessionRegistry` | registration, closing, unpairing, discovery, services | |
| `OrderedChannel` | abstract: links that deliver in order, each message once | |
| `SessionTasks` | the tasks of both sides of a session and the connection | implements `OrderedChannel` |
| `Admission` | parallel handshakes, pairing mode, access list, hand-over to the dispatcher | |
| `UdpFec` | frames sent as shards over UDP, their reassembly | extends `ReplayWindow`, implements it and `AtMostOnce` |
| `UdpAudio` | the sound of one session: TCP or UDP, the two tasks, the pinned address, the close | takes `UdpFec` as a network that delivers once |
| `FileTransfer` | `send_paths` and its tasks, the sessions, the receiver's table and files | |
| `ConfigStore` | the files of the configuration, every save call by call, crashes, start and reset | |
| `EncoderChoice` | operators: which encoder a machine gives | |
| `VideoEncoder` | the asynchronous encoder: caller, worker, event pump, transform | extends `EncoderChoice` |
| `MediaShare` | a share of screen or sound from capture to the peers | extends `EncoderChoice` |
| `Grid` | operators: rectangles, edges, neighbours, entry points, placing | |
| `InputRouting` | hooks, engine with its clock, loop, injection, keys and cursors | extends `Grid` |
| `*_proofs` | theorems and proofs about the module named; `UdpFec_proofs` has those about `ReplayWindow` and `UdpAudio` too, `InputRouting_proofs` those about `Grid`; `Connection_proofs` is about `Admission` and `SessionTasks`, `Media_proofs` about `VideoEncoder` and `MediaShare` | |
| `MC*` | bounds and disciplines for TLC | |

### ReplayWindow

`next_seq`, `max_recv`, `recv_window` are the fields of `AeadSession`; the bitmap is
the set of the offsets whose bit is set, `Shifted` keeps the offsets below the width.
`seals` and `opens` are histories. The cipher is ideal: a ciphertext authenticates
exactly under the counter it was sealed with. The network is implicit: `OpenAuthentic`
takes any counter ever sealed, in any order and any number of times, `OpenCorrupt`
any counter at all. `MaxSeq` stands for `u64::MAX` and `W` for 64.

### MasterSwitch

A capture is one call of `become_master` that gets past its first check: a hook
thread (`thread`: its channel published, its identifier reported, its hooks set, its
message loop left), the queue of events to its loop (`queue`, the std channel, the
bridge and the tokio channel in one), the watch channel of its suppression request
(`watch`, `dirty`), and the loop (`pc`, `current_target`, `dest`). `HOOK_STATE`,
`SUPPRESS`, `capture_handle` are shared by all captures, `current` and
`last_edge_hit` are the engine's. The loop is cut at each lock it takes and each
await that may block: `Recv` (the engine's lock), `Resolve` (the mapping), `Enter`
and `Forward` (the registry), `EnterSent` and `Forwarded` (a send on a full channel).
Geometry is abstracted to "inside" and "past an edge behind which any peer may be the
neighbour", the cooldown and the dwell to a choice: `InputRouting` has them as they are.
A grid identifier is named by its peer as long as it has one: when the entry leaves the
grid, a decision that still has the identifier is for `Gone`, and is abandoned also if the
peer returns under another. A WM_QUIT posted to a thread that has reported its identifier
and not yet made its message queue may be lost (`Stopped`). The history `adrift` says that
the loop has not followed the engine's last decision: it abandoned it (`Resolve`), or gave its
target up (`GiveUp`), and the engine keeps a peer the loop does not. One simplification to know of:
a hotkey event is typed with its modifiers, others being "other".

### SessionRegistry

A connection goes through the stages of its registration one lock at a time
(`stage`: peers, session, map, grid, snapshot, write), its `on_close` likewise
(`closer`), and so do `unpair_peer` and the handling of an announcement. `gone` are
connections an inbound task of which has ended and will run `on_close`; `aborted` those whose
inbound tasks `SessionRef::shutdown` has aborted: a task past its last await is not stopped
by that, and such a connection may be both. `replaced` are those whose
`SessionRef` was dropped by an insertion under the same device. Saves of `peers.json`
may fail. Two histories say what met: `crossed` has the devices two operations of which
were under way at once, or two connections of which were alive, and `lastSave` says whether
the last save began while another was under way, or failed. A grid identifier is
named by the connection that drew it. Handshakes succeed or fail; the access list is
not consulted, so that any device may register, which includes every run it allows.

### SessionTasks

Both sides of one connection. `appq`, `writeq`, `wire`, `inbox` are the four queues a
message passes; a task is in the set of its kind (`writer`, `reader`, `hb_sender`,
`hb_watchdog`, `inbound`) while it runs, the shutdown task has three states. The typed
channels that carry data are `Data`; the control channel carries heartbeats and
GoodBye only, since nothing sends a Ping. A write channel closes when its last clone
of `write_tx` is dropped: encoders, heartbeat task and shutdown task hold one each.
The end of the writer closes the outgoing direction, what TCP has taken being
delivered first. The reader gives up at a frame it cannot decode or open
(`ReaderGivesUp`, history `garbled`); the connection is closed when its writer has ended
too (`Closed`). `Break` is a connection failure, `Exit` the end of a process.
When both sides have a UDP socket the session is started with `start_with_udp`, which takes
audio off the TCP connection and adds two UDP tasks; the model is of the kinds that stay
on TCP, `UdpAudio` has the sound.

### Admission

Connections are numbered in the order they are opened. For each, `client` and `server` say
where the two drivers are, `c2s` and `s2c` hold the messages written and not yet read. A
driver may fail at each of its reads: the timeout, which is over the whole handshake, a
broken connection and the end of the other side are the same event for it, and what it had
written can still be read. The access list takes two locks one after the other:
`AclPeers` under that of the peers, `AclPin` under that of the pairing mode, which it holds
from its look at the mode to the end of the decision. `start_pairing_mode` takes the
latter twice, hence `StartCommand` and `DrawPin`. PINs are numbered as they are drawn, so
that two of them never coincide by chance; a device may offer any PIN drawn so far, or 0
for a wrong or missing one. `Dispatch` stands for the bounded channel and the
dispatcher: it registers the session, or drops it if the services it was accepted under
(`born`) are gone. Of the registration only `paired` matters here; `SessionRegistry` has
the rest. `wrong`, `ground` and `granted` are histories.

### UdpFec

`pending` has the shard indexes of each entry of the `BTreeMap`, `{}` where there is none;
`before` is the order in which the entries were inserted, that is their `inserted_at`;
`resolved` is the list of that name. A step of `RecvShard` is one round of `recv_frame`
with one datagram: the look at the list, the eviction, the collection of the shard and,
with K of them, the list, the decoding and `open`. The sender's shards are on the network
once the frame is sealed; any of them arrives at any time, any number of times or never,
and a corrupted one with any number and index besides. An entry with a corrupted shard is
`spoiled`: its frame is not decoded or does not authenticate. What `recv_frame` ignores
(another source, other parameters, a header that does not parse) changes nothing here.
`arrived` and `dropped` are histories. K, M, the 256 entries and the 256 frames remembered
are parameters.

### UdpAudio

`route` is what `Connector::connect` and the listener made of their binds and of the port
announced: a client on UDP has a server on UDP, not the other way round. `sender` is "waits"
while a server has no `UdpFecSender`, `frame_seq` the counter of the AEAD session inside it,
`remote_addr` the address shared by the two tasks of a pipe. Messages are numbered per side;
the first stands for StreamStart. `sent`, `opened` and `lost` are the frames under way and
what became of them: any order, at most once, as `UdpFec` delivers; `unsent` is a history of
the messages dropped for want of an address. A receiver that opened a
frame pins the address, then waits for room (`HandOver`). `OnClose` is the removal of the
`SessionRef`, which aborts nothing; `Shutdown` aborts the inbound task too. Audio over TCP is
one step in order (`OverTcp`), which ends in nothing at a side that uses UDP.

### FileTransfer

A transfer is a call of `send_files`. `snd` says how far `send_paths` is, `task` what each
of its file tasks has read and hashed, `chan` the messages of a session, `transfers` is
the receiver's table, `disk` what is at the destination paths. A file is a sequence of
units, a chunk up to `ChunkUnits` of them, so that files end within a chunk or at its end,
and the hash is the sequence it was computed over. A path is a sequence of components,
some of which `validate_rel_path` refuses or leaves out. The permits are the tasks in
`Running`. The receiver closes a file it is told is complete in one step (`CloseFile`) and
judges it in another, for it flushes the file in between, and the flush may fail
(`OnComplete`). Faults, each counted: a call of the file system that fails (on either side),
a file that another program changes while it is sent, a session that is cut with a part
of what was under way, a cancel, which the protocol has and this program never sends.

### ConfigStore

`path` and `tmp` are what is under the two names of each file: a complete value, nothing,
or `Damaged` (created and not yet written, or filled by two saves at once). A save is a
job in four steps: open, write, rename, and for the identity the removal of the older
file; `at` follows the open file through renames and removals. Each call may fail, which the
callers log and forget, except at the start, which fails with it. Reading `Damaged` fails,
which the callers take for an empty list or the default configuration. `Crash` ends the
process between any two steps. Saves of one file may overlap: `mixed` is the history of the
saves that did and are still under way, `exact` says that the last save of the peers to end
was alone and succeeded.

### EncoderChoice, VideoEncoder, MediaShare

`EncoderChoice` is the chain of constructors: a machine is a D3D11 device or none, the
hardware transforms it lists with the set-ups each gets through (of the asynchronous
encoder, of the synchronous one), and whether the software ones can be set up.

`VideoEncoder` cuts the worker's loop at each of its phases (`worker`: setup, the events, the
commands, the input, the match of credits with frames), so that caller and transform act
between them. The transform is external; its contract is modelled as the code relies on
it: a request gives one credit, outputs come in order, up to `Lag` inputs are kept back.
`armed` is the outstanding `BeginGetEvent`, without which no event arrives; the call may
fail, which the worker logs, and the pump has stopped (`unarmed`). Credits the
transform gave are counted on both sides (`mft.credits` and `needs`).

`MediaShare` has one share with several calls of its start. `call` is the command, `cap`
the capture thread, `bridge` and `fan` the two tasks, `chan`, `link` and `frames` the queues
between them, `rx` what a peer makes of what it gets. The two media differ in how a frame is
coded; a behaviour is about one of them. A frame is its number, `pay` the frames whose bits
a message carries, so that an encoder that keeps frames back is visible. A peer in `Slow`
takes nothing, one may join late; the machine may change between the two encoders that
`run_capture_thread` and its handler make. An encode may fail, for good on a machine whose
screen is `small`. The capture learns that nobody listens when it sends what it has coded
(`CaptureEnds`, on a machine that `Codes`).

### Grid, InputRouting

`Grid` has the operators of `okvm-switch` on rectangles with exclusive right ends, the
placing of a new peer (`register_session_with_grid`) and the entry of this PC
(`initialize`). `InputRouting` is the path of an event: `MoveMouse` and `PressOrRelease` are
the hooks, `queue` the events on their way, `Loop` one iteration of the master loop with
the engine's decision and the injection on the target, `StoreSuppress` the task that stores
the suppression, `Tick` 20 ms. The age of the last switch and of the last edge hit stop
where they have passed their thresholds (80 and 20 ms). A remote cursor goes where
`SendInput` takes it: the position in 65535ths of the virtual desktop, rounded and clamped
(`Normalised`), and the pixel the system makes of that (`Pixel`, external). `held` is what the user's fingers
hold, `pressed` what the system of each PC takes to be down: a key of the local keyboard
that the hooks let pass goes down here, one that is forwarded goes down there. `crossed`
is the history of the keys held at a switch, of which the code promises nothing. A button
is a key, and the move its event makes first is a move. Joining and leaving are single
steps, since `SessionRegistry` and `MasterSwitch` have their interleavings.

## 3. Runs

All passing runs together fire every action and every disjunct of the next-state
relations they use.

| run | instance and bound | shows |
|---|---|---|
| `master_one` | one capture, two peers, one event in flight, one registry operation under way | the static follows the loop, and loop and engine agree, unless the loop has not followed the engine's last decision; hotkey 0 and vanished targets while no send stays blocked |
| `master_restart` | two captures, one peer, registry quiet once the second is started | overlapping starts and stops: `Inv`, with the request that follows the target and the handle of a live thread |
| `registry_ends` | two devices, two connections, one accepted and one opened; one registration, unpairing, announcement or stop at a time, met by ends of connections and steps of `on_close` anywhere; nothing begins once two operations on a device have met (`Bounded`) | `Inv`: no stopped session registered, no dangling mapping; the five structures agree about a device at rest no two operations of which met; a session whose end is noticed while the registry holds it is forgotten, whatever met |
| `session_tasks` | one data channel with two messages one way, GoodBye both ways, all queues of one slot, frames the reader cannot take | order, arrival, mutual close |
| `admission_ends` | two complete handshakes, one PIN with two attempts, services started twice | `AdmissionInv`: attempts bounded, who is paired was granted, no half-open device; every handshake ends |
| `udp_fec` | three frames of three shards, two of which are enough, and a fourth number that only corrupted shards carry, two entries, two frames remembered, window 2, at most one frame given up (`OneDropped`) | K shards deliver; limits; nothing fresh refused; no resolved frame starts again; implements `AtMostOnce` |
| `udp_audio` | two messages each way, channels of one, every outcome of the binds, any loss and order, either close on either side | nonces used once, messages heard once; late frames arrive; the sender task goes on and ends |
| `file_transfer` | two transfers over two sessions: a directory with a file of a chunk and a half and an empty one, and a file that goes to the same place; one permit, channels of two messages, one fault | files verified are on the disk; messages find their slot; `send_paths` and the transfers end |
| `config_store` | two tasks that save peers, at most two saves or resets under way (`MaxJobs`) and one temporary file on the disk (`MaxTmp`), failing calls and crashes anywhere, two windows, two identities, the older identity or none, one peer; symmetry over the tasks and the identities | old or new, the same identity, peers saved |
| `video_encoder` | three frames, a queue of one, a transform that asks for two and keeps one back, one command, one failing call, two lists of candidates | order, credits, drain, flow, drop |
| `media_share` | two starts that may overlap, three machines, one stuck peer and one that may join late, streams of two frames and one, channels of one message, one fault, encodes that fail for good on a small screen | starts that fail end when frames are captured and coded, codecs match, streams go forward, slow peers are harmless |
| `input_routing` | two peers with one of two layouts, a desktop of one screen, a digit key, moves of nought, one right, one right and down, one event in flight, grid up to abscissa 3 | primary screens in order, cursors on the screens, keys in one place, pushing switches |

Why the bounds are enough, module by module:

* `MasterSwitch`: two captures are what an overlap of `become_master` needs. One event in
  flight is enough for every state of the loop, because each event is handled from a state
  that the previous ones left.
* `SessionRegistry`: two connections are what two sessions with a device need, or a device whose
  operations meet beside one that must not suffer from it; the number of
  devices matters only for the hotkeys and for `peers.json`, where two make the difference. The run
  lets ends and `on_close` meet everything and starts one other operation at a time. That `Inv` and
  `AgreesAtRest` hold when all operations interleave at every lock is proved, for every number of both.
* `SessionTasks`: queues of one slot block at every opportunity, and two messages are what
  order needs. `MCSessionTasks` lets one side send data and heartbeats, the other only
  leave: the two directions share the end of the session, which it keeps in full, and the
  watchdog, which changes nothing but itself, acts last.
* `Admission`: the two handshakes of `admission_ends` share only the mode, the peers and the
  services; two attempts are the least of which one may be left. That a third handshake
  cannot use more is `AttemptsBounded`, proved for every number of them.
* `UdpFec`, and `ReplayWindow` within it: a third frame finds the map full, three resolved
  ones make the list forget the first while the window of two has passed it or not, and one
  frame given up is enough for another to be completed after an eviction, a timeout or a
  corruption; the frames stop at the limit of the counter. `UdpFec_proofs` has every
  width of the window.
* `UdpAudio`: of two messages one is dropped and one is sent when the address becomes known
  between them, and two reuse a nonce if a sender is made twice. Channels of one block the
  receiver and turn messages of the fan-out away.
* `FileTransfer`: two transfers to one place are what an overwriting needs. With one permit
  the second file of the directory waits until the first has given it back, by its end or its
  failure; files in parallel are those of the two transfers, and the proofs have any number of
  permits. A chunk and a half ends within a chunk, the
  empty file sends none. Two messages in a channel let one task overtake another and block.
* `ConfigStore`: two saves under way are what an overlap needs, of one file or of two, with a
  crash or a failing call between any two calls; a save may be the third one, after two that
  overlapped. A reset counts as a save under way. The proofs have no bound; the findings have five jobs.
* `VideoEncoder`: a queue of one is full with the second frame, a transform that asks for two
  before it gives one has credits to spare, and the one it keeps back is what a drain is for.
  The third frame is taken when the first is out.
* `MediaShare`: two starts overlap in every way a third would; of the peers one is stuck for
  good and one joins late, the two ways in which they differ. Two frames go through a channel
  of one while the codec may change.
* `InputRouting`: the second peer gives a distance between peers and an order of placing,
  the screen left of the primary one negative coordinates. The digit key is hotkey and key at
  once. 20 ms is the dwell, and a fourth of the cooldown.

There is no run that expects a violation. Where a comment, a test or the README of the
repository says what the code does not do, `findings` in `PROJECT.json` quotes both, and a
configuration that no run uses shows it; TLC stops at the first property violated, so the
others are seen one at a time, by leaving only one in the file.

| configuration | module | properties that fail |
|---|---|---|
| `MasterSwitch_findings.cfg` | `MCMasterSwitch` | `EngineAgrees`, `MasterHearsHooks`, `SuppressedIffAway` |
| `MasterSwitch_stalled.cfg` | `MasterSwitch` | `HotkeyAlwaysReturns`, for a peer that takes nothing |
| `SessionRegistry_findings.cfg` | `MCSessionRegistry` | `PersistedIsPaired`, `GridIsMapped`, `SessionIsShown` |
| `SessionRegistry_at_rest.cfg` | `MCSessionRegistry` | `HotkeysDistinct`, `ShownHasSession` |
| `SessionRegistry_overlap.cfg` | `MCSessionRegistry` | `LiveSessionRegistered` |
| `SessionTasks_findings.cfg` | `MCSessionTasks` | `GoodByeEndsWriter` (writer and heartbeat task keep each other alive), `LateIsCut` |
| `Admission_findings.cfg` | `Admission` | `PinUsedOnce`, `PinStays`, `UnpairedNeedsPin` |
| `UdpFec_fifo.cfg` | `UdpFec` | `EvictsOldest`: the entry evicted is the smallest frame |
| `UdpAudio_findings.cfg` | `UdpAudio` | `SharedIsHeard`, `BufferedUntilPin`, `FramesFollowStart`, `FallbackIsHeard`, `TasksEndWithSession` |
| `FileTransfer_findings.cfg` | `MCFileTransfer` | `OfferedArrives`, `VerifiedIsWritten` |
| `ConfigStore_findings.cfg` | `ConfigStore` | `WindowSaveKeepsSettings`, `AlwaysOldOrNew` (saves that overlap), `ResetForgets` |
| `VideoEncoder_findings.cfg` | `MCVideoEncoder` | `NextFrameIsKey`, `DrainReturnsAll`, `PumpGoesOn`, `WorkerFollowsOwner` |
| `MediaShare_findings.cfg` | `MCMediaShare` | `SharingMeansCapturing`, `PeersCanShow`, `StopStops`, `NothingFlushed` |
| `InputRouting_findings.cfg` | `MCInputRouting` | `EdgeFindsNeighbor`, `HitIsOver`, `DesktopIsClear`, `PeersDisjoint`, `EnterIsLocal`, `KeysComeUp`, `MoveIsReprojected` |

Several properties of the passing runs leave out by name what these configurations show:

| property | leaves out | shown by |
|---|---|---|
| `MasterAgrees` | a second capture; between loop and engine, the time after a decision not followed (`adrift`) | `MasterHearsHooks`, `SuppressedIffAway`; `EngineAgrees` |
| `HotkeyReturnsLocal`, `VanishedTargetReleased` | a send that stays blocked | `HotkeyAlwaysReturns` |
| `AgreesAtRest` | a device two operations of which met; for `peers.json`, saves that overlapped or failed | `LiveSessionRegistered`, `SessionIsShown`, `GridIsMapped`; `PersistedIsPaired` |
| `EndedSessionForgotten` | an end noticed before the session is inserted | `SessionIsShown` |
| `OldOrNew`, `PeersAreSaved` | saves that overlap; `PeersAreSaved` also a last save that failed, and a reset | `AlwaysOldOrNew`, `ResetForgets` |
| `VerifiedOnDisk` | a failed write, a file another transfer opened | `VerifiedIsWritten` |
| `FramesFlow` | an event pump that has stopped, credits lost to failures, a transform that is drained | `PumpGoesOn` |
| `FailedStartEnds` | a capture that gets no frame, or can code none | |
| `FollowsItsCodec` | a machine that changes between two constructors, a frame Opus refuses | |
| `Inv` of `InputRouting` | screens of a peer left of its primary one, and those of this PC | `PeersDisjoint`, `DesktopIsClear` |
| `KeyInOnePlace` | a key held at a switch | `KeysComeUp` |
| `PushSwitches` | an engine that keeps a peer the loop has given up | `EngineAgrees` |

## 4. Fairness

* Master switch: weak fairness of each step of a loop that it can take without waiting
  for a peer, and of the watcher that stores the suppression: both are spawned tokio
  tasks on a multi-threaded runtime. None for users, hook threads, registry
  operations or a send blocked on a full channel: those depend on someone else.
  `HotkeyReturnsLocal` and `VanishedTargetReleased` state what they need of those sends as a
  premise: the loop is not blocked for good (`[]<>~Blocked(c)`).
* Registry: weak fairness of the steps of `on_close`, once a task that runs it has ended: it
  waits for nothing but locks held for a moment. None for registrations, commands, handshakes or
  the ends themselves.
* Session: weak fairness of each task that can run; strong fairness of the tasks that
  wait for room in the write channel (encoders, shutdown task, and in `BeatingSpec` the
  heartbeat task), because a tokio channel queues its waiting senders in order. None for
  the application, the network or failures.
* Admission: weak fairness of the failure of each driver, which is its timeout, and of the
  access list and the hand-over, which wait for nothing but locks. None for messages, users
  or services: a handshake has to end without them.
* UDP audio: weak fairness of the sender, receiver and inbound tasks and of the close of a
  side whose peer has closed (`CloseIsMutual` of `SessionTasks`); strong fairness of the
  reception of a frame, which is lost or waits in the socket while the receiver task is at
  another. None for the shares, the network's losses or the first close.
* File transfer: weak fairness of what a sender can do (its next file, its tasks, the wait for
  permits) and of the task that handles what a session receives: spawned tasks, and a
  channel that is taken from. None for users, failing calls, programs that
  change files, or the cut of a session.
* Configuration: none; every property is about what a step or a crash may do.
* Encoder: weak fairness of the worker's loop and of the callback it armed; of the transform
  in what its contract promises (it asks for input while it has room, encodes when it cannot
  wait for more, answers a drain); of the caller once it waits in a constructor, in `drain` or
  in a drop. None for frames, commands or failing calls.
* Sharing: weak fairness of the command, the capture thread, the two bridges, the fan-out,
  and of a peer that is not in `Slow`. None for frames captured, the user, the faults or the
  peers that join; nor for the end of a capture that nobody listens to, which takes a captured
  frame: `FailedStartEnds` has the fairness of `CaptureEnds` as its premise.
* Keyboard and mouse: weak fairness of the clock, of the loop and of the task that stores the
  suppression. None for the user: `PushSwitches` is about one who goes on pushing, while loop
  and engine have not fallen out over a peer that left.

## 5. Proofs

TLAPS proves, for every value of the constants:

* `UdpFec_proofs`, first part: `Inv` of `ReplayWindow`, and from it that no nonce is used twice, no counter is
  opened twice, nothing fresh within the window is refused, and that the module
  implements `AtMostOnce`. "Opened at most once" is not inductive by itself: it needs that
  the window is exact (`WindowExact`: an opened counter is at most `max_recv` and, while
  within the window, has its bit; a set bit stands for an opened counter), and that a
  counter not yet used has not been sealed (`CountersExact`). The lemma about
  `ReplayCommit` relates the shifted set to the new maximum in both branches.
* `MasterSwitch_proofs`: `Inv`, hence the type invariant, `RequestFollowsTarget` and
  `HandleIsHooked`. The strengthening says that the loop has a target, or a decision to
  apply, wherever it uses one (`TargetWhenNeeded`), and that a handle is only stored with
  its loop (`HandleHasLoop`), so that the handle stored over another is never the same
  capture's. With a single capture (`MaxCapture = 1`) also `MasterAgrees`: `SUPPRESS` follows the
  loop's target whenever nothing is under way, the hooks feed that loop, and the loop's target is
  the engine's, both ways, unless the loop has not followed the engine's last decision
  (`adrift`); even then an engine that is local has no target in the loop. The strengthening
  follows a switch from the engine's decision to the loop's target (`Routed`), says that the
  static holds the last request unless the watcher has still to store it (`Stored`), and that
  the hooks send to the thread that has them set (`Heard`). The hypothesis is needed: with two
  captures the statics belong to both, and `MasterSwitch_findings.cfg` shows the disagreement;
  it shows too that an `adrift` engine keeps its peer.
* `SessionRegistry_proofs`: `Inv`, hence the type invariant, `RegisteredNotStopped` and
  `MappedIsInGrid`, over all interleavings, without the disciplines of the runs. The
  strengthening says that only connections whose `SessionRef` was inserted are
  held, replaced or stopped, each once (`OnlyEnteredHeld`), and that an identifier is
  mapped by the device it was drawn for (`MappingIsOwn`), so that removing one
  device's entry never takes another's. Over all interleavings too, `AgreesAtRest`: sessions,
  peers, grid and mapping agree about a device at rest, and `peers.json` if the last save was
  alone and succeeded, unless two operations on that device have met. The strengthening
  (`RecordsInv`) says, for each device that is not `crossed`, that one operation on it is under
  way (`Alone`), which of the structures it has changed already at each of its stages
  (`Progress`), that what was read for an announcement still holds (`AnnounceCurrent`), and
  for each disagreement which step still to come ends it (`Shown`, `Had`, `Persisted`);
  that what is done about other devices changes none of this is `ElsewhereSteps`.
* `Connection_proofs`, second part (`SessionTasks`): the type invariant, and that the two sides implement
  `OrderedChannel`, for any typed channels and any capacities. The strengthening (`Flows`)
  says, for each typed channel whose inbound task runs, that its inbox continues what was
  received, without a gap; that the wire continues the inbox while there is a reader to
  pass it on; and that the write queue and the application's queue continue the wire while
  there is a writer. Each of these ends with the task it depends on, since what that task
  left behind is never passed on.
* `Connection_proofs`, first part (`Admission`): `AdmissionInv`, hence the type invariant, `AttemptsBounded`,
  `PairedWasGranted` and `ClientHasServer`. The strengthening says that the counter of the
  mode is the number of refusals of its PIN and that a PIN not drawn has none
  (`FailedIsWrong`), that a decision to accept, kept until ServerFinished, was granted
  (`AcceptedWasGranted`), and that an acceptance on its way comes from a server that has the
  session (`AcceptanceIsTrue`).
* `UdpFec_proofs`: that the transport implements `ReplayWindow`, hence `AtMostOnce`, and
  `FecInv`, hence `FecTypeOK`, `NoLateRestart` and `KShardsDeliver`. At most once comes
  from the window alone, whatever the list of resolved frames has forgotten. For the
  others the strengthening says that an entry has all shards that have arrived and fewer
  than K, unless its frame is over, and that a frame on the list is over: opened,
  given up, or left behind by the window.
* `UdpFec_proofs`, last part: `AudioInv` of `UdpAudio`: no counter is used twice and no message is
  given to the playback twice. A side may change its sender once, from none to made, hence the
  strengthening: what a sender took from the channel precedes what waits there, and the
  frames of one side are counted below `frame_seq` by one sender (`SendingOK`); a message
  reaches a side by one way, over UDP in a frame of its own (`ReceivingOK`, `FramesOnce`).
* `FileTransfer_proofs`: `Inv` (hence `MessagesFindTheirSlot`), `DoneIsAccounted` and
  `VerifiedOnDisk`, for any transfers, sessions, offers, contents and capacities. The
  strengthening says how far `send_paths` is (`PhaseOK`), that messages are in the session of
  their transfer, after its start (`MessagesOK`), that a file not sent to its end has a slot or
  will have (`SlotAwaits`), that one sent to its end is judged or its TransferComplete under way
  (`SentOK`), that the chunks under way continue what the slot has received, up to where
  the task has read (`ChunksFollow`), and that a file holds what its slot has hashed
  unless a write failed or another transfer opened it (`SlotsOK`).
* `InputRouting_proofs`: `Inv` and `KeyInOnePlace`, for any peers, layouts, desktops, shifts,
  keys and bounds. A new peer's origin, the corner of its primary screen, is placed at the right end
  of the rightmost entry, so that it lies past every entry that ends before the peer's own
  does, however peers join and leave (`PrimariesInOrder`); screens left of the primary one
  are not covered, and do overlap (findings). That cursors stay on their screens is the
  arithmetic of the 65535ths (`AlongFacts`). `EntersNearSide` is about the geometry alone: for
  every rectangle, every edge and every point beyond it, the grid point that `on_mouse_move`
  computes is inside the rectangle, and one step back from it leaves by the side that faces
  the edge. The code injects no such point (`SwitchEnter` does nothing), and it is not one of
  the target's own desktop (`EnterIsLocal`, findings). For the keys, `Followed`
  says of a key not held at a switch that the local system has seen all of it or, while
  suppressed, nothing, that the target will have once the queue is empty, and that nobody else
  has it down.
* `Media_proofs` (`VideoEncoder`): `EncoderInv` (types, and the balance of the credits),
  `FramesInOrder` and `DrainReturnsAccepted`, for any limit of the worker's queue, any transform
  that keeps its contract, and any frames, commands and failures. The strengthening says that
  the transform is on exactly while the worker is in its loop (`PhaseFollowsWorker`), that
  behind a DrainComplete no output is announced, the transform then being empty
  (`DrainIsLast`), and that an acknowledgement no failure explains was sent with everything
  out (`AckedIsDrained`). Frames given up are not those on their way, whichever of them a step
  takes (`OrderWithout`).
* `Media_proofs` (`MediaShare`): the type invariant, `FollowsItsCodec` and `StreamGoesOn`, for
  any starts, machines, peers and capacities. For the codec, `ShareInv` says that the command,
  the capture thread and the bridge follow each other (`StagesFollow`), that a message on its
  way says the codec announced for its stream (`MessagesFaithful`), that what the capture makes
  is what it announced (`CaptureFaithful`: the trial of an encoder and the handler's choice
  agree on one machine), and that a peer knows the codec of the stream it follows
  (`PeersFollow`). For the order, `OrderInv` puts a stream in one line: what the peer has, its
  session's channel, the fan-out's (`LinesInOrder`), then the frames before the bridge and those
  the encoder keeps (`FramesOrdered`), of which none is behind what has left the bridge
  (`BridgeAhead`). A message lost on the way leaves a line in order (`LineFans`), and what an
  encoder gives back of the frames it has comes before what it keeps (`CutKept`).
* `ConfigStore_proofs`: for any identities, peers, settings and saving tasks, over all
  interleavings, failures and crashes, `PeersAreSaved`, `OldOrNew` and `IdentityIsKept`. The
  strengthening says that saves of one file under way together are in `mixed` (`MixedIsKept`),
  that a temporary file belongs to the save that has it open and holds its value once written,
  if that save is not mixed (`TmpIsOwned`), that saves are under way only in the phase that
  starts them (`PhaseIsKept`), that the identity of the last start is in its file or still in
  the older one (`IdentityOnDisk`), and that the list in memory is on the disk, or a save that
  will put it there is to come, or the last save went wrong (`PeersFollow`).

Assumptions are those of the modules, named where the constants are declared: `None` is not
a device, peer or machine; bounds and capacities are natural numbers, those that must let
something happen at least 1 (queues, the window width, the counter limit, K and the limits of
`UdpFec`, the chunk, the permits); for `ConfigStore`, the marks of a missing and of a damaged file
are no contents, there are settings and window placements to save, and the tasks that save the
peers are not the page, the window or the start; for `FileTransfer`, the walk of an offer gives
files with a content (`WalkAssumption`), contents are sequences of units, and `Absent` is
none; for `InputRouting`, digits are keys, screens are finite sets of rectangles one of which
has its corner at the origin, and moves are pairs of integers; for `VideoEncoder`, the transform asks for more than it keeps
back, at least one; for `MediaShare`, there is a machine. One theorem has a hypothesis of
its own: `MasterAgreesHolds` that there is one capture; without it the property fails, which
`MasterSwitch_findings.cfg` shows.

Only model-checked:

* everything under fairness (`HotkeyReturnsLocal`, `VanishedTargetReleased`,
  `EndedSessionForgotten`, `SentArrives`, `CloseIsMutual`, `HandshakeEnds`,
  `LateFramesArrive`, `SenderGoesOn`, `TransferEnds`, `FramesFlow`, `DropEnds`, `FailedStartEnds`,
  `SlowPeerHarmless`, `PushSwitches`), which is out of the prover's reach.

## 6. Not modelled, and the plan

What could still be modelled, and is not:

* Agreement in the handshake: that both sides derive the same keys from the same transcript.
  `Admission` has its order, its failures and its timeouts; the keys are ideal.
* `FrameCodec`, the incremental decoding of a frame: a pure function of its buffer.
* The ring buffer and the resampling of audio playback, which live in a device callback.
* `shutdown_and_wait`, which nothing in the program calls.
* A `SetWindowsHookEx` that fails, after which a master mode has one hook or none: the
  code logs the error and goes on.
* Text and touch injection: calls with no state of their own.

Abstract specification planned: for the registry an atomic one, in which a session and its entries appear and disappear
together, which it should implement for a device no two operations of which meet.

Left out for good: Windows and Media Foundation calls, cpal device callbacks, mDNS and
broadcast sockets, logging, translations, and the Svelte interface: they are
input and output without protocol state of their own, or state that only the
operating system keeps.
