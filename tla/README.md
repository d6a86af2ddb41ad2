# A TLA+ verification of go-adbkit

go-adbkit has two halves. `tcpusb/` is a bridge: a TCP server that speaks the
adb packet protocol to adb hosts and relays every stream to a device through
the local adb server. `adb/` is a client library for the adb server: host
commands, device transports, shell sessions, the sync service, packages,
forwarding. The bridge is concurrent throughout; the client is a set of short
conversations with a server that may refuse, hang or go away at any point, with
concurrency in three places (shell v2, the sync session, cancellation).

## 1. The system

### Parts, their state and what runs in them

| Part | Source | State | Operations | Model |
|---|---|---|---|---|
| Server | `tcpusb/server.go` | listener, connections, closed, mu | Listen (accept loop, one goroutine per connection), Close | `Server` |
| Socket | `tcpusb/socket.go` | ended, authorized, token, signature, maxPayload, mu, writeMu | Start, handle and its handlers, Write, End | `Socket`, `Handshake` |
| Service | `tcpusb/service.go` | transport, opened, ended, needAck, endCh, doneCh, mu | End, Handle (OPEN, OKAY, WRTE, CLSE), forwardFromDevice | `Service` |
| ServiceMap, RollingCounter | `tcpusb/service_map.go`, `rolling_counter.go` | services, count, now | Insert, Get, Remove, End, Next | `ServiceTable`, `Socket` |
| Packet, PacketReader | `tcpusb/packet.go`, `packet_reader.go` | buffer, inBody, packet | Assemble, Checksum, Magic, ReadPacket | `PacketReader`, `PacketChannel` |
| Shell v2 | `adb/device_shell_v2.go` | stream buffers, done, gotExit, exitCode, err, writeMu | readLoop, Read, RunCommandV2Context; Write, CloseStdin, Resize, Close | `ShellV2`, `ShellStdin` |
| Sync service | `adb/sync.go`, `device_file.go` | one connection | Stat, Readdir, Push, Pull, ReadFile, Close | `SyncService` |
| Host connection and transports | `adb/connection.go`, `client*.go`, `device_transport.go`, `device_forward.go`, `device_shell.go` | one connection per call, its deadline, a context | dial, request, status, message, payload, rest of the stream | `Client` |
| Packages, features, intents, waiting for a device | `adb/device_package.go`, `device_features.go`, `device_intent.go`, `device_info.go` | a file on the device | several calls, with fallback, retry or timeout | `DeviceJobs` |
| Other properties, pixels, descriptors | `adb/device_*.go` | none | parsing and formatting | not modelled |
| Entry points, examples | `tcpusb/bridge.go`, `cmd/`, `examples/` | none | configuration | not modelled |

### How they interact

A connection is served by several goroutines. *Reader* runs `Socket.Start`: it
reads packets and handles each to its end before the next. For each OPEN it
starts a *handler*, which dials the device, sends the service name and waits;
on OKAY the handler starts a *forwarder*, which moves data from the device to
the peer. `Socket.End` runs in Reader when `Start` returns, and in *Closer*
when somebody calls `Server.Close`. All of them call `Service.End` on the same
service and write to the same TCP connection.

A call of the client opens a connection of its own to the adb server, asks for
a host service, or for a device and then for a service of it, and closes the
connection or hands it to its caller. `SendHostCommandContext` has a goroutine
that closes the connection when the context ends; `readAllWithContext` has one
that reads while its caller selects on the context. `Install`, the intents and
the waits are built from such calls, and a shell v2 session lives on the
connection that one has opened.

Three kinds of mutex order them: `Service.mu`, held across writes to the peer
and to the device; `Socket.writeMu`, held across `conn.Write`; and
`ServiceMap.mu`, held by `ServiceMap.End` while it ends every service. Some
fields are used without their mutex: `transport` in `handleOpenPacket` and
`handleClosePacket`, `opened` after the OKAY.

### What makes it hard

- A stream may be closed by the peer, by the device, by the loss of the
  connection and by `Server.Close` at the same moment.
- Writers block with mutexes held when the peer does not read.
- A service may end while its transport is being dialled, or be inserted while
  the connection ends.
- Flow control (one unacknowledged WRTE) is a flag that one goroutine sets after
  its write and another clears.
- `Close` of the server races `Listen`.
- Packets arrive cut at any byte, in any order, from a client that may follow
  no protocol.
- A shell session may end, be cut inside a frame, or be cancelled while readers
  sleep on a condition variable.
- Half of a status may arrive; a reply may be cut; the timer of the connection
  and that of the context are two timers.
- Writers of a shell session share its connection while `Close` may cut it
  inside a packet.
- An installation is up to four calls that fail one by one, and shares a path
  on the device with every other.
- A sync session is one connection for all calls: a call that leaves part of a
  reply behind spoils the next, and `Pull` goes on reading after it returned.

`PROJECT.json` lists these as hazards at their lines, with the properties that
cover them.

## 2. The modules

Goroutines are processes with a program counter. A step goes from one lock
acquisition, blocking call or unsynchronized access to the next. A mutex that
is held across such a point is a variable with its owner; one that is not
(`Socket.mu` on the data path, a stream's mutex in shell v2) makes its critical
section one step. A panic sets `crashed`, after which nothing happens. A
condition variable is a "wait" label that only a broadcast leaves.

**Socket, Service, Bridge** (`MCBridge`) model a connection after the
handshake. `Socket` has the packet loop, the map of services as a set, `Write`
and `End`. `Service` extends it with the fields of each service and the steps
of handlers and forwarders. `Bridge` composes both with the peer and the
device, which follow the adb protocol: the peer names only streams it was told
about, keeps one WRTE in flight, acknowledges each WRTE it receives and does
not answer a CLSE; either side may close a stream at any time, and the peer may
leave. Device data are numbered chunks; the peer's writes carry no content. Ids
are abstracted to the service they name, except whether a CLSE carries the id
or zero.

**Handshake** (`MCHandshake`) models the same socket before services exist. The
client sends any sequence of packets. Tokens are numbers, a signature is present
or not (an empty one is kept as "no signature" by the code, since the slice is
nil), and `AuthHandler` accepts or refuses. `sendCNXN` keeps `s.mu` while it asks
the device for its serial number.

**Server** (`MCServer`) models `Listen`, the goroutine of each connection and
`Close` by several callers. A connection is reduced to whether it has ended and
whether its TCP connection is open. The part of `Socket.End` that ends the
services and closes the connection (`StartEnds`, `EndCloses`) is a step that may
never happen, because `Bridge` shows that it can block.

**ServiceTable** (`MCServiceTable`) models the ids: `RollingCounter.Next`, the
map by id with its count, a service removing itself late, and `End` by two
goroutines. `MaxID` stands for `UINT32_MAX`.

**PacketReader** (`MCPacketReader`) models `ReadPacket` on a stream of words
that arrives in arbitrary pieces; **PacketChannel** is the abstract
specification it implements: packets are delivered in order until the first
that is not valid. A word ranges over `0..Word-1` and the checksum adds modulo
`Word`. The four header words that decide how a packet is read are modelled;
the two arguments are carried with the command.

**ShellV2** (`MCShellV2`) models a session and `RunCommandV2Context`: `readLoop`
with its deferred calls in order, the two stream buffers, the goroutines that
read them, the one that watches the context, and the caller.

**SyncService** (`MCSyncService`) models a session: the calls of one caller,
the goroutine and the pipe of `Pull`, chunks of a pushed file, replies, and a
device that serves requests in order and may be lost. A reply is read in one
step, which is exact as long as one goroutine reads the connection.

**Client** models one call at a time. A function is a *program*, the sequence of
steps it takes on its connection if all goes well (`RunCommandContext` is
`TransportContext`, then `SendCommand`, then "spawn", "collect", "close"); `prog`
is what is left of it. A step has one action, whichever function takes it: what
`sendADBCommand`, `ReadStatus` or `readLengthPrefixed` do is written once, with
every outcome of the read (enough data, end of the stream, `net.Error`). A step
that fails closes the connection, as the deferred call or the error path does,
and ends the program. The server follows the same program from the other side,
may refuse with a message at every status, hang, close or reset, and a loss takes
any part of what was under way. Four bytes of the protocol are two units, so that
one `Read` may return half of them.

**DeviceJobs** extends it with the operations that make several calls. A job is at
a stage, which is a call of `Client`, and each of its actions is what the code
does when that call returns. The device runs the command of a stage once it has
accepted it, and another program may use the path `/data/local/tmp/install.apk`.
Functions that make one call are jobs with one stage.

**ShellStdin** models the goroutines that write to a shell v2 session: `Write` in
chunks, `CloseStdin` and `Resize`, a packet as a header and two units of payload,
`writeMu`, and a connection that holds `Capacity` units, is closed by `Close` or
by `readLoop`, or is lost. `ShellStdinConstants` holds its parameters.

**ClientSession** (`MCClient`) composes them: the connection that
`ShellV2WithOptionsContext` opens in `Client`, and the server at its other end, are
the ones of `ShellStdin`.

Each definition that models code is in `map` of `PROJECT.json` with its lines.
Operators whose comment says "Mutant of" are variants that a plausible mistake
would produce; no specification uses them, and each makes one property fail.

## 3. What is checked

All runs check for deadlock except `table_wrap`, `reader_frames`, `shell`,
`sync` and `client`, where the system stops when there is nothing left to read or no call
left to make.

| Run | States | Shows |
|---|---|---|
| `bridge_one` | 113,814 | One service with `Server.Close`: no double close (`ChannelsClosedOnce`), no transport leak, flow control (`WindowOfOne`), completeness (`CompleteBeforeClose`); a lost peer releases everything, a closed stream ends, every WRTE is answered, unless a write to the device never returns |
| `bridge_two` | 1,325,406 | Two services on one connection with a send buffer of one packet: each stream in order (`PacketsInOrder`), the map (`MapTracksHandlers`) |
| `handshake` | 118,402 | Nothing before authorization; challenges come first and are the token that is kept; the payload size agreed on; an authorized client gets CNXN; `End` completes |
| `server` | 5,512 | The list of connections, single close, who closes what; waiting connections are served until `Close` (`BacklogServed`); `Close` stops `Listen` and the connections it found, unless an `End` never returns |
| `table_wrap` | 860 | Ids after several wraps: entries, count, reuse |
| `reader_frames` | 19,414 | The buffer is what arrived and was not delivered, and bounded; refinement of `PacketChannel` |
| `shell` | 378,376 | Output intact, success only if complete; never blocked by readers; returns after cancellation, exit and loss |
| `sync` | 337,768 | Replies to their own call, session in sync, results true, every call returns |
| `client` | 262,282 | All calls and jobs: success is what the server said, replies whole, no connection left open (`JobsClose`), answers true, cancellation returns, jobs return; packets of a shell session whole, its counts true, its writers return |

### Bounds

- `bridge_one`: one service, a send buffer of two packets, two chunks and one
  write. Every interleaving that breaks a service involves one service; two
  chunks are needed for a second WRTE that the first has to wait for.
- `bridge_two`: two services with two chunks each and a buffer of one packet, so
  that both contend for `writeMu` and a full buffer. The services are symmetric.
- `server`: two connections and two callers, so that connections overtake
  each other and a second `Close` returns early.
- `handshake`: four packets reach every state of the handshake with a
  repetition; `UINT16_MAX` is 2, so that smaller, equal and larger offers occur.
- `table_wrap`: five services and three ids, so that the counter wraps with an
  id in use and with all in use.
- `reader_frames`: two packets of up to three words of payload, valid or corrupt,
  and reads of up to five words, which may span the packets.
- `shell`: three frames of every kind, enough for output on both streams and an
  exit.
- `client`: payloads of up to two units, so that one can be cut in the middle; one
  call or job per behaviour, since calls share nothing but the temporary file,
  which `OtherInstall` changes; two writers with a call each of up to two chunks,
  and a connection that holds one unit, so that every unit can block.
- `sync`: two calls, files and directories of up to two items, chunks of one.

### Fairness

Weak fairness of each goroutine: the Go scheduler runs what can run, and
`sync.Mutex` hands a free mutex to a waiter (its starvation mode). The adb
server and `AuthHandler` answer, since their steps are steps of a fair
goroutine. In `client`, a context expires once the deadline it gave the
connection has passed, an adb server that has not hung or gone answers, and a
device that is there runs what it accepted and reads what it is sent; that the
server hangs is always possible. `bridge_one` also assumes that a connected peer
reads, which `bridge_stall` drops. Nothing is assumed of the device sending, of clients
connecting or closing, of anybody calling `Close`, `Cancel` or reading the
reader that `Pull` returned. `Accept` and `Start` are sure to fail only on a
closed listener or connection; that `Accept` is strongly fair says that errors do
not keep a waiting connection from being accepted for ever.

Two steps that can block for ever have no fairness. One is `transport.Write` in
`handleWritePacket`, while the device keeps its stream open. Reader is in it with
`Service.mu` held, and a device that wants its output read first waits for the
forwarder, which waits for `Service.mu` or for an OKAY that only Reader can handle.
`PeerLossReleases`, `ClosedStreamEnds` and `WritesAnswered` therefore except the
behaviours in which Reader stays in that call from some point on
(`[]WritesToDevice`), and show that there is no other such wait. The exception is
not for bad devices only: under `DrainedDeviceSpec`, where a device takes data
whenever the forwarder is reading from it, TLC refutes each of the three without
it, and also `EndClosesSocket`. The other is the rest of `Socket.End` after
`ended` is set, in `Server`: `CloseStops` excepts the caller of `Close` that
never returns from it, and a connection whose own `Start` does not.

### Where the code differs from what is said of it

Each of these runs checks one sentence of the repository and finds it violated.

- `bridge_panic` (`service.go:50`): `End` while the handler is opening makes the
  handler call a nil transport.
- `bridge_stall` (`socket.go:100`, "End closes the socket and all services"):
  `End` does not reach `conn.Close` when the peer does not read.
- `server_race` (`docs/USAGE.md:197`, closes the server and all connections):
  `Close` between `Accept` and `append`.

The modules state eight more such sentences that no run checks. TLC refutes each
when it is put in place of the property of a run above (one service or one
connection is enough).

- `ZeroMeansFailedOpen` (`service.go:65`, "Zero can only mean a failed open"):
  `opened` is set after the OKAY is written.
- `PrematureMeansNotReady` (`errors.go:15`, "received before transport was
  ready"): CLSE from both sides at once ends the whole connection.
- `EndEndsServices` (`socket.go:100`): a service inserted during `End` is not
  ended.
- `CloseStopsListening` (`docs/USAGE.md:197`): `Close` before the listener is
  stored.
- `WholeFile` (`sync.go:212`, "ReadFile reads a file and returns its content"): a
  connection that ends between two fields makes `ReadFile` return part of the file
  without an error, because `io.EOF` passes through the pipe.
- `ClosedPropagates` (`client_commands.go:48`, "Network errors (timeout, connection
  closed) should propagate"): `io.EOF` is not a `net.Error`, so a host command whose
  reply is cut short succeeds with an empty reply.
- `TimeoutWaitTrue` (`device_info.go:123`, "WaitForDeviceWithTimeout waits for a
  device with a timeout"): it drops what `WaitForDevice` answers, so that it returns
  nil when the server reports a failure.
- `ReadFileReads` under `ReadmeSpec` (`README.md:606-613`): `ReadFile` on a
  session with an unread `Pull` returns the rest of that transfer.

Properties of the passing runs are stated so that they hold beside these: for
instance `ClosedStreamEnds` allows for `crashed`, for `Server.Close` and for a write to the device that never returns, `NoneForgotten` for the
connection that was appended late, and `ResultsTrue` asks for the whole file only
while the device is there. The exceptions of the `client` run are in the comments
of its properties; each stands for something the code does:

- the status is read with one `Read`: half a FAIL makes a host command succeed, and
  after half an OKAY `TransportContext` waits for a message that does not come
  (`SuccessTrue`, `ReplyWhole` and `JobReturns` say nothing of such a call);
- a host command reads one status: a second one of FAIL is a length that does not
  parse, so the command succeeds with the length and the text of the message as its
  reply. `SuccessTrue` then asks only that this reply is not empty, which is what
  `WaitForDevice` looks at, and `ReplyWhole` that it is all of them;
- a host reply that is cut short is an empty success, and one that the deadline of
  the connection cuts before the context is done a partial one; output that ends
  early is output; `WaitForDevice` answers true when the server dies while it waits;
- a context is not looked at while a device is being selected, and
  `FeaturesContext` as `Install` calls it has no deadline;
- two installations on a device share a path, so one may install the other's file;
- `StartActivity` and `StartService` retry with another user, which no argument is
  built from: a device that refuses once refuses for ever.

`InstallRemote` returns with the connection of its `rm` open, because `Shell` hands
it over and its caller drops it (`device_package.go:160`). `JobsClose` names this one
job; every other job closes what it does not give to its caller.

## 4. What is proved

The proofs hold for every value of the constants; TLC has checked each
inductive invariant on the small instances first.

Of the safety properties that the passing runs check, all are proved but three,
which are named at the end of this section.

**BridgeProofs**, part 1, proves `TypeCorrect` (`TypeOK`). `TypeOK` alone is not
inductive: where a goroutine goes after `Service.End` depends on whether it
holds the map's mutex, and a goroutine must have a target to work on. `TypeInv`
adds `MapLocked` (who may hold the map) and `TargetKnown`.

It proves `LocksSound`, `NoDoubleStart` and `NoDoubleClose`. The
argument classifies steps: a step moves one goroutine, and its effect on
mutexes and channels is one of a few, determined by the labels it leaves and
enters (`Shape`). One lemma per group of actions shows that they have a shape,
and one lemma shows that a shape preserves `MutexInv`: the owner of a mutex is
the goroutine whose label is inside the critical section, the service it works
on has not ended, and `doneCh` is closed only after the forwarder has left. Two
steps start a goroutine; they need `StartedOnce` to know that it was not
running.

It proves `NoTransportLeak` with `TransportInv`: a connection
to the device that `Service.transport` does not hold is open only while its
handler is about to adopt it, and a goroutine inside `End` has closed the one
it found. That no transport is adopted during an `End` is `LockDiscipline`.
`MapExact` follows from `MapInv`: until the connection ends nobody is inside
`ServiceMap.End`, so the map changes in two places, and each moves the
handler with it.

Part 2 proves `OneChunkUnacked` (`WindowOfOne`), `OrderKept` (`PacketsInOrder`) and
`CloseComes` (`CompleteBeforeClose`), for any number of streams and any send
buffer. `StreamInv` is about one stream: the chunk under way is in one place, a
WRTE, its OKAY, or Reader's hands, and while it is anywhere `needAck` is set or
about to be (`WindowInv`); while the stream lives the forwarder is at most one
chunk ahead of the peer (`ChunkInv`); a CLSE the peer did not ask for is written
after everything that was read (`CloseInv`); the OKAY goes first (`OkayInv`). These
need that the peer uses a stream only once it was told of it (`KnownInv`), that a
service whose forwarder has left has ended (`EndedInv`), and the locks of part 1:
acknowledging, pushing and ending exclude each other. Nearly all
steps are `Calm` for a given stream, and one lemma covers them.

**HandshakeProofs** proves `AuthorizedFirst`, `ChallengesCurrent` and
`AgreedPayload`, for any number of packets and tokens and any sizes.
The first two speak of what was written; between the choice of an answer and
its writing they are kept by what Reader has checked (`Checked`), by the challenge
that follows a signature (`SignedChallenged`) and by the token in the answer
(`TokenKept`). For the third the size in an answer that is being written is the one the
client asked for last (`PayloadInv`), since Reader handles one packet at a time.

**ClientProofs** is about the functions of `Client`. It proves `ConnectionsClosed`:
the invariant adds what is left of a program, and unless the function hands its
connection over, the last step left closes it or returns a failure (`EndsClosed`).

It also shows, for every function, any reply size and any number of calls, however
the answers are cut into reads, that what a function returns is true. The invariant
(`Heard`) follows both sides of the stream through the program of the function: the
function has taken `j` of its steps, the server has answered `a` of them, it has
sent OKAY `k` times and then nothing, a failure, a payload or output (`Told`), and
what is on the wire and not yet read is a window of what was sent (`Window`), which
starts where the function has read to (`InStep`, `ReadOut`). A host command has its
own form (`HostFollows`), because its status is read once: where that read is torn
the invariant says nothing more, and neither do the properties. The argument needs
one fact about the eighteen other programs, that what follows the statuses is read
once and nothing is asked or read after it (`Grammar`), which is shown program by
program (`GrammarHolds`). The number of OKAYs in `SuccessTrue` and `Overhead` is a
cardinality, and is compared with `k` by a bijection (`OkaysCount`), not by
induction. The lemmas of this module take the facts they use of finite sets as a
hypothesis (`SetsCount`), which keeps the library out of the context of some
thousand obligations.

**SessionProofs** proves `SetsCount` from the library (`SetsAreCounted`), and
so concludes `SuccessIsTrue` (`SuccessTrue`) and `RepliesAreWhole` (`ReplyWhole`) for
`Client`, with the exceptions of section 3. For `DeviceJobs` it proves `JobsMakeCalls`: every step of a job is a step
of `Client` or leaves it alone, so what holds of the calls holds in every job.
`JobsCloseConnections` (`JobsClose`) adds which call a job is at in each stage
(`CallInv`): the only call of a job of several that hands its connection over is the
`Shell` of `InstallRemote`. `AnswersAreTrue` (`AnswerTrue`) needs `JobInv`: for each
stage of a job, what the device has done by then and what has been concluded from
it; an installation that has read `Success` has its own package installed, unless
another job used the path in between.

Of the writers of a session (`ShellStdin`) it proves `StreamOfPackets`, for any
writers, sizes and capacity. Only the holder of `writeMu` is inside a packet and the
stream ends where it is; where nobody is, the stream ends with a whole packet or no
write succeeds any more (`InPacket`). The second half is what an error in the middle
of a packet needs. `CallsCountTrue` is that `Write` returns the number of its
chunks in the stream: the complete packets of a call are its chunks from 1 on, each
once (`Counted`), with one more while `writeMu` is about to be released.

For `ClientSession`, in which a call opens the session, it proves
`SessionsCloseConnections`, `SessionPackets`, `SessionCounts` and
`SessionsKeepAnswers` (`SuccessTrue`, `ReplyWhole` and `AnswerTrue`). Every step of the
composition is a step of `ShellStdin`, or leaves the session alone, or happens before
it has writers, so the invariants of the writers hold in it; and the writers touch
only the connection of a call that has returned, so those of the call do too.

**ShellV2Proofs** proves `StreamsKept` (`StreamsIntact`) and `ResultWhole`
(`ResultComplete`), for any number of frames. `SessionInv` says that a stream is closed only after
`readLoop` has left its loop, that a reader returns only when its stream is closed
and drained, that the exit code is that of the frame at which the loop was left,
and that the caller has waited for both readers. What a stream carried is stated
as a list of frame numbers (`Lists`, `Output`), since what a filter over a
sequence computes could only be shown by induction.

**SyncProofs** proves `SyncBoundaries` (`OwnReplies`) and `SyncResults`
(`ResultsTrue`), for any number of calls, any length of files and directories and
any size of chunks. Both are about sessions in which no reply was left unread.
`Orderly` says what holds in them: at most one call is at work; the replies under
way follow the items that call has taken, and while the device is there they are all
of them; its request is on the wire, being served, or answered;
a pushed file is stored up to some point, on the wire as chunks from there
to what was sent, and closed by DONE once all was sent (`Link`). When no call is
at work nothing is under way (`Resting`), so that the next call starts at a
message boundary. That an unexpected identifier cannot be read in such a session
is a lemma (`NoneUnexpected`).

**ServerProofs** proves `TracksConnections`, `CloseForgetsNone` and
`OneEndCloses`, for any connections and callers. The invariant
keeps books per connection: the connection is on the list, in the hands of one
caller, being closed, or closed, and a connection marked ended has exactly one
goroutine closing it until it is closed.

**ServiceTableProofs** proves `IdsNeverZero`, `EntriesApart`, `CountCorrect` and
`RollsOver`, for every maximum id and set of services. `OwnEntry` needs that
nothing is inserted by a reader that has itself ended (`EndedFirst`); the count is
the cardinality of the used ids, with one lemma for each way the set changes. The
last ids that were drawn go back from `now` one by one (`DrawnBack`), so they differ.

The assumptions are the types of the constants: `ConnCap`, `Capacity`, `MaxID`,
`MaxItems` and `ChunkMax` are positive naturals, the other bounds naturals,
`DefaultPayload` is less than `Uint16Max`, `ServerCloses` is a Boolean, and
`None` is not a service and `NoWriter` not a writer.

`TypeOK` of `Bridge`, `LockDiscipline`, `StartedOnce`, `TypeOK` of `ServiceTable` and
`NothingLeaks` of `Client` are proved for every instance and are in no run; they can be
added to the cfg of `bridge_one`, `table_wrap` or `client`.

### Only model-checked

- Liveness under fairness (`PeerLossReleases`, `ClosedStreamEnds`, `WritesAnswered`,
  `AuthorizedAnswered`, `EndCompletes`, `BacklogServed`, `CloseStops`, `CommandReturns`, `CallReturns`,
  `ContextReturns`, `JobReturns`, `WritersReturn`), and `NeverBlockedByReaders`, which
  speaks of `ENABLED`: the prover has neither.
- `BufferIntact` and `ImplementsChannel` of `PacketReader`: what is in the buffer is
  what was sent cut at any word, and `Checksum` is a fold over the payload. Both
  would need induction over data, which is out of the prover's reach.

## 5. Not modelled

- `verifySignature` and `tryPush`, which nothing calls; logging; TCP_NODELAY;
  `Addr`.
- The content of service names, device ids, error messages and file names.
- A payload size of zero on the data path: the forwarder then reads into an
  empty slice and spins. `Handshake` shows that a client can ask for it;
  `Service` takes the size to be positive.
- Interleavings inside one sync reply when two calls overlap.
- A peer that violates the protocol after the handshake.
- What the client does with a reply once it has it: parsing lists, properties,
  versions and pixels, and the arguments of commands. `TrackDevicesWithCallback`
  is modelled as reading its stream to the end; the lines it hands to its caller
  are not.
- That `Device.Pull` does not close its session.
- Several calls of the client at once, except through the device.
- The parts marked so in the table of section 1.
