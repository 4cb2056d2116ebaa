# Verification of MPX: TLA+ models, TLC runs, TLAPS proofs

MPX/4 carries many byte streams of one Session over several TCP connections
("Carriers") that fail and come back independently. Around it the repository
has the services that run over a Session, a supervisor for several engines, an
installer for the server, a provisioning service and desktop clients. This
directory models the parts whose correctness depends on interleavings,
failures, lost or reordered messages and timeouts, checks them with TLC on
small instances, and proves the most important properties of the core for
every size with TLAPS.

Source paths below are relative to `macos/engine/multipath/` unless they start
with another top-level directory.

## 1. Inventory

### 1.1 Parts, their state and how they interact

| Part | State | Operations | Interacts with |
|---|---|---|---|
| **Reliable Transmission layer** (`session.go`, `controlplane.go`) | sender: `nextPacket`, `pending` (`outbound`: path, generation, sentAt), ready rings, `settled`, `settledThrough`, `lastRetireAdvertised`; receiver: `peerTransmissionFingerprint`, `confirmationReplay`, `peerProcessed`, `peerProcessedThrough`, `peerRetiredThrough` | queueLocked, dispatch, writeCarrier, sweepLocked, ackLocked, peerAttemptLocked, confirmTransmissionLocked, RETIRE, detachLocked | every frame that must not be lost; Carriers; Streams |
| **Carrier establishment** (`tcp.go`, `mpx4_stable_state.go`, `protocol.go`) | per Carrier ID: used, highest accepted and next candidate generation, the active connection; the server's registry of Sessions | DialClient, maintainCarrier, four-message handshake, addCarrier (supersession), detachLocked | TCP; Transmission layer; server admission |
| **Server admission** (`admission.go`) | handshake slots, per-source active count and token bucket | admitLocked, releaseAdmissionLocked | accept loop |
| **Flow control credit** (`shared_credit.go`, `flowcontrol.go`) | Session pair (consumed, limit) and committed bytes at both ends, Stream windows | commit, release, advertise, receive | Streams, memory pressure, control lane |
| **Writer admission** (`session.go` 248-375, `queue_admission.go`, `stream.go` Write) | writers waiting for a path, for queue space, for a window; one-slot wake channels | wait, signal with a permit, leave | credit, pending table |
| **Receive path** (`session.go` handleDataFrame, `stream.go`, `receivepage.go`) | pages, contiguous and read offsets, FIN | prepare, copy outside the lock, publish, readRaw | credit, resource budgets |
| **Termination** (`termination.go`) | Stream flags, final sizes, bounded tombstones of retired identities | FIN, RESET_STREAM, STOP_SENDING, STREAM_CONSUMED, retirement | Transmission layer, credit |
| **Dispatcher and schedulers** (`flowcontrol.go`, `scheduler_modes.go`, `weighted.go`) | per Carrier flight, queued bytes, rate and RTT estimates; stride and deficit counters | choose a Carrier for a ready Transmission | Transmission layer |
| **Session lifecycle** (`session.go` stop, run) | closed, noPathsSince, GOAWAY | stop, 30-second no-path limit | all of a Session |
| **Native UDP** (`udp.go`, `datagram.go`) | replay window, reassembly table, path health | send, receive, probe | nothing reliable |
| **Product services, UoT** (`product_service.go`, `uot.go`) | pool of pre-opened Streams, active UoT flows | refill, take, serve | Streams |
| **Resource budgets** (`resource.go`) | process-wide byte counters | reserve, release | receive path, Sessions |
| **Bundle supervisor** (`macos/engine/main.go`) | per Profile: child generation, active, ready, retrying; two bounded channels | launch, child event, exit, retry, cancel | child engines |
| **Landing manager** (`macos/engine/cmd/mptcp-landing`) | installed files, manifest, backups, the systemd service | install, config --edit, upgrade, rollback, uninstall, service, as transactions with undo | systemd |
| **Provisioning store** (`provisioning/main.go`) | Profiles and Bundles in two stores, each a map and a file; aliases and bearer tokens | admin requests, access URLs, the encrypted answer | clients |
| **Device control** (`provisioning/device_control.go`) | device records on disk and in memory, wake-up channels | pairing, commands, long poll, report | remote clients |
| **Windows / macOS clients** (`windows/`, `macos/*.swift`) | engine process, desired state, recovery timer, remote generations, managed document and its cache | start, stop, recover, apply remote state, synchronise, select | engine, provisioning server |

### 1.2 What is hard in it

* One mutex per Session, but almost every operation spans several critical
  sections: a Carrier writer takes a task long after it was queued, a reader
  publishes DATA after unlocking, a backend answers seconds after the OPEN.
* The Transmission, credit and termination controls travel on *any* Carrier
  with room, so they arrive in any relative order and may be dropped.
* A connection can be dead for one end and alive for the other, and the next
  generation of it may arrive first.
* Timers (retransmission, 30-second expiry, 30-second no-path limit, dial
  back-off) race the answers they stand in for.
* Fixed-capacity tables (control lanes, tombstones, source table, replay
  window, Stream pool, flow tables) behave differently at their limit.
* A count is kept beside what it counts (UDP and UoT flows, queued bytes,
  handshake slots, pool reservations, bytes charged to a path), by goroutines
  that may each undo the same thing.
* The stores of the provisioning service and the installer change several
  pieces of durable state one after the other; each save, each command and the
  process itself may fail in between.
* The desktop engine is started and stopped by the user, by remote control and
  by a recovery timer, none of which holds the lock across its steps.

`PROJECT.json` lists each hazard at its line, with the properties that cover it.

### 1.3 What makes each part correct

* Transmission: every allocated Transmission is handled, and is settled, once;
  nothing is forgotten before the other end can no longer ask for it; neither
  end ever closes the Session over its own peer's correct behaviour.
* Carriers: at most one schedulable connection per ID at each end, both ends
  agree on it eventually, a Carrier that can be dialled comes back.
* Credit: no byte is accepted beyond an advertised limit, no advertisement is
  refused by a correct peer, consumed bytes are credited eventually.
* Writers: no writer sleeps while what it waits for is available.
* Termination: a Stream retires once, only when neither end needs its identity.
* Native UDP: a packet is handled once, a datagram delivered once, what a path
  or the reassembly is charged with is what is outstanding.
* Services: a pooled Stream has one owner, a slot is given back once, an
  address has one flow, replies return to who asked.
* Admission: slots and buckets are those of the running handshakes; handshakes
  side by side never make two Sessions of one identity.
* Stores: what is answered with success survives a crash and what is answered
  with an error leaves no trace; a withdrawn secret or URL is dead for ever.
* Supervisors and managers: what they report is what runs; a failed multi-step
  operation leaves a state the next command can work from; Stop wins.

## 2. Plan

| # | Modules | Abstract specification | Properties | Theorems |
|---|---|---|---|---|
| 1 (done) | `Transmission`, `MCTransmission`, `TransmissionProofs` | `ReliableTransfer` | no stranded Transmission, bounded replay memory, settled never handled again, everything settles | type, inductive invariants, refinement and the safety properties |
| 2 (done) | `Carriers`, `MCCarriers`, `CarriersProofs` | `Incarnations` | superseded never schedulable, candidates above what the server accepted, both ends converge, a Carrier comes back | type, inductive invariant, both endpoints implement `Incarnations` |
| 3 (done) | `Credit`, `MCCredit`, `CreditProofs`, and `Writers`, composed with it in `MCWriters`, `WritersProofs` | `Window` | no frame of a correct peer refused, accounts equal sums, progress under loss, no writer forgotten | the chain consumed <= committed <= limit of the Session and of each Stream, nothing refused, both windows keep `Window`, the writers' limits |
| 4 (done) | `StreamEnds`, `StreamEndsProofs` | - | no frame refused, final sizes agree, both ends retire | the two safety properties, from one inductive invariant |
| 5 (done) | `Admission`, `Datagrams`, `UdpFlows`, `ProductServices`, `UotClient`, `ReceivePath`, composed in `MCServices`; `ServicesProofs`, `UdpProofs` | - | counts and reservations agree with what they count, nothing used or delivered twice, what is offered to a reader is there, what is reserved comes back | the safety properties of all six |
| 6 (done) | `DeviceControl`, `DesktopEngine`, `Bundle`, `Landing`, `Provisioning`, composed in `MCOperations`; `OperationsProofs` | - | confirmed is durable, withdrawn stays dead, Stop wins, one engine, all or nothing, the latest is reported | the safety properties of all five |

Modules that carry theorems use no RECURSIVE operator; constants have named
assumptions; every invariant is a conjunction of named parts. Modules 4 to 6 share no state
with each other in the code beyond what their neighbours' contracts say, so two
compositions (`MCServices`, `MCOperations`) check six and five of them side by
side; a behaviour is of one `part`, chosen in the initial state.

## 3. The models

### 3.1 `Transmission`

Models one direction of the reliable layer: the endpoint that allocates
Transmission IDs and the endpoint that handles them. Both endpoints of a
Session run both halves; the halves share no state except the Carriers and the
fact that their frames use the same lanes, so one direction is modelled.

| Model | Code |
|---|---|
| `nextPacket`, `pending`, `path`, `gen`, `sent`, `ready`, `settled`, `settledThrough`, `lastRetire` | the sender fields of `Session` and the fields of `outbound` |
| `queue[c]` | the `carrier.queue` channel of sendTasks; a task carries the generation of the `outbound` when it was dispatched |
| `flight[c]`, `retires[c]`, `acks[c]` | the data lane, the RETIRE controls and the confirmations of a Carrier from the moment they enter the channel or the socket until the reader takes them |
| `up`, `peerUp` | `carrier.active` at the two ends |
| `fingerprint`, `replay`, `processed`, `processedThrough`, `peerRetired` | the receiver fields of `Session` |
| `reading[c]`, `orphans` | a `readCarrier` goroutine between the two critical sections of `handleDataFrame`; an orphan's Carrier has died under it |
| `seen`, `opening` | Streams the receiver created, and those whose backend has not answered |
| `failed` | a `transmissionIDFailure`, which makes `readCarrier` close the Session |

Actions: `Allocate` (queueLocked), `Dispatch` (dispatchLocked,
dispatchControlsLocked), `WriteTask` (writeCarrier), `Retransmit` and `Expire`
(sweepLocked), `Settle` and `AckUnmatched` (ackLocked), `RecvDuplicate`,
`RecvData`, `PublishData`, `PublishOrphan`, `RecvControl`, `RecvOpen`,
`BackendAnswers`, `RecvRetire` (the frame handlers with peerAttemptLocked,
confirmTransmissionLocked, markPeerProcessedLocked), `SenderDetach`,
`ReceiverDetach` (detachLocked at either end) and `Attach` (addCarrier at both
ends).

Abstracted: which Carrier the scheduler prefers (any with room), when timers
fire (any time, but see the bounds), the frames' contents beyond their kind
(`KindOf`), Stream state (whether a Transmission may be sent at all is left to
the other modules), pages (their exhaustion is a choice). The handshake is one
atomic `Attach` at both ends; `Carriers` models it step by step.

`ReliableTransfer` is the contract: IDs are allocated in order, each is applied
at most once and only after it was allocated, settled only after it was
applied, forgotten only after all IDs up to it settled.

### 3.2 `Carriers`

Models how the client and the server of one Session come to have Carriers, lose
and replace them. `Transmission` takes an attached Carrier for granted;
`Carriers` shows how its two ends attach and detach at different times.

| Model | Code |
|---|---|
| `phase`, `turn` | `dialClientPolicy` (`"dialing"`, the address it tries), then the Session |
| `cUsed`, `cHighest`, `cNext`, `cSpent` | `carrierUsed`, `highestGeneration`, `nextCandidateGeneration`, `generationExhausted` of the client |
| `cPath`, `sPath` | the active `carrier` of each Carrier ID at the two ends |
| `sess`, `sUsed`, `sHighest` | the entry of `Server.sessions`: absent, open, or closed and not yet pruned; the generations it accepted |
| `cExpired`, `sExpired` | the run loop is between its decision under the lock and the call of `stop` |
| `conn[k]` | a TCP connection: whose candidate it is, and how far each end is in the handshake |

A connection's two stages imply which handshake messages can be read: the
server's `"offer"` is SERVER_INIT sent, the client's `"finished"` is
CLIENT_FINISHED sent, the server's `"commit"` is SERVER_FINISHED sent while the
registry has yet to be read a second time, `"attach"` is the handler on its way
to `addCarrier`. `"left"` distinguishes an end that closed after its last
handshake message, which its peer may still read, from one that closed before
it.

Actions of the client: `Dial` and `Maintain` (a candidate of DialClient and of
`maintainCarrier`), `ClientFinishes`, `ClientAttaches`, `ClientFails`,
`ClientLoses`, `ClientExpires`, `ClientStops`. Of the server: `ServerOffers`
(with the pruning of a stopped Session), `ServerFinishes`, `ServerCommits`,
`ServerAttaches` (with the superseding of the older incarnation),
`ServerFails`, `ServerLoses`, `ServerExpires`, `ServerStops`.

Abstracted: keys and MACs (ideal), the limits and rates the handshake
negotiates, the retry back-off of `maintainCarrier` (a candidate may be made at
any time), the maximum of Carriers per Session (never reached by a client,
which has one Carrier ID per address), GOAWAY. Registries full of other
Sessions are a choice (`MayBeFull`). `ServerExpires` waits for unfinished
CREATEs: an attempt takes at most 4 seconds to connect and 5 for the handshake,
DialClient has at most three addresses, the limit is 30 seconds.

`Incarnations` is the contract of one endpoint: a Carrier ID starts at
generation 0, each accepted generation is above all earlier ones, only the
newest may be live, and everything is forgotten together when the Session is.

`AcceptedByServer` and `Reconnects` are conditioned on `sUsed[turn]` or
`sUsed[c]`. Without it there is a real but rare run: two CREATEs of one dial
overlap at the server (the first one's answer is lost and its handler is slow),
or a JOIN overtakes the handler of the CREATE between SERVER_FINISHED and
`addCarrier`. The client then believes in a Carrier that the server's Session
has not seen (section 5.2).

### 3.3 `Credit`

Models the flow control of one direction of a Session: a sender with several
Streams, a receiver, and the frames between them. `Transmission` justifies
that DATA, FIN, RESET_STREAM, STOP_SENDING and STREAM_CONSUMED are each handled
once, in any order; the two window frames are best effort, so every window ever
sent may arrive at any time, again, or never.

| Model | Code |
|---|---|
| `txNext`, `peerConsumed`, `creditConsumed`, `peerLimit` | the sender's fields of a `Stream` (`creditConsumed` is `peerCreditConsumed`) |
| `ending` | `writeFIN` and `sendReset` |
| `tx`, `rx` | the two halves of `connectionCredit`, at the sender and at the receiver |
| `rxHigh`, `rxRead`, `rxLimit`, `rxFIN` | the receiver's fields of a `Stream` (`hasFIN` is `rxFIN # NotFinal`) |
| `arrived` | the bytes present in receive pages |
| `stopped`, `closed` | `receiveStopped`, and `closed` of the receiving end |
| `data`, `ends`, `stops` | Transmissions not handled yet |
| `windows`, `sessionWindows`, `finals` | STREAM_WINDOW, SESSION_WINDOW, and STREAM_CONSUMED with the confirmations of RESET_STREAM, sent so far |

Sender: `Write`, `CloseWrite`, `Reset`, `RecvStop`, `RecvWindow`,
`RecvSessionWindow`, `RecvFinal`. Receiver: `RecvData`, `RecvDataNoPage` (pages
exhausted), `IgnoreData`, `RecvFIN`, `RecvReset`, `Read`, `Advertise` and
`OpenWindow` (the grants), `SweepSession`, `StopRead`, `Close`. `Discard` and
`Account` are the parts they share (`discardReceiveLocked`,
`receiveCommitLocked` with `releaseReadCreditLocked`).

Every handler in the code refuses a frame that contradicts its accounts, and
the refusal closes the Session. In the model the action is enabled only when
the frame passes (`DataPasses`, `EndPasses`, `WindowPasses`,
`SessionWindowPasses`, `FinalPasses` are those checks), and `NeverRefused` says
that each frame on its way passes in every state: whatever overtakes what, two
correct endpoints never refuse each other.

Abstracted: bytes are counted in units; the memory pressure is a choice among
`Targets`; the split of the Session limit into bootstrap and growth bytes (with
at most `MaxStreams` Streams only their sum can bind); local admission by the
pending table and the queue; the copy of a page outside the lock; the retirement
of the identity (`StreamEnds`).

`AccountsAgree` says how every offset of one end is bounded by one of the
other, with the frames on their way in between; it is the inductive invariant of
`Credit` (section 4).

`Window` is the contract of one window: committed bytes stay below the limit,
only committed bytes are consumed, and a new limit is at most `Size` above what
is consumed. It is checked of the Session and of each Stream, between the
committed bytes of the *sender* and the limit of the *receiver*.

**`Writers`** is the other side of a window that is closed: the writers of one
Session that wait for Session credit, for room in the queue of unscheduled DATA,
for room in the table of pending DATA, or for a Carrier (`session.go` 248-375,
`queue_admission.go`, `Stream.Write`). Nobody is woken for nothing: whoever frees
room signals as many writers as a frame each would use.

| Model | Code |
|---|---|
| `writer[w].at` | `"yielded"` between two quanta of a Write, `"asleep"` in the `select`, `"woken"` or `"late"` after it and before the lock |
| `writer[w].reason`, `token`, `told` | `writeWaitReason` with `writeWaiting`, the slot of `writeWake`, and whether `changed` was closed since |
| `line` | `writerReady` |
| `ready`, `again`, `assigned`, `owed` | the sizes of unscheduled DATA, of that part of it which a lost Carrier had been given, of assigned DATA, and of the credit not yet granted again |

Actions: `Write`, `Wake`, `Resume` (the loop once more), `Timeout`, `Late` and
`Expire` (the deadline passes while it sleeps, after its timer fired, after it
was woken), `Dispatch`, `Confirm`, `Grant`, `Lose`, `Attach`. `Run` is one hold
of the Session lock by a Write, and the way it ends; `Permits` says how many
writers an amount of room wakes, `PassedOn` what a leaving writer gives to the
next. Sizes are in units of the smallest frame. Left out: a Stream's own window
(it wakes its own writer only; `Credit` has it), the signal of
`SetWriteDeadline`, the broadcast of a failed dial.

### 3.4 `StreamEnds`

Models the life of one Stream identity at both ends of a Session, in both
directions at once, where `Credit` counts the bytes of one direction.

| Model | Code |
|---|---|
| `st[e]` | a `Stream`, and after `retireStreamLocked` its `terminalRecord`: `life`, `high`, `read`, `next`, `size` (the final size it knows), the flags of FIN, RESET and STOP in each direction |
| `tx` | OPEN, OPENED/REJECTED, DATA, FIN, RESET_STREAM, STOP_SENDING, STREAM_CONSUMED, as Transmissions that are handled once and then settled |
| `windows` | STREAM_WINDOW and CREDIT_PROBE, best effort |
| `backend` | the backend the server dials on OPEN has not answered |

Actions: `Open`, `Accept` (the answer of the backend, or its refusal), `Write`,
`CloseWrite`, `Read`, `CloseRead`, `Close` (both kinds), `Handle` (the frame
handlers of `termination.go`, of a live Stream and of a retired one), `Settle`,
`RecvWindow`, `Sweep` (`advertiseLocked` with the retirement), `Evict` (the
table of records is bounded). A direction has one byte: the ways to end it cross
each other in every order all the same. `Passes` collects the checks of the
handlers whose failure closes the Session.

### 3.5 The services of a Session

**`Admission`** (`admission.go`, `Serve`, `attach` and `Close` of `tcp.go`). A
connection is `Accept`ed against the global limit, the table of sources and the
source's bucket; `Look` is the first reading of the registry; `HandshakeFails`,
`Register` (the second reading, under the lock), `Release` the slot and
`SessionDone` follow in any order; `Tick` is time; `Cancel`, `Snapshot`,
`CloseSession` and `Return` are the steps of `Close`, which finds the Sessions
under the lock and closes them without it. The table may be full of sources that
are not idle, and a forgotten source begins with a full bucket: `Old` is large
enough that it would have had one (`RateHolds`).

**`Datagrams`** (`datagram.go`). Both ends seal packets under counters
(`sent`, one per end), the network keeps each for ever (`Receive` of any packet
sent, any number of times), `replay` is the window of counters indexed modulo
its size, `assemblies` with `held` the reassembly, `completed` the window of
datagram numbers, `pending` with `outstanding` the charge of paths until the
receipt or the time limit. `Send` charges a path after it has written the
fragments, some of which may have failed; a receipt may come back on another
path. `Ping` and `PathFades` keep the health of paths.

**`UdpFlows`** (`udp.go`). The client's flow table (`ReadLocal`, `ExpireLocal`,
`ReadCarrier`), and the server's peers, flows and sockets, in the critical
sections of the code: the reader of the listener looks a Session up (`Look`),
makes the peer (`GetPeer`), dials a flow (`GetFlow`) and writes to it
(`WriteBackend`) under different locks or none, while the monitor (`Expire`),
the readers of the sockets (`ReadBackend`, `ReaderEnds`) and `Stop` remove what
it works with.

**`ProductServices`** (`product_service.go`). The pool of pre-opened Streams:
`Refill` reserves, `PoolOpens`/`PoolFails` open without the lock, `PoolKeeps`
adds and kicks, `Take` takes or drops Streams that are too old. A request then
`Ask`s for a service on its Stream and `ReadReply`s; the server's handler of the
Stream `Select`s, `Dial`s the backend, and gives a UoT slot back in
`HandlerEnds`. `SessionEnds`, `Ages` and `ServerCloses` may come at any point.

**`UotClient`** (`uot.go`). `Enqueue` is the reader of the local socket, with
the two limits and the table; `FlowStep` the goroutine of a flow (open, write,
leave), `ReaderStep` the one that reads its replies, `StreamCloses` the peer,
`Expire` the monitor, `Stop` the end of the client.

**`ReceivePath`** (`handleDataFrame`, `stream.go`, `receivepage.go`). The bytes of
one Stream between the Carrier readers and the application. `handler[h]` is a
`handleDataFrame`: `Claim` (until it lets Session.mu go to wait for `rxOpMu`),
`Prepare` (which may `Ignore`, `Drop`, `Reserve` pages and keep `rxMu`, or
`Refuse` and reset the Stream), `Store` (under `rxMu` alone), `Publish`. `reader`
is `readRaw`: it chooses bytes and takes `rxMu` (`Read`), copies without Session.mu
(`Copy`), and retires what it copied if it is still the next (`Consume`), or
sleeps (`Sleeps`, `Wake`) on a slot of its own (`wake`) and the broadcast
(`told`). In between come `RecvFIN`, `RecvReset`, `CloseRead`, `Close` and
`SessionStops`, which give the pages back (`Discard`, `Released`) when `rxMu` is
free. A page is known by its number and the bytes present in it; the content of
a byte is its offset. Read deadlines are left out, and so is data that
contradicts data that came before.

### 3.6 The programs around the engine

**`DeviceControl`** (`provisioning/device_control.go`, `windows/remote.go`).
`mem` and `disk` are the records and their file; every operation changes the
record, saves, and on success wakes the channel (`Commit`). A failed save leaves
the change in memory in some operations and takes it back in others, as the code
does. The long poll is `PollArrives` (authentication), `PollReads` (the wake-up
channel, then the revision), `PollWakes`, and may be lost. The client records a
generation before it carries it out (`ClientHears`, `ClientApplies`) and may
crash in between. One generation stands for the three of the code.

**`DesktopEngine`** (`windows/engine.go`). `Start` and `Stop` called by the user
and by the remote loop, `Restart` (Stop, then Start), the launch between two
critical sections (`CallerLaunches`), the process (`Exit`), the goroutine that
waits for it (`Wait`), the one that reads its lines, and the recovery
(`Schedule`, `Fires`, `RecoveryPrepares`, `RecoveryLaunches`). `retryToken` is
only compared for equality, so a process or a timer is `fresh` or not. The lines
are sorted by what they do to the client: `Connecting` (also ready,
bundle_connecting, bundle_reconnecting), `Listening`, `Stats` and `Degraded`.
`handleEngineEvent` compares the token and nothing else (`Heeds`), so a line may be
of a process that is running, gone, or whose end `Wait` has already reported,
until its reader comes to the end of the pipe (`ReaderEnds`). Two things are
remembered for the properties. `raced`: a Stop, or a line of an ended engine, met an
engine that was just about to be launched; the code then leaves that engine
running. `late`: the last line that was heeded was of an ended engine, which may have
made the client running or busy with no engine there. What the properties exempt
of it is in section 5.2.

**`Bundle`** (`runParallelBundleWithLauncherRetry`, `macos/engine/main.go`). One
supervisor per Profile (`Launch`, `TellStarted`, `Exits`, `TellRetrying`,
`RetryDue`, `SupervisorEnds`), its child (`Says`), and the loop that takes from
the two bounded channels in any order (`TakeLifecycle`, `TakeEvent`).

**`Landing`** (`macos/engine/cmd/mptcp-landing/manage.go`). A command checks what is
installed (`Begin`: `Vacant`, `Owned`), then reads the files and decides on its list
of changes (`Install`, `SetConfig`, `Upgrade`, `Rollback`, `Uninstall`; `Refuse` when
it does not accept what it reads; `AcceptsBackup` is the validation of the binary
and config that rollback brings back), then `transaction` keeps a copy of every file
(`Snapshot`), writes them one by one (`Write`), undoes them from the last
(`WriteFails`, `Undo`) and calls systemd (`System`, `SystemFails`, `Undone`). `Crash`
kills the manager at any point, `Dies` and `Respawn` are the service under systemd.
`Tamper` replaces the binary by a foreign one at any moment: the manager's lock
keeps managers apart and nobody else. `slipped` remembers that it came between the
check of an operation (`owned`, line 503) and its end; nothing compares the
binary again before the write (line 537) or the undo (line 542).

**`Provisioning`** (`provisioning/main.go`, `windows/app.go`,
`windows/provisioning.go`). Two stores with a lock and a file each; the
requests that check one store to change the other hold `mutationMu` from their
checks (`Asks`) to their change (`Change`), the others do not. `Put` is a save
that may fail. A client fetches: `publicBundle` finds the record and reads the
Profiles one by one twice (`Finds`, `Reads`, `Validates`), `Hears` is the
client's answer with `Reconciled`, `SetUrl`, `Select` and `Reopen` its user. Two
variables are history: `written` is the mode of a Bundle as its request wrote it
(`Trimmed` is what is stored), `overtaken` the URLs whose document was being fetched
when the URL was changed.

### 3.7 Runs

| Run | Question | Bounds |
|---|---|---|
| `tx_kinds` | The safety properties and the contract with one Transmission of each kind | 3 Transmissions, 2 Carriers, 1 failure, task queues of 1, lanes of 2, a second attempt only when the first was lost (897k states) |
| `tx_race` | The two inductive invariants where retransmissions race their answers and the sweep may drop a Transmission after 30 s | 2 Transmissions, one of them `Expirable`, task queues of 2, 2 attempts, 1 failure (615k states) |
| `tx_live` | Everything settles; once every Carrier was lost, the receiver learns the watermark again, if no further Carrier fails | one DATA and one control Transmission, fairness, 2 failures (135k states) |
| `tx_expire` (violation) | Does an allocated Transmission stay outstanding? | finding 1 |
| `tx_retire` (violation) | Does the receiver learn the watermark again whatever fails? | 1 Transmission, 2 failures, fairness; finding 2 |
| `carriers` | Candidates, generations and both histories; Carriers come back, no end keeps a Session the other has ended | 2 addresses, 2 connections, 2 failures, generations 0..3 so that they run out, other Sessions may fill the registry, fairness (221k states) |
| `credit_one` | One Stream: no frame refused, its window kept, the credit of every byte comes back | 2 bytes, windows of 2, writes and reads of 1 or 2, every way to end, fairness (119k states) |
| `credit_two` | The Session window shared by two Streams: nothing refused, accounts equal the sums, no writer starves; and writers that wait for permits: the limits hold, none is forgotten | `Credit`: 2 bytes each, Session limit 2 (less than both want), Stream windows of 1, one Stream may be reset; `Writers`: 2 writers, one bulk, 2 Writes of 2 frames, 1 loss of the Carrier; fairness (65k states) |
| `streams` | One Stream at both ends: nothing refused, final sizes agree, both ends retire | the client writes a byte, the server none; records may be evicted; fairness (117k states) |
| `services` | The six modules of 3.5 side by side | about 400k states, fairness |
| `operations` | The five modules of 3.6 side by side | about 400k states, fairness |
| `engine_stop` (violation) | Is the engine launched after the user's Stop? | finding 3 |

A property of the last four passing runs may be a conjunction of named parts, so
that one question is asked of one component:

| Property | Its parts |
|---|---|
| `LimitsRespected` | `Credit`: `NeverRefused`; `Writers`: `TypeOK`, `LimitsHold` |
| `CreditSuffices` | `Credit!WritersProceed`, of the behaviours of `Credit` |
| `EndsAgree` (`StreamEnds`) | `TypeOK`, `SizesAgree` |
| `FlowsAgree` | `UdpFlows`: `TypeOK`, `CountAgrees`, `NoStray`, `PeerOnce`, `RepliesReturn` |
| `PoolAgrees` | `ProductServices`: `TypeOK`, `PoolBounded`, `OneOwner`, `SlotsAgree`, `ServedAsAsked` |
| `QueuesAgree` | `UotClient`: `TypeOK`, `BytesAgree`, `OneFlow`; `ReceivePath`: `TypeOK`, `NothingMissing`, `PagesAgree`, `OffersAreThere`, `NoReaderForgotten` |
| `DatagramsAgree` | `Datagrams`: `TypeOK`, `HandledOnce`, `ReceiptsTrue`, `ChargesAgree`, `AssemblyAgrees` |
| `AdmissionAgrees` | `Admission`: `TypeOK`, `SlotsAgree`, `RateHolds`, `OneSession`, `CloseIsComplete` |
| `ComesBack` | `UdpFlows!Drains`, `ProductServices!PoolFills`, `UotClient!FlowsEnd` |
| `DevicesAgree` | `DeviceControl`: `TypeOK`, `NoLostWakeUp`, `ConfirmedIsDurable`, `WithdrawnStaysDead`, `AtMostOnce` |
| `EngineObeys` | `DesktopEngine`: `TypeOK`, `StopWins`, `OneEngine`, `ReportsTruth` |
| `ReportsTheLatest` | `Bundle`: `TypeOK`, `ReportsTheLatest` |
| `InstallsWhole`, `ForeignUntouched` | `Landing`: `TypeOK`, `AllOrNothing`, `RollsBackToAPair`, `RunsInstalled`; `ForeignUntouched` |
| `StoreAgrees`, `ClientAgrees` | `Provisioning`: `TypeOK`, `CheckedBundlesStand`, `WithdrawnUrlsStayDead`, `SavedIsServed`; `OwnOrOvertaken`, `SelectionFits` |
| `WantedHappens` | `DeviceControl!Follows`, `DesktopEngine!NeverStuckBusy` and `Recovers`, `Bundle!Reconnects` |

Likewise `HistoriesKept` of the Carriers is both endpoints' refinement of
`Incarnations`, and `AccountsAgree` of the credit is `TypeOK` with
`LedgersAgree` (the Session's accounts are the sums of the Streams'),
`SessionInOrder`, `StreamInOrder` (the offsets of the two ends are a chain), and
`FramesInOrder`, `WindowsInOrder`, `SessionWindowsInOrder` (what is on its way
lies between them). The properties `RetireChain`, `ReceiverMemoryBounded` and
`Scheduled` have no run of their own: they follow from `IInv`, which the runs
check, by the theorems of section 4.

A definition that a comment calls "Mutant" is the definition below it with a
plausible bug. `PROJECT.json` names one for each property of a run. The others
each break another part of the same property:

| Module | Mutant of | Part it breaks |
|---|---|---|
| `UdpFlows` | `NewFlow`, `Removes`, `Refuses`, `Leaves` | `RepliesReturn`, `NoStray`, `Drains`, `PeerOnce` |
| `ProductServices` | `Missing`, `Slots`, `Accepts` | `PoolBounded`, `SlotsAgree`, `ServedAsAsked` |
| `UotClient` | `Fits`, `ReaderEnds`, `Expires` | `BytesAgree`, `FlowsEnd`, `OneFlow` |
| `ReceivePath` | `Publishes`, `Emptied`; `StillNext`; `WakesAll` | `PagesAgree`; `NothingMissing`; `NoReaderForgotten` |
| `Datagrams` | `Fresh`, `Complete`, `Freed` | `HandledOnce`, `ReceiptsTrue`, `AssemblyAgrees` |
| `Admission` | `Forgotten`, `Released`; `Room` | `RateHolds`, `SlotsAgree`; `OneSession` and `CloseIsComplete` |
| `StreamEnds` | `Commit` | `TypeOK` |
| `DeviceControl` | `Commit` (two), `Newer`, `Applies` | `NoLostWakeUp`, `ConfirmedIsDurable`, `AtMostOnce`, `Follows` |
| `DesktopEngine` | `MayStart`, `Launch`, `Heeds`, `Fires` | `OneEngine` (both), `ReportsTruth`, `NeverStuckBusy` |
| `Bundle` | `RetryDue`, `Longer` | `Reconnects`, `TypeOK` |
| `Landing` | `Upgrade`, `AcceptsBackup`, `System` | `RollsBackToAPair` (both), `RunsInstalled` |
| `Provisioning` | `Renamed`, `Put`, `WithUrl` | `WithdrawnUrlsStayDead`, `SavedIsServed`, `OwnOrOvertaken` |

**Bounds of `Transmission`.** `MaxTx`: two IDs are the least that have an order
and a gap in the contiguous watermark; three give one of each kind.
`MaxFailures`: a broken connection that both ends notice at different times; the
second end's noticing, and supersession, cost nothing. One is enough for the safety
runs, which ask of every state; what a recovery makes good again needs two
(`tx_live`, `tx_retire`), because all Carriers must be lost while one more may still
be up. `MaxAttempts` together
with `UnderWay`: a timer may fire at any time until a Transmission has had this
many generations; after that only when nothing that could still answer it is
under way. Without the second part the bound would strand a Transmission and
make liveness false for a reason the code does not have. `CarrierQueue`,
`ControlQueue`: the channel capacities, small enough that a full lane (and a
dropped confirmation) occurs. `MaxDataPending`, `MaxCtlPending`: the two classes
of the pending table.

**Bounds of `Carriers`.** `Conns`: connections that exist at once; two let a
new incarnation overlap the old one, or one Carrier's handshake the other's.
`MaxFailures` counts the ends that fail while the other end is there; an end
that notices the other's absence costs nothing. `MaxEarly` with `Timely`: a
candidate that comes while the handler of the previous one is unfinished may be
refused and cost a generation, without end; above this generation the model
makes candidates only when they come in time. `LastGeneration` stands for
2^62 - 1 and is reached, so that `generationExhausted` matters.

**Bounds of `Credit`.** `MaxBytes`: a Stream ends by being finished or by having
written this much; the first grant is of one byte, so that the second needs
another. `SessionCredit` is below the sum of what the Streams want, so that the
Session window binds; `Targets` are the extremes of the refill (none under
pressure, all). In `credit_one` `Bootstrap` is below `StreamCredit`, so that two
grants of different size are under way. `Endings` says, per Stream, which ways
of ending the applications use, to keep each run small.

**Bounds of `Writers`.** Two writers, one within its bootstrap window and one
beyond it, so that the reserves for new Streams matter. A Write has two frames and
a quantum is one, so that every Write lets go of the lock in between. Each of the
three kinds of room is of two or three units, less than both Writes need, and a
permit is worth two (`PerPermit`), so that a permit may be more than its writer
uses. Two writers can pass everything on to each other; three were checked once,
with the same result.

**Bounds of the services.** One Session with two applications, two flows, two
peer objects and two sockets, so that a flow expires and comes back under a new
number while its replies are under way. A pool of one Stream with two requests
and two Streams, so that a request finds the pool empty, being filled, or with
a Stream that aged. Two UoT flows for two addresses over queues of one packet
and three bytes with packets of one and two. Windows of two counters under
packets of up to two datagrams with two fragments and two probes each way, so
that counters fall out of the window. Three connections of two sources for two
identities, a table of one source and a registry of one Session, so that both
are full. Five bytes in three frames over three pages of two, with two pages for
the Session: a frame that is across a page, pages that come before the one that is
read, and a frame for which there is none left; two handlers and buffers of one
and three bytes.

**Bounds of the programs.** Three commands, two pairings and two faults on one
device. Two engine processes, three calls and two exits, two recovery delays.
Two Profiles, channels of one item, two launches of each. An installer that
begins empty or with an installation, three operations of two versions and two
configs, two faults. Two Profiles and a Bundle, ports 1 and 2, two requests at a
time and one fault, modes that are written with and without a blank, a client that
has the URL of the Bundle and does two things.

Deadlock checking is off in every run: each of these systems stops when its
bounded work is done and no failure is left.

### 3.8 Fairness

`EverySettles`, `RetireRelearned` and `RetireRefreshed` assume weak fairness of: the dispatcher
(`Session.run` wakes on a kick and every 10 ms), the retransmission sweep (at
most every 50 ms), the writer and reader goroutine of each active Carrier, the
publication of DATA that was read, the backend (dialled with a 5-second
timeout), the notice that the other end closed a connection (EOF, or the
reader's 10-second deadline), and `maintainCarrier`, which redials until the
Session ends. The failure of a connection is never assumed, nor that messages
in a lane of a dead connection arrive. The limit `MaxFailures` says that
failures eventually stop; without it nothing could be promised.

`Reconnects` and `EndTogether` of the Carriers assume weak fairness of:
`dialClientPolicy` and each `maintainCarrier` goroutine, each step of a
handshake whose message can be read, the failure of a handshake whose other end
has gone (EOF, or `handshakeTimeout`), the notice of a lost connection, and the
run loop that stops a Session without Carriers. Neither a failure of the network
nor a stop by the user is assumed. The 30-second limit may fire at any time a
Session is without Carriers, which is why `Reconnects` allows the Session to
end.

`WritersProceed` (which `credit_two` checks as `CreditSuffices`) and
`CreditReturns` assume weak fairness of: the writing and
the reading application; the handling of each Transmission (which `Transmission`
establishes); the sweep that sends the Stream window (every second, or 50 ms
after a read) and the Session window; the arrival of the *newest* window, since
it is sent again until a newer one replaces it; and of the refill of the Session
window without memory pressure, since pressure falls when pages are read. No
older window need arrive. A reset, a stop or a close is never assumed.

`WritersFed` assumes that a goroutine whose channel was signalled, or whose timer
fired, runs on; that the dispatcher runs, what it assigned is confirmed, and the
peer grants what was consumed (as above); and that a lost Carrier is dialled
again. That a deadline expires is not assumed, and nor is that one does not.

`BothRetire` assumes that Transmissions are handled and settled, that the sweep
comes to each end, that each application closes its Stream in the end, and that
the backend answers the server. A window need not arrive.

`Drains`, `PoolFills` and `FlowsEnd` assume that the reader of the listener goes
on between its critical sections, that the monitor ticks, that a read of a
closed socket returns; that the pool loop runs when it is kicked or its timer
fires and that an Open returns; that both goroutines of a UoT flow run.

`Follows` assumes that the client polls and the handler runs (the wake-up
channel or its timeout), and that the client carries out what it recorded.
`NeverStuckBusy` and `Recovers` assume that a call under way, the goroutines of a
process and the recovery go on (weak fairness of each of their steps), and that a
killed process ends. What an engine says, and whether it ever listens, is not
assumed: `Recovers` asks that an engine is launched again, not that it works. `Reconnects` of the Bundle assumes that the loop takes from both
channels and the supervisors run, strongly where a supervisor waits for room in
a bounded channel that others fill too (Go's channels queue their senders in
order). No fault is assumed anywhere. In the compositions the fairness is that
of the module whose part the behaviour is. `Landing` and `Provisioning` have none; their
behaviours are written under that of `DesktopEngine`, whose steps are not enabled
where no engine is ever called.

## 4. Proofs

`TransmissionProofs` proves, for any number of Carriers, Transmissions,
failures and attempts and any capacities (`TxAssumption` only says that the
constants have their types and that `NoCarrier`, `NoTx` are not values of
them):

* `TypeCorrect`, `Inductive` (`Spec => []IInv`), and from it `RetireOrdered`,
  `MemoryBounded`, `SettledStaysHandled`, `Implements`;
* `NothingStranded`, from a second inductive invariant `BindingInv`;
* `NeverFails`, under `Expirable = {}`: finding 1 shows why this hypothesis is
  needed (a confirmation of what was dropped is a failure).

`SettledNeverHandledAgain` and `RetireChain` are not inductive: they speak of
what the sender has settled, while steps depend on messages. `IInv` adds what
is under way. `AllocInv`: nothing is known or on its way of an unallocated ID.
`ReceiverInv`: whatever the receiver is working on is fingerprinted or already
retired, so a late publication cannot resurrect anything. `SettleInv`: every
confirmation under way concerns an ID that is in `replay` or below
`peerRetired`, every RETIRE under way is at most `settledThrough`, and settled
IDs are disjoint from `pending`. From these an attempt of a settled ID finds
itself remembered. The step proof has one lemma per action; a few lane lemmas
say what `Append`, `Tail` and clearing a lane do to its range.

`CarriersProofs` proves, for any number of addresses and connections, any
generation limit and any number of failures (`CarriersAssumption`):

* `CarrierTypes`, `CarriersInductive` (`Spec => []IInv`), and from it
  `ScheduledOnes` and `CandidatesAbove`;
* `ClientHistory` and `ServerHistory`, together `BothHistories`: each endpoint
  implements `Incarnations`, every step being an accept, a loss, a forgetting or
  a stutter.

`CandidateAboveServer` is not inductive: the server may raise what it accepted
at a time when the client has long given up that connection. `GenInv` adds
that the generation of *every* connection, abandoned ones included, is below
the next candidate of its Carrier (`Below`, which also covers a Carrier that
was never accepted and one whose generations are spent). To keep that while
the client accepts one, a Carrier must have one candidate at a time, and none
while it is attached (`TryInv`). `ClientPaths` and `ServerPaths` tie the paths
to the stages of the connections, so that superseding one incarnation cannot
disturb another, and `SessInv` says that a Session that is not open has no
connection, so that it can be forgotten with them.

Of `Carriers`, a third theorem:

* `AcceptedOnes` (`AcceptedByServer`), from `AcceptInv`: the CREATEs of a dial are
  made one per address, in turn, and by an open client only (`CreatesKept`);
  another connection of the client is never the first of the Carrier it dials
  with (`OthersKept`); what the server remembers of a Carrier is a history
  (`HistoryKept`); nothing is answered before the CREATE of an open client makes
  the Session (`NothingBefore`); and in a Session the client has joined, each
  Carrier it used was accepted or has a handler that will attach it
  (`JoinedKept`). The property alone speaks of the moment the client believes a
  Carrier; what makes it true are the handlers still under way at the server.

`CreditProofs` proves, for any number of Streams and bytes, any windows,
payloads, grants and ways to end (`CreditAssumption`):

* `AccountsAlwaysAgree`, the inductive invariant, and from it
  `NothingIsRefused`: no frame of a correct peer meets a check it fails;
* `SessionWindowContract` and `StreamWindowContract`: the window of the Session,
  and of each Stream, implements `Window`.

The argument is a chain for each Stream, what the sender knows to be consumed <=
consumed <= received <= sent <= the limit the sender knows <= the limit granted
<= consumed + the window, and the same of the Session. The windows sent form a
chain too (of two, one is at most the other in both fields), so that an old one
that arrives late moves nothing back. The Session's accounts are stated as
cardinalities of sets of bytes (`BytesBelow`), not as sums, so that "one Stream
moves by n" becomes a lemma about a set that grows by n elements. `ReceiverMoves`
is what every action of the receiver comes down to; it is proved once.

`WritersProofs` proves `LimitsKept` for any number of writers and any limits
(`WritersAssumption`), of both halves of `MCWriters`. The invariant (`WaitInv`) is
that the line is an enumeration without repetition of the writers in a Write;
its length is then their number by a bijection, which is what the reserve of the
queue counts. What a Write may take (`Allowed`) fits the credit owed and the
table of pending DATA, and signals and broadcasts move nobody in or out. The
credit half reuses the step lemma of `CreditProofs`.

`StreamEndsProofs` proves `FramesAreAccepted` (`NeverRefused`) and `FinalSizesAgree`
(`EndsAgree`), whichever ends write and whether or not records are evicted. What a
frame says when it was sent must still be what its receiver can check it against
when it arrives, and that is made inductive by four parts. `EndKept`: a Stream that is
closed has ended its own direction, by FIN or reset; one that is retired knows the
final size of the other; before the OPEN is answered nothing is sent. `Heard`: what
arrived is at most what was sent, and a final size that is known is that of a
direction that has ended, so it can no longer change. `Truthful`: a Transmission
under way still describes the end that sent it. `Opening`: there is one OPEN, a
client that takes its Stream as open has a server that agrees, and a server that
refused it, or learnt of its end first, will not open it later. `Grows` is what a
step may do to the record of an end; each of the elementary steps of
`termination.go` (charge, discard, reset, cut off, queue the controls) is a lemma
`...Follows`, each handler a composition of them, and `Steps` carries the result
over to the frames.

`ServicesProofs` and `UdpProofs` prove the safety properties of all six parts of
`MCServices`. A step of one part leaves the variables of the others alone, so
each part has an invariant of its own.

* `AdmissionKept`, from `AdmissionInv`, for any number of connections, sources
  and Sessions and any limits. `AdmissionAssumption` has one numeric condition,
  `Burst <= Rate * (Old + 1)`: a bucket that is idle for longer than `Old` ticks,
  after which its source is forgotten, would be full (a minute, and a burst of 16
  at 8 per second, in the code). `RateKept` is why it is needed: what a source
  was admitted, plus what its bucket holds or will hold when it is refilled, is at
  most the burst plus the rate times the ticks; a source that is not known has
  used none of the burst it will be given. `SlotsKept` states each count as a
  cardinality, `RegistryKept` that an identity has one Session at most, `CloseKept`
  that what is live when the server closes is doomed.
* `FlowsKept`, from `FlowInv`, for any number of Sessions, applications, peers,
  flows and sockets. A peer object is made for one Session and for each live
  Session once (`PeersKept`); an entry names a socket made for it (`EntriesKept`);
  the count is the cardinality of the entries in use (`CountKept`); an open socket
  has its entry (`StrayKept`, unless `late`, section 5.2). That replies return to
  who asked is not inductive: `Uses` is the relation between a flow number of a
  Session and the applications that have it, have asked with it in a datagram still
  under way, or may still be answered; it is a function, and numbers above the last
  one given are not used (`UsersKept`).
* `DatagramsKept`, from `DatagramInv`, for any number of paths, datagrams and
  fragments, any window and any limit of reassembly. `WindowsKept` says where the
  memory of a number that was committed is: below the window, or in its slot. That
  no number is committed twice rests on the arithmetic of the slots: two numbers
  with one slot are a window apart, so the younger one has moved the older out of
  the window. `ReceiptsKept`: a receipt that was ever sent is of a datagram that
  was rebuilt from packets of its own. `AssembliesKept` and `ChargesKept` state
  the two byte accounts as the number of fragments in a set of rows, one per
  datagram, so that adding or dropping a datagram adds or drops its row.
* `PoolKept`, from `ProductInv`, for any number of requests, Streams and failures
  and any size of the pool. `PoolCounted`: every reserved place is that of a
  goroutine that opens a Stream or has opened one. `PlacesKept`: a Stream is in
  the pool once, or with its opener, or held by one request, and an open one is
  in one of them; `FreshKept`: a number not given yet is nowhere. `HandlersKept`
  ties the place of a handler to what was asked and answered on its Stream, and
  `AskedKept` what was asked to the one who holds it: together they give that a
  request is served what it asked for. `KeepingKept` is the lemma on what a
  refill leaves: the ranks of the places kept are the numbers up to their count,
  so the kept Streams are as many, each from a place of its own.
* `QueuesKept`, from `UotInv` and `ReceiveInv`. In `UotInv` (any number of
  addresses, flows and datagrams) the table has exactly the flows that have not
  ended, one per address (`TableKept`), a flow that has ended or is not made yet
  has nothing queued, and the count of queued bytes is that of the bytes in the
  queues and writes, one row per flow (`BytesKept`). In `ReceiveInv` (any number
  of handlers, frames, pages and sizes of a read): a byte is in flight, with one
  handler, or present, and one handler at a time is between prepare and publish
  (`DataApart`); while one stores it has `rxMu`, so nothing ends the Stream and
  nobody copies, and what it stores begins at `rxContiguous`, which the reader
  cannot see past (`StoreKept`); the pages are those of the bytes present or being
  stored (`PagesKept`); and what was offered to a reader is between `rxRead` and
  `rxContiguous` until it has been retired or the Stream is over (`ReaderKept`).
  The first byte that is missing is found by a CHOOSE of the least element; that
  there is one is the well-foundedness of `<` on the natural numbers.

`FlowsAssumption`, `DatagramsAssumption`, `PoolAssumption` and `UotAssumption` only
say that limits, sizes and bounds are natural numbers, and that the replay window
is not empty; `ReceiveAssumption` adds that the frames a Stream is cut into do
not overlap: `Transmission` hands on a frame as it was first cut, and data that
contradicts other data is left out (3.5).

`OperationsProofs` proves the safety properties of all five parts of
`MCOperations` for any number of devices, commands, processes, Profiles, Bundles,
versions, requests, failures and restarts. A step of one part leaves the variables
of the others alone, so each part has an invariant of its own:

* `DevicesKept`, from `DeviceInv`: the record in memory and the one on disk are
  each consistent (`Separate`), what was confirmed is on disk (`Confirmed`), and the
  loop of the client has carried out what it says (`LoopKept`).
* `EngineObeysTheUser`, from `EngineInv`. The three properties become inductive
  with `Places` (a process that was built is of one call or of the recovery, and
  what can be cancelled was launched) and `OneAtATime` (while one is built, the
  client is busy and no other can be, since nothing that is current ends its
  turn). `Stopped`: after a Stop no token is current, so no timer can launch.
  All three are conditional on `~raced`, and what is reported also on `~late`, as the
  properties are: finding 3 and section 5.2 show what a Stop inside a launch and a
  line of an ended engine do. A line of an ended engine changes neither a token nor
  a process, so `StopWins` and `OneEngine` need no condition on `late`.
* `LatestIsReported`, from `BundleInv`: the news of a Profile in `lifecycle` are in
  order of its launches (`InOrder`), and the goroutine has told no more than it has
  done (`Told`); then the latest news is either still in the channel or is what is
  reported (`Reported`). Taking an item needs all three: what is behind it is
  younger, and what is older than it cannot be current.
* `FilesInstalledWhole` and `ForeignLeftAlone`, from `LandingInv`: the checks of an
  operation that changes the binary found one of the program, or none, and it is
  still there as long as nobody has replaced it since (`CheckKept`, of `~slipped`);
  a file is as it was found or the operation is to change it (`WriteKept`), with one
  fault a file is as found or will be put back (`UndoKept`), and no operation writes
  a foreign binary, the backup included (`ForeignKept`). The service is tied to the
  files only while there is one fault and no kill.
* `StoresKept` and `ClientKeepsItsDocument`, from `StoreInv` and `ClientInv`: the
  store and its file are equal, at most one request is between its check and its
  change, and what it checked still stands then (`Permits`); requests that do not
  take `mutationMu` only let Profiles appear and Bundles go (`LaterStands`).
  `Stands` asks for ports of their own where the mode was written "parallel", so
  that padded modes are among the requests the theorem speaks of. A withdrawn URL is
  of no record and of no token still to be given (`UrlsOf`). What is being fetched
  is of the URL the client has or of one that is overtaken (`FetchKept`).

`OperationsAssumption` says that model values are different from each other, that
bounds are natural numbers, that `Modes` are among the three ways to write one
that the model distinguishes, and that `FirstProfile`, with which the initial
state is described, is a Profile.

The parameters of the compositions are constants that `Services.cfg`,
`CreditTwo.cfg` and `Operations.cfg` give values to, so that the theorems
speak of the specifications that TLC runs.

Every inductive invariant was checked with TLC before its proof was begun.

Every safety invariant and every action property of the passing runs is stated
by a theorem. Model-checked only are the liveness properties (section 3.8),
because fairness and ENABLED are out of the prover's reach.

## 5. Findings

### 5.1 Shown by a run

1. `session.go:1347`: a pending OPEN, DATA or FIN is removed 30 seconds after
   its creation once its Stream has left `Session.streams`, without being
   settled. `testdata/transmission-allocation.json:27` expects
   `remains_outstanding_eventual_attempt`. The settled watermark can then never
   pass that ID (the peer's replay memory grows), and a late confirmation of it
   is a Transmission ID failure. Run `tx_expire`.
2. `session.go:602`: `lastRetireAdvertised` is forgotten only when the last Carrier
   is lost. After a recovery RETIRE is queued once; when its Carrier fails while
   another is up, it is repeated only when something else settles, and until then
   the peer keeps its replay state. `testdata/recovery-progress.json:29` expects
   `eventual_TRANSMISSION_RETIRE_refresh`. Run `tx_retire`; what does hold,
   `RetireRelearned`, is checked by `tx_live`.
3. `windows/engine.go:522`: the recovery goroutine compares its token under `a.mu`,
   releases it and calls `startEngine(true)`, which does not look at the
   token again. A Stop in between finds no engine, returns, and the engine is
   launched. `docs/userspace/DEPLOYMENT.zh-CN.md:157` says that after the user's
   own Stop it is not started automatically; the line is in the section on the
   macOS client, with which `windows/README.zh-CN.md:25` and `:37` claim parity of the
   background recovery. Run `engine_stop`.

### 5.2 Met while modelling

The models contain the following behaviours, and the properties are stated so
that they allow them.

* `tcp.go:80`: every address of `dialClientPolicy` is sent a CREATE of the same
  Session ID. When the SERVER_FINISHED of one is lost after the server has
  registered the Session, the others are refused with SESSION_CONFLICT and
  DialClient fails (`testdata/handshake-ambiguity.json:24` and `:34`).
* `mpx4_stable_state.go:219`: when the SERVER_FINISHED of the first JOIN of a
  Carrier is lost, the client offers generation 0 of the same Carrier ID again
  and again and the server refuses it (`testdata/handshake-ambiguity.json:18`).
* `session.go:1421`: the run loop decides under the lock that a Session has been
  without Carriers for 30 seconds and stops it after unlocking; a Carrier
  attached in between is closed with it.
* `termination.go:34`: the record of a retired Stream may be evicted before the
  peer has learned that it is retired; `BothRetire` allows the forgotten one.
* `stream.go:499`: a writer that leaves passes on a permit for the table of pending
  DATA, and no other. A permit for Session credit or for the queue that was given
  to a writer whose deadline expires before it holds the lock again is lost: the
  others sleep until the next signal, beside room they could use. `WritersFed`
  allows it (`forfeited`). At the real limits a grant of credit wakes more writers
  than a Session has; the queue wakes at most 32 for up to 128 dispatched frames
  (`queue_admission.go:53`), so it can happen there.
* `session.go` `ackLocked`: the permit of a confirmed frame goes to the first writer in
  line. That may be a writer beyond its bootstrap window which must leave the room to
  others and does not pass the permit on; it is harmless because `MaxDataPending`
  exceeds `MaxStreams`, so that the reserve is never all there is. `PendingLimit`
  of the model keeps this relation.
* `udp.go`: a Session that ends between its look-up and the lock of the UDP
  server gets a second peer object, and `getFlow` may make a flow in a peer that
  `expire` has just removed (`late`).
* `windows/engine.go:238`: `Stop` during a launch finds no engine to cancel and the
  engine stays up (`raced`); the branch that gives up the wish when there is no
  recovery does not compare the token.
* `windows/engine.go:349`: a buffered listening, bundle_listening or stats line that is
  handled after `waitEngine` has reported the unexpected end of its engine sets `Running`
  with no engine there (the token is unchanged, lines 444-480). The recovery
  timer then finds its token valid (line 524), `startEngine` returns nil because the
  client is running (line 188), and nothing is scheduled again
  (`docs/userspace/DEPLOYMENT.zh-CN.md:157` promises a rebuild of the runtime after
  an engine failure). A late connecting line leaves the client busy when the
  recovery has given up. `ReportsTruth`, `NeverStuckBusy` and `Recovers` allow this
  until the next launch, Stop or line of a living engine (`late`).
* `provisioning/device_control.go`: a generation requested by an operation whose
  save failed may be carried out by the client and be forgotten by a crash.
* `macos/engine/main.go`: a `started` that the loop takes after the `listening`
  of the same launch removes the Profile from the ready ones;
  `ReportsTheLatest` only asks that nothing is reported that is not so.
* `manage.go`: a manager that is killed between the binary and the record leaves
  an installation that no command accepts until the binary fits the record again.
  A foreign binary that replaces the installed one between `owned()` (line 503)
  and the write (line 537) or the undo (line 542) is overwritten
  or removed; `ForeignUntouched` allows it (`slipped`). A service that systemd restarts in the middle of a transaction runs a mixed
  pair (`respawned`).
* `provisioning/main.go:1265`: the mode of a Bundle is checked as it came and
  trimmed afterwards, so `" parallel"` is stored as a parallel Bundle whose
  Profiles may share a port (`docs/userspace/PROVISIONING.md:57`: local port plans
  are validated). Such requests are in the run; `CheckedBundlesStand` asks ports of
  their own of the modes written without blanks.
* `provisioning/main.go`, `publicBundle` reads Profiles without `mutationMu`; an
  answer may mix two versions of the store.
* `windows/app.go:276`: the answer of a fetch is stored without comparing the URL it was
  asked for with the configured one, so a document that was being fetched when the
  URL was changed is used and cached (`macos/README.zh-CN.md:69` and
  `docs/userspace/PROVISIONING.md:67` say that one of the old source is not).
  `OwnOrOvertaken` allows that document and no other.
* `admission.go`: `releaseAdmissionLocked` sets the time of the bucket without
  adding the tokens of the time that has passed.

## 6. Not modelled

* Cryptography and frame encoding (taken as ideal), the schedulers' numeric
  estimates and the flight and queue counters that steer them, GOAWAY.
* The contents of frames and pages: bytes that come twice with different contents, and
  other violations by a peer that is not correct.
* Process-wide resource budgets: their exhaustion is a choice.
* The administrator's password and sessions, pages and views of the
  provisioning service; the single-Profile supervisor, the command line and the
  other protocols of the engine; configuration parsing of the landing process.
* The macOS client, which supervises the same engine in Swift on one actor; user
  interfaces, updates, and the build and release scripts.

`PROJECT.json` gives the status of each part, and the properties that cover each
hazard.
