# A TLA+ model of raft-example

The repository is a replicated key-value store: HashiCorp Raft orders the
writes, an FSM keeps the state in Pebble, gRPC serves clients, and memberlist
gossip tells the nodes each other's addresses. This directory models its parts
in TLA+, checks them with TLC on small instances and proves the main safety
properties with TLAPS for every value of the constants.

## The system

| part | source | state | operations |
|---|---|---|---|
| leadership | `engine/raft.go` | `raftNotifyCh`, `leaderLoopCancel`, `stopCh`, `readyForConsistentReads` | `monitorLeadership`, `leaderLoop`, `establishLeadership`, `leadershipTransfer`, `revokeLeadership`, `close` |
| reads and writes | `engine/kv.go`, `engine/linearizable.go` | requests in progress, `dbAppliedIndex` | `Apply`, `Query`, `ConsistentRead` |
| store | `fsm/store.go`, `fsm/utils.go`, `fsm/apply.go`, `fsm/wb.go` | `pebble.running`, `pebble.updating`, the data directories, the handle `db` | `newStore`, `applyCommand`, `saveSnapShot`, `recoverSnapShot`, `close` |
| state machine | `fsm/fsm.go` | `fsmIndex`, `abandonCh` | `Apply`, `Snapshot`, `Restore`, `abandon`, `Close` |
| watches | `service/blocking_query.go`, `service/service.go` | `currentMinIndex`, the result of the last query | `BlockingQuery`, `Watch`, `WatchKey` |
| forwarding | `service/service.go` | the connection cache | `forwardRequestToLeader`, `getOrCreateConn`, `CloseAllConns` |
| gossip, resolver | `gossip/`, `resolver/` | the map from node to address | `NotifyJoin`, `NotifyLeave`, `GetGRPCAddr` |
| engine | `engine/engine.go`, `app.go` | the components, `shutdownCh` | `NewEngineWithConfig`, `Close` |

How they interact. Raft pushes gained and lost leaderships into
`raftNotifyCh`. The monitor starts and joins a leader loop for each. The loop
waits for a barrier and raises the flag that linearizable reads check after
`VerifyLeader`. Raft's FSM goroutine applies entries to the store, or restores
a snapshot into a new directory and switches to it. A restore replaces and
closes the channel that waiting watches select on.

What is hard: the monitor lags behind raft; a check and its use are separated
by steps of others (the context and the flag, the flag and the read, the value
and its index); a switch of directories takes a dozen system calls and may stop
after any of them; an error may come after the effect it reports. The hazards
are listed, each at its line, in `PROJECT.json`.

## Modules

**Leadership** models each node's monitor, loop and flag. `monitor` and `loop`
are the control states of the two goroutines; each action is the code between
two points where the goroutine can be interleaved. The context check and the
raising of the flag in `establishLeadership` are two actions. Raft is external:
elections, the pushes to `raftNotifyCh` (raft's main goroutine blocks on a full
channel) and the fate of a barrier.

**ConsistentRead** extends it with a replicated log, reduced to the number of
committed writes, and with clients that call `Apply` and `Query`. `applied` is
what each FSM has applied. An election freezes what the outdated leader can
learn to be committed (`reach`) until it steps down. `vouched` is history: the
monitor was idle, with an empty channel, when the read found the flag raised.

**Store** models the disk of one node and the code that manages it, one system
call at a time. A directory holds one value. Entries of the base directory are
volatile until synced. `Faults` selects what may go wrong: an open or a write of
a file, a removal, a directory sync, a commit, crashes. `leftBehind` is history:
the directories that a crash, a failed open or a failed removal has left, which
the next start removes. **AtomicStore** is
what the store promises: one value that survives the process and that a
snapshot replaces at one instant.

**Watch** models the indexes of one node: raft's main goroutine, which hands
entries to the FSM before it advances `AppliedIndex()`; the FSM goroutine with
the steps of `Restore` and `abandon`; `Watch` streams; and linearizable `Get`s.
A restore may fail before the swap of the databases or after it; raft then stays
at its index, and nobody is told. `floor` is history: what this node's FSM had
finished when the `Get` was called. Writes that other leaders have answered are
the subject of `ConsistentRead`.
The value of the watched key is the index of the entry that wrote it. Channels
are numbered, and those below `closed` are closed.

**StateMachine** models the goroutines that meet at one `StateMachine` and the
Pebble handles of its store: the FSM goroutine, `Persist`, `UpdateFsmIndex`,
readers and `Close`. A restore opens a new handle, fills it, swaps it in, closes
the old one and removes its directory, and may fail at each of these points; a
late failure leaves the new state in place while raft's indexes stay. A handle's
content is the index of the last entry in it. The use of a closed handle panics
and ends the process.

**Replay** looks at the same operations from further away: what the stores and
snapshots of several nodes hold through restarts, which replay the log over a
store that is already ahead. A restore is one step here, which `StoreIsAtomic`
justifies, or fails before or after its effect. `failed` is history: the entries
whose write failed on the node. The value of a key is the index of the entry
that wrote it.

**SnapshotStream** models the bytes of a snapshot as 4-byte words, the writer
with one action for each write to the sink, and the reader with one for each
`io.ReadFull` and each way it can end. A length takes two words, a key any
number of them. Between writer and reader the file may be cut or one word
changed. `MaxLen` is the limit of 1 GB, in words.

**Gossip** models the address map of each node and the goroutine that joins the
seeds. **Forwarding** extends it with raft's view of the leader and with
requests: a request is a stack of handlers, each of which serves it or invokes
the next node.

**ConnCache** models the shared connection cache, its lock and the states that
connections go through by themselves; the section under the write lock is the
three steps of its code. **Shutdown** extends it with the steps of
`NewEngineWithConfig` and `Close` and with requests that are served, forwarded
or watching meanwhile. A forwarded `Get` goes on by itself when the forward
fails. A request that meets a raft that is shut down is refused or, since
`applyCh` and `verifyCh` are buffered and `Error()` has no timeout, hangs for
good.

`MCConsistentRead`, `MCStore` and `MCReplay` add symmetry of nodes, directory
names and keys, used in runs without liveness properties; `MCGossip`,
`MCForwarding` and `MCSnapshotStream` name seeds, addresses and keys. The definitions named
"Mutant of ..." in the modules are faulty variants of the definition that
follows; no specification uses them, and each one shows that a property can
fail.

## Runs

`tlc -config <run>.cfg <module>`, with the module that `PROJECT.json` names.

| run | expected | what it checks |
|---|---|---|
| `Leadership` | pass | the monitor meets a gain and a loss in alternation (`MonitorInStep`); no flag survives the join (`NoReadyAfterJoin`); a flag seen with a drained channel belongs to the latest leadership (`DrainedReadyIsCurrent`); where raft is not blocked on a full channel, a stable leader becomes ready, a lost leadership is revoked and the join returns |
| `ConsistentReadFaults` | pass | `VouchedReadsAreFresh`, with crashes and errors |
| `LinearizableRead` | violation | the same without "vouched" |
| `Store` | pass | `RunningIsWhole`, `RunningNamesCurrentDir`, `NoLeakedDirs` and the refinement `StoreIsAtomic` |
| `StoreFaults` | pass | `ServesOpenDir` under every fault |
| `Watch` | pass | the index of a read covers what the node had finished when it was called (`ReadIndexCoversWrites`); a value that stays is reported (`WatchReportsValue`); both with failing restores |
| `StateMachine` | pass | reads are recent (`ReadIsRecent`), a snapshot is of one moment (`SnapshotIsFrozen`), the handle in use is open and the only one (`OneHandle`), whichever way restores end |
| `Replay` | pass | but for the writes that failed, a node that has caught up holds the state of the log (`CaughtUpIsState`) and none lacks a write it was handed (`NeverBehind`) |
| `SnapshotStream` | pass | `RoundTrip`; a stream that was only cut restores a prefix of the records (`CutIsPrefix`); a verified stream is complete (`VerifiedIsComplete`); no allocation panics on a stream that was at most cut (`OnlyDamagePanics`) |
| `Gossip` | pass | with all others as seeds, running nodes find each other (`EveryoneDiscovered`) |
| `Forwarding` | pass | `AddedOnce`, hops lead to ever newer leaders (`HopsClimb`), `RequestsEnd` |
| `Shutdown` | pass | `Close` takes neither raft nor the store away from a request before the time is up (`LocalRequestsServed`); the cache holds exactly the open connections (`CacheIsExact`); calls end (`CallsEnd`); `Close` returns, hanging requests or not (`CloseReturns`) |

The type invariants of `StateMachine`, `Replay`, `Forwarding` and `Shutdown` are
proved rather than checked.

Further configurations ask one question each and are run by hand in the same
way. Two check a larger instance of something above and find no error:
`ConsistentRead` (module `MCConsistentRead`: three terms, no faults) and
`ConnCache` (two addresses, callers that call forever). In each of the others
TLC finds the property violated:

| configuration | module | violated property |
|---|---|---|
| `JoinHang` | `Leadership` | the monitor's join returns, raft blocked or not (`JoinAlwaysReturns`) |
| `ReadsNeverGoBack` | `MCConsistentRead` | a read never returns less than an earlier one |
| `FirstStartCrash` | `MCStore` | a start never finds the directory missing (`DirNeverMissing`) |
| `SyncDirFailure` | `MCStore` | `RunningNamesCurrentDir` when a directory sync may fail |
| `WatchIndex` | `Watch` | the value sent is the value at the index sent (`ValueMatchesIndex`) |
| `WatchAbandon` | `Watch` | a restore reaches every waiting query (`RestoreNotifiesWaiting`) |
| `RestoreReaders`, `RestorePersist` | `StateMachine` | a restore takes down neither readers (`RestoreSparesReaders`) nor `Persist` (`PersistEnds`) |
| `SnapshotIndex` | `StateMachine` | the header names the last applied index (`HeaderNamesLastIndex`) |
| `ReplayPeers` | `MCReplay` | nodes at the same index agree (`PeersAgree`) |
| `ApplyFailure` | `MCReplay` | a node that has caught up holds the state of the log, failed writes or not (`AppliedIsState`) |
| `TruncatedSnapshot` | `MCSnapshotStream` | an accepted stream is complete (`AcceptedIsComplete`) |
| `GossipDiscovery` | `MCGossip` | `EveryoneDiscovered` with the seeds of the README |
| `ForwardingGossip` | `MCForwarding` | a leader in the gossip map is resolved (`LeaderIsResolved`) |
| `ConnRace` | `ConnCache` | only failed connections are closed (`ClosesOnlyFailed`) |
| `ShutdownForward`, `ShutdownConns`, `ShutdownOrder` | `Shutdown` | requests in flight complete (`InFlightComplete`); no connection is left (`NoConnLeft`); parts are closed after the last request (`OrderedCleanup`) |

The violations, but for `JoinHang`, are disagreements between the code and what
it, or its documentation, says, quoted in the comments of the properties:

- **LinearizableRead.** A node is deposed after its barrier and raises the flag
  all the same. Another node commits and acknowledges a write. The first node is
  elected again before its monitor has read the loss. `VerifyLeader` succeeds,
  the old flag is still up, and the read misses the write. The window is the
  monitor's lag over two elections: narrow, but nothing closes it.
- **JoinHang.** The monitor joins a loop that waits for a barrier or a transfer;
  raft's main goroutine, which would answer it, is blocked on a full
  `raftNotifyCh`, which only the monitor empties. No line of the repository
  promises otherwise; it takes 100 changes of leadership within one join.
- **ReadsNeverGoBack.** A read passes `VerifyLeader`, its node is deposed and,
  now a follower, applies a write of the new leader before it reads. The next
  read, at the new leader, whose FSM has not applied the write, returns the
  older value. No acknowledged write is missed.
- **FirstStartCrash.** `pebble.running` is renamed into place before Pebble
  creates the directory it names. A crash between the two makes all later
  starts fail.
- **SyncDirFailure.** The rename takes effect and the sync after it fails.
  `cleanupNewDB` deletes the directory that `pebble.running` names. The node
  goes on with the old one, which the next start removes.
- **WatchIndex.** The value and `AppliedIndex()` are read one after the other.
- **WatchAbandon.** A query that handles a tick while `abandon` runs selects on
  the new channel afterwards. `WatchReportsValue` shows what is left: the new
  value arrives with the next index or timeout.
- **RestoreReaders, RestorePersist.** `recoverSnapShot` closes the old handle at
  once. A reader, or a `Persist`, that took it before the swap then panics.
- **SnapshotIndex.** `newRaft` sets `fsmIndex` to `AppliedIndex()`, which counts
  entries the FSM has not applied. A snapshot taken before the next `Apply`
  carries that index.
- **ReplayPeers.** A replay starts over a store that is ahead. Until it has
  caught up the node differs from a peer at the same index, and a stale read
  sees a mixture. `CaughtUpIsState` and `NeverBehind` show what is left.
- **ApplyFailure.** The error of a failed write goes to the client, and raft
  goes on: the node lacks the write. `Logger.Fatalf`, which Pebble calls when it
  cannot go on, only prints.
- **TruncatedSnapshot.** A stream cut between two reads ends the loop like a
  complete one, with a warning at most.
- **GossipDiscovery.** Only the join goroutine dials seeds, and it ends with its
  first success or fifth failure. Node A of the README has no seeds: restarted
  after the others dropped it, it stays alone.
- **ForwardingGossip.** The resolver is asked with a raft address, the gossip
  map is keyed by node ID.
- **ConnRace.** A connection recovers between the check of its state and
  `Close`, and carries another request when it is closed.
- **ShutdownForward.** `CloseAllConns` runs before the wait for requests, and
  cuts those that are forwarded. **ShutdownConns.** A request still in progress
  dials anew after it. **ShutdownOrder.** `Stop` cancels the requests but need
  not wait for their handlers.

### Bounds

- `Leadership`: one node and four elections, elections elsewhere included;
  nodes share nothing but the term. A channel of capacity 2 fills up and blocks
  raft.
- `ConsistentReadFaults`: two nodes, one client, one write and two terms. A
  leadership that is lost and regained needs three: the configuration
  `ConsistentRead`, without faults, and the proof. `ReadsNeverGoBack` needs a
  second client.
- `Store`: four directories (old, new, one that came back after a power
  failure, one that could not be removed) and three values; two values with
  every fault.
- `Watch`: one watch, one reader and two indexes, so that an entry follows a
  restore and a restore an entry. (Three were checked once, in four minutes.)
- `StateMachine`: three entries and four handles, so that a reader can hold a
  handle through two restores; one reader, since readers share nothing with each
  other.
- `Replay`: two nodes, two keys, three entries: a mixture
  needs two keys, a snapshot in the middle of a replay needs an entry on either
  side of it. (Four were checked once, in four minutes.)
- `SnapshotStream`: keys of no word, one and two, so that a reader that has lost
  its place can take data for lengths; batches of two, so that the last one is
  full, partial or empty.
- `Gossip`: three nodes, two attempts. `Forwarding`: three nodes, of which some
  use gossip and one is missing from the static map, and two elections. One request of any kind is enough:
  requests meet only in raft.
- `Shutdown`: two handlers of any of the four kinds, each of which serves one request after
  the other; one address and three connections, so that it can be redialled
  while both handlers hold an old one. The configuration `ConnCache` has two
  addresses and four connections.

### Fairness

`Leadership`: goroutines that can run do, timers fire, a raft that is neither
blocked nor shut down answers a barrier or a transfer it has taken, a leader
outdated by a newer term notices (its lease expires), and a close that has begun
goes on. A leader's repeated barriers may each time out but
not all of them: strong fairness. Nothing is assumed of elections, crashes or
the cancelling goroutine, nor that a barrier times out: once it is in `applyCh`,
which is buffered, only raft can answer it, and a raft that is shut down need
not. `Watch`: the goroutines run; the timer of
`BlockingQuery` stays ready once it has fired, and Go's `select` picks among the
ready cases at random, so it is taken in the end: strong fairness. `Gossip`: the join goroutine runs,
and memberlist spreads what some member knows. `Forwarding`: handlers run, and
an answer reaches its caller; that a call fails is possible, not assumed.
`ConnCache` and `Shutdown`: callers run, connections leave
`connecting`, and strong fairness for two waits: a writer gets the lock, since
Go's `RWMutex` does not starve it, and a call on a connection that keeps coming
and going is sent or fails in the end. `Shutdown` adds that `Close` goes on, its
timer fires, and handlers run; nothing makes a watch end but its context, and
nothing a request that hangs in raft. The other modules assume no fairness.

## Proofs

All proofs hold for any sets and bounds.

- `ConsistentReadProofs!LeadershipSafety`: the three safety properties of
  `Leadership`. They are not inductive: the invariant describes the channel as an alternating sequence that
  starts from the monitor's state and ends in raft's role, and ties the loop's
  control state to the flag and to the term of its barrier.
- `ConsistentReadProofs!ReadSafety`: `VouchedReadsAreFresh`, on top of the
  former through `ComposesLeadership`. `ReadInv` says that the barrier of the
  current term covers all acknowledged writes and those older leaders have yet
  to acknowledge, so that a verified read at a node past its barrier is covered.
- `StoreProofs`: `StoreSafety`, `StoreLeaksNothing` and the refinement
  `StoreRefinesAtomic`, assuming `OrderlyFaults`: no failing directory sync, no
  ignored commit error, and no process crash that leaves a rename unsynced for
  a later power failure. `SyncDirFailure` shows why the first is needed.
  Failing opens and failing removals are not excluded. `StoreInv`
  relates each control state to what is on disk and on the platter.
- `WatchProofs!ReadIndexSafety`: `ReadIndexCoversWrites`, that is, what the FSM
  of the node had finished when the read was called. `IndexInv` says that
  the FSM is ahead of `AppliedIndex()` only while raft's main goroutine is
  handing entries over, and then it answers no `VerifyLeader`.

- `StoreProofs!StoreServes`: `ServesOpenDir` with no assumption on the faults.
  `ServeInv` keeps only what the handle needs: until the swap it is open on a
  directory other than the one being filled, from then on it is that one.
- `ForwardingProofs`: `HopsAlwaysClimb`, `AddSafety`. `WayInv` says
  that a handler invoked as a leader that finds it is none knows only newer
  leaders from then on. `AddInv` follows the one handler that may
  still act. Assumed: addresses are unique, and no ID is another node's address.
  `HopsAreBounded` adds what the climbing hops amount to: the hop of handler i is
  at least i (`HopsInv`), so a request has at most one handler for each election
  there has been, and one, although `forwardRequestToLeader` counts nothing.
- `ForwardingProofs` also holds what is proved of `Gossip`: `MapsHoldMembers`, a
  running node's map has the node itself and only nodes that take part. Through
  `ComposesGossip` it carries over to `Forwarding`, where it gives
  `ForwardedToListed`: a request is only forwarded to nodes that take part in
  the gossip or that the static lookup lists.
- `SnapshotStreamProofs`: `Restored` (`RoundTrip`), `Verified`
  (`VerifiedIsComplete`), `CutPrefix` (`CutIsPrefix`) and `CutStreamsDoNotPanic`
  (`OnlyDamagePanics`), for any keys, values,
  batch size and length of the stream. See below.
- `ReplayProofs`: `ReplayIsIdempotent` and `NothingLost`, whatever writes and
  restores fail. The invariant says that every store and
  snapshot holds only writes of its own keys (`Contained`) and, but for failed
  ones, lacks none up to its index (`Covered`): content ahead of the index does
  no harm.
- `StateMachineProofs`: `ReadsAreRecent`, `SnapshotsAreFrozen`, `HandlesAreSafe`.
  `HandleInv` says which handles are open at each step of a restore and at each
  of its failures,
  `ReaderInv` that a reader's handle holds what was applied at its call.
- `ShutdownProofs`: `CacheSafety`, `CloseKeepsCacheExact`,
  `CloseServesLocalRequests`. `Exclusive` says that whoever replaces a connection
  holds the mutex and that nobody fills the place it has emptied. `EngineInv`
  says what is up at each step of `Close`, and that requests are in progress
  only while it waits, unless the time is up.
- The type invariant of every module with proofs.

The argument for the stream. What the decoder computes would be a recursive
function of the file, and the prover has no induction over data. The invariant
follows the steps of the two loops instead. `WriterInv` says that there is a
function S that marks where each record ends, and that the four tokens of every
record lie between two marks, with those of the record that is being written
after the last one; each `Write` extends S by at most one mark. `ReaderInv` ties
the reader to it: if what it has hashed agrees with what the writer hashed
(`Agrees`), it stands at the same place of some record n, and the new database
with the batch over it holds exactly the first n (`At`, `Holds`). A cut keeps
`Agrees`. Damage may break it, and the reader may then take data for lengths;
but a checksum that is verified means that all that was hashed is equal, so that
n is the last record. `IntactInv` says that nothing is rejected, and nothing
accepted without its checksum, in a stream that is whole: each read finds as many
words as the writer wrote. Assumed (`StreamAssumption`): no key is longer than
the limit on keys, and the writer's tokens are words; gzip and CRC32 are ideal.

Only model-checked: the liveness properties (liveness under fairness is beyond
the prover) and the violations. Every invariant of a passing run, and the
refinement `StoreIsAtomic`, is proved.

## Not modelled

- `WatchKey` and `WatchKeyBlocking`, which call `BlockingQuery` with another
  first index, and the demo client.
- Stats, `dbAppliedIndex`, Nodes and the observer, which only read, report or
  log; `SetGRPCAddr` and `RemoveAddr`, which nobody calls; generated code.
- raft, Pebble, gRPC and memberlist themselves, which appear only as the code
  uses them. gzip and CRC32 are ideal: they detect every change.
- A shutdown of raft that `Close` does not ask for (`ShutdownOnRemove`):
  `LocalRequestsServed` is about `Close`.
- A `syncDir` error inside `saveCurrentDBDirName` panics, which is a crash of
  the process. A failing `f.Close` there, and wording, logging and metrics
  everywhere, are left out.
