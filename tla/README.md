# Lanos in TLA+

Lanos (`core/` in Go, a Flutter user interface in `ui/`, a gomobile bridge in
`mobile/`) transfers files between devices of a local network. A daemon, `gcd`,
discovers peers by mDNS, dials them over a Noise XX channel, sends and receives
files, shares files to browsers, and serves a local HTTP API with server-sent
events to the user interface.

This directory models the concurrent core of the daemon: who holds a slot, who
may write to the disk, what a cancellation reaches, what survives a crash, what
a stream delivers, who is served a share, which devices the user sees, and one
pure algorithm, the choice of the address to dial.

## Inventory

| component | state | operations | talks to |
|---|---|---|---|
| transfer queue `transfer/queue.go` | per device: pending list and active counters by direction; WaitGroup; condition variable; closed flag | `Enqueue`, dispatch loop, `runTask`, `releaseSlot`, `Close`, `Wait` | runs tasks as goroutines, cancels them by context |
| transfer manager `transfer/manager.go`, `state.go` | transfers by id with a status, limit | `Create`, `UpdateStatus` (state machine), `Cancel`, `Remove` | called by the API, the bridge and the send use case |
| cancel registry `transfer/cancel.go` | cancel function by transfer id | `Register`, `Cancel`, `Complete` | called by manager (cancel) and use case (register, complete) |
| send use case `usecase/send.go` | one goroutine per call | `Execute`: stat, create, register, dial, handshake, header, stream, complete | manager, registry, dialer |
| receive manager `receive/manager.go` | incomings by id with a status and a deadline; one notify channel | `Register`, `Prompt`, `Accept`, `Reject`, `Cancel`, `UpdateStatus`, `ExpireExpired` | called by inbound handlers, the API and the expiry ticker |
| inbound server `receive/server.go` | one goroutine per connection, WaitGroup | `handleConn`, `waitForAccept`, `SaveFile`, `Close` | receive manager, listener, disk |
| chunk reader and writer `transfer/chunk.go` | received vector in memory; chunk files and `.meta` file on disk | `NewChunkWriter`, `WriteChunk`, `Assemble`, `Cleanup` | disk |
| stream mux `transport/stream.go`, `frame.go` | streams by id, accept channel, per-stream buffers | `Serve`/`dispatch`, `Open`, `Accept`, `SendFrame`, `RecvFrame`, `Close` | one encrypted connection |
| Noise, SAS, dialer, listener `transport/noise.go`, `net/*` | cipher states, frame buffers | handshake, `Read`, `Write`, `Accept` | network |
| web share `share/*` | shares with download budget, expiry, password bans | `CreateShare`, `GetShare`, `StopShare`, download handler, cleanup loop | HTTP clients |
| discovery and prober `discovery/*` | devices, failure counts, event channel | browse entries, goodbye, reap, probe, `emit`, `Stop` | mDNS, HTTP probes, event streams |
| config, instance lock, lifecycle `config/`, `instance/`, `lifecycle/`, `cmd/gcd` | YAML file, lock file, port file | `Apply`/`Save`, `Acquire`/`Release`, `BindLocal` | file system |
| identity and trust store `identity/*` | key pair, trusted devices file | `Trust`, `Remove`, `VerifyPeer`, `save` | file system, keystores |
| event streams `api/sse.go` | subscribers with a bounded channel each, pending events of a flush window | `run`, `subscribe`, `handleEvents` | event channel of discovery, HTTP clients |
| address selection `net/addrselect.go`, `discovery/ips.go` | none | `SelectAddresses`, `SelectFirst`, `pickSource`, `compareDst` | called by the API to address a transfer |
| receive paths and use case `transfer/path.go`, `usecase/receive.go` | none | sanitised name, free name; a sequential receive | disk |
| SQLite store `store/*`, URI, zip, TXT records, avahi | rows, pure data | - | - |
| user interface `ui/`, mobile bridge `mobile/`, web page, scripts | device list | events, polls | HTTP API |

Hard to test, and why a model helps (the full list with lines is
`PROJECT.json` "hazards"):

- *Queue*: `Close` runs next to `Enqueue`, the dispatcher and finishing tasks;
  three pieces of bookkeeping (active counters, device entries, WaitGroup) must
  agree at each unlock; a signal may come when nobody waits.
- *Receive*: a user, an expiry loop, a peer and a shutdown act on one incoming;
  all handlers share one notify channel; the limit, the prompt and the status
  live in different critical sections.
- *Send*: the API creates a record, another goroutine takes it over, a third
  cancels it in two steps; a retry shares the record with the call that failed.
- *Chunks*: a crash between any two file operations; a reader without the mutex;
  metadata that outlives the data.
- *Mux*: one read loop feeds bounded channels and races shutdown.
- *Share*: budget checked and counted in different critical sections, a ban
  checked in one and the password judged in another, next to stop, expiry,
  cleanup and shutdown.
- *Discovery*: three loops and a goroutine per probe change one map; events leave
  after the lock is released, through a channel that drops.
- *Event streams*: what is left of the events passes bounded subscribers and
  windows that coalesce, over connections that break.
- *Address selection*: a sort over four criteria, each of which may not apply.

## Modules

| module | models | abstraction |
|---|---|---|
| `TaskSlots` | what the queue promises: a task waits, runs under the cap of its peer and direction, and ends; none starts after closing | no lists, counters or conditions |
| `Queue` | `transfer/queue.go` | one action per critical section of `q.mu` or per operation outside it |
| `Receive` | `receive/manager.go`, `receive/server.go`, and the peer that `usecase/send.go` is | a file is `none`, `partial` or `whole`; time is the set `due` of incomings past their deadline |
| `Send` | `transfer/manager.go`, `state.go`, `cancel.go`, `usecase/send.go`, the API handlers that create and cancel, `mobile/bind` | a body is a number of chunks; the peer takes or refuses what it is sent, or breaks |
| `ChunkWriter` | `transfer/chunk.go` | a file is a sequence of bytes, a hash the bytes it is taken of; one action per file operation |
| `StreamPair` | what a multiplexed connection promises: each direction of each stream is read in the order in which it was written | a flow is two counters |
| `Mux` | `transport/stream.go`, `frame.go`, both ends of a connection | a frame is its stream, its type and its number; one action per critical section or channel operation |
| `Share` | `share/manager.go`, `share/server.go`, `share/types.go`, the handlers of the API that create, show and stop shares | time is the set `expired` and the state of a ban; one action per critical section |
| `Registry` | what discovery promises the readers of its events: every change is told, by the goroutine that made it, in its order; a full channel loses | a device is present or not |
| `Discovery` | `discovery/discovery.go`, `discovery/prober.go` | a device is its status and whether it was last seen before the cutoff; one action per critical section or emit |
| `Presence` | `api/sse.go`, `handleDevices`, `ui/lib/services/device_service.dart`, on top of `Registry` | an event is a type and a device |
| `AddrSelect` | `net/addrselect.go`, `peerAddressWith` of `api/handlers.go` | an address is a sequence of bytes or words; one step per question |

`MCQueue`, `MCReceive`, `MCSend`, `MCChunkWriter`, `MCMux`, `MCShare`,
`MCDiscovery`, `MCPresence` and `MCAddrSelect` give the constants values;
`QueueProofs`, `ReceiveProofs`, `SendProofs`, `ChunkWriterProofs`, `MuxProofs`,
`ShareProofs`, `DiscoveryProofs` and `AddrSelectProofs` hold the theorems.

How they compose: `Queue` implements `TaskSlots`, `Mux` implements `StreamPair`
and `Discovery` implements `Registry`, each by `INSTANCE ... WITH` and a
property of a run. `Presence` extends `Registry`, so what it shows of the
client holds over the registry that `Discovery` was shown to be, without the
states of the prober.

State and actions carry the names of the code (`Enqueue`, `releaseSlot` as
`ReleaseSlot`, `UpdateStatus`, `waitForAccept` as `Check`/`Wake`/`Quit`, ...);
`PROJECT.json` "map" gives the lines each definition stands for. A definition
whose comment begins with "Mistake:" or "A plausible bug:" is a wrong version of
its neighbour. It takes no part in the specification; substituted for its
neighbour it makes a property fail, which shows that the property has teeth.

### Queue

`known`, `pending` and `active` are the `devices` map; `wg` is the WaitGroup
counter, `phase` the life of a task goroutine. `Enqueue` adds to the list and
the WaitGroup under the lock and signals after it (`Signal`, a step of its own).
`Dispatch` pops the first task whose direction is below its cap. `Close` drops
all pending tasks under the lock and then broadcasts, cancels and subtracts in
three more steps. `ImplementsSlots` refines `TaskSlots` with the mapping
`StageOf`.

### Receive

Each connection runs `handleConn`: read the header, `Register`, `Prompt`, then
the select of `waitForAccept`, then `SaveFile`. `notify` is the number of
wakeups in the shared channel; a wakeup carries an id that no receiver reads, so
a number is all there is. `DeadlinePasses` makes an incoming overdue whenever it
likes, `ExpireExpired` is the ticker. `server` goes from open over quitting
(`Close` closed the quit channel) to closed (`wg.Wait` returned).

### Send

A call is one invocation of `Execute`; `of` is the transfer it works on. Calls
started by the API find a record that `handleCreateTransfer` made; calls of the
bridge create one or, for those in `Resends`, name any transfer the manager has
a record of: `Bridge.SendFile` passes an id on as it is, so a second call may
come before, during or after the first. The state machine lets a failed transfer
go back to connecting. `Cancel` sets the status under the
manager's lock, then `TakeEntry` takes the registered cancel function and
`FireCancel` calls it: the model keeps the three steps apart.

### ChunkWriter

Chunks are indexed from 0 as in the code. `StartChunk` leaves any proper prefix
of the data on disk, `ChunkWritten` completes it, `MetaSaved` renames the
metadata. `NewChunkWriter` loads the `.meta` file, or fails to read it
(`LoadMetaFails`), which the code passes over in silence: the writer starts
empty, and the file and the chunks stay. `Crash` forgets the memory between any
two steps. Power loss, which may reorder writes that were not synced, is not
modelled.

Three history variables say what the `.meta` file on disk went through, and each
property excuses what that damage can do and no more. `partial`: a `Cleanup` that
crashed or failed halfway, or a write by a writer already cleaned up, left it
listing chunks that may be gone; those still there are whole. `blind`: a writer
could not read it and wrote next to it, so that a crash may leave a listed chunk
torn; none is missing. `mixed`: it was written for another version of the file,
after which anything may be wrong (`MCChunkStale.cfg`). `AssembledIsFile` needs
only `~mixed`: sizes tell a torn chunk, the file system a missing one. A record
is clean again once a writer starts without a `.meta` file. `acked`, also
history, is what `WriteChunk` reported stored; a `Cleanup` or an unread `.meta`
file empties it, since then the code has forgotten by design or by accident.

### Mux

A stream object is named by its end and its id; ids are even at the initiator
and odd at the responder. `registered` is the table `streams`, `stage` the life
of a stream object, `rcvCh` and `acceptCh` are the bounded channels, `wire` is
the connection, bounded too. `loop` says where `Serve` is: it reads a frame
(`Decode`), looks the stream up or creates it under the lock (`Dispatch`), then
blocks on `acceptCh` (`Offer`) or on the stream's buffer (`Deliver`), which it
leaves when that stream or the mux is closed. `shutdown` is `Mark`, `Signal`,
`Disconnect` and one `CloseNext` per stream of the `snapshot` it took. The users
follow the protocol of `frame.go`: the end that opened sends META, DATA and a
last frame, the other answers; `budget` bounds what they send. `RecvFrame` may,
as the code's select, report a closed stream though frames are buffered; the
refinement therefore promises order without gaps, and `NoFrameLost` and
`SentIsRead` speak of streams nobody has closed.

### Share

A request goes through the places of its handler: `Lookup` reads the map,
`CheckActive` evaluates `Active` on the pointer it got, `CheckBanned` and the
two verdicts on the password are separate critical sections, `RecordDownload`
counts, `Serve` sends. Creation, `StopShare`, expiry, the two halves of the
cleanup (`Cleanup`, `CleanBans`), `StopManager` and `StopAll`, which the
daemon's deferred calls run in this order, interleave with them; on connections
that were kept alive requests arrive after the shutdown too. `late` and
`extra` are history: which requests arrived after the end of their share, and
how many passwords of an address were judged while it was banned.

### Registry and Discovery

`consumer`, `reaper` and `prober` are the three loops, with the events each
still has to emit after it released the lock; `probe` is one goroutine per
device and round, which asks, counts the failure, decides, sets the status and
emits in separate steps. `Age` makes a device older than the reaper's cutoff,
`Arrive`, `Depart` and `Announce` are the network. `emit` drops the event if the
channel is full. `Stop` cancels, waits for the loops and closes the channel; the
resolver may deliver announcements until it notices (`ResolverEnds`). A
goroutine's own select sees a cancellation or its other channel, whichever it
likes.

### Presence

`FanOut` takes an event of the registry and offers it to the subscriber, whose
channel drops what does not fit; `TakeEvent` coalesces it into the window under
its type and device, `Flush` sends the window and the client applies it. The
client also polls: `Poll` copies the list, `EndPoll` applies the answer by the
client's own rule (`Replaces`: the first answer always, later ones if they list
another number of peers), `PollFails` leaves the list. A connection may break at any
point (`Unsubscribe`), with what is buffered.

### AddrSelect

Pure operators: the scope, the precedence and the common prefix of addresses,
`pickSource` as a scan with `compareSource`, `SelectAddresses` by the stable
order of `compareDst`, and `peerAddressWith` as the one action, which answers a
question. The scan is a recursive function; the sort is given by the place every
entry gets (`Place`), and the loop that drops what no interface reaches by the
`Nth` of the rest, so neither depends on an algorithm. The reference definition,
`Rank`, `Outranks` and `Ideal`, states the documented criteria lexicographically
and without scan or sort.

## Runs

| run | bounds | shows |
|---|---|---|
| `queue` | three tasks of one peer, caps of one: two uploads compete, a download has its own slot | caps, order of tasks, WaitGroup accounting, device entries, refinement of `TaskSlots`; no lost wakeup (`NoIdleSlot`); `Wait` after `Close` returns |
| `receive` | two connections, a limit of one, a notify channel of two | consent, expiry against acceptance, slots have handlers; unanswered prompts leave their slot; `Close` returns |
| `receive_accept` | two connections | *violated*: the wakeup of an accepted incoming may go to another handler, which drops it |
| `receive_eof` | one connection | *violated*: a file received whole ends as failed, as the end of the stream is a wrapped `io.EOF` |
| `send` | two transfers, a limit of one, three calls of which one names any existing transfer, one chunk | after `Cancel` no call goes on under a live context, unless a second call was given its transfer; the limit is exceeded only by retried transfers with a call at work; slots are given back, completed means sent, terminal states are final |
| `send_retry` | one transfer, a call and a second one given the same transfer, two chunks | calls return |
| `chunk` | files of three chunks, of one short chunk and empty; two crashes, two failed operations | received chunks are whole on disk, up to what an interrupted `Cleanup` or an unread `.meta` file does to them; `Assemble` yields the sender's file |
| `mux` | three streams, channels and wire of one frame, three patterns of use, a user who closes the mux, one who leaves a stream | no frame lost between open ends, refinement of `StreamPair`, what is sent is read, a shutdown reaches the other end |
| `share` | two requests, three arrivals, one address; a protected share with a budget of one and an open one, room for one share | nobody is served after the end of a share; the budget and a ban are passed by at most the requests in between; ended shares leave the map |
| `discovery` | one peer, event and entry channels of two, three failures | no device is gray without a failure on record, which the next answer clears; a peer that left leaves the list, `Stop` returns, refinement of `Registry` |
| `presence` | one peer, both channels of two | once the registry settles, the client lists as many peers as there are, for good |
| `addr` | up to three candidates of seven, up to two interfaces of five | the comparisons are strict weak orders; the address dialled is the best of the reachable ones, the first of equals |

Why the bounds are enough. The queue treats peers and directions alike and
tasks of different peers share only the closed flag and the WaitGroup, so a
contended slot and an uncontended one cover the cases of the dispatcher. Two
incomings suffice for a wakeup to go astray and for a slot to be contended.
Three calls, one of which may take any transfer, are two calls on one transfer
next to an independent one that holds the slot, which is how a retry passes the
limit. The transfers, and the two calls that name none, are interchangeable in
`Send`, so the run of its safety properties uses them as symmetry sets; the run
of `CallsReturn`, which is liveness, uses no symmetry and two calls. Chunk files need a first, a middle and
a short last chunk. `NotifyCap` is 64 in the code (`manager.go`, `NewManager`)
and 2 here: with two incomings a full channel is reached, where a wakeup is
dropped. The channels of the mux hold 16 and 128 in the code and 1 here, so that
every one of them is full in some state, with one stream blocked behind another.
Two requests are one that checks and one that changes what was checked; the
bounds of `OverrunBounded` and `BanHolds` are reached, and the theorems hold for
any number. Peers of discovery meet only in the rounds of the prober and the
reaper. Its event channel holds 64 and here 2, so that events are dropped. Three
candidates are what transitivity needs; the addresses cover each scope, each
family and each form in which a peer may advertise one. Where a run has one peer
or a few requests, the theorems on the same module hold for any number.

The bounds that the modules themselves name are `MaxCrashes` and `MaxFaults`
(`ChunkWriter`), `MaxArrivals` (`Share`), `Opens` and `Budgets` (`Mux`),
`MaxDsts` and `MaxSources` (`AddrSelect`), and the finite sets of tasks, calls
and connections, each of which runs once.

In all runs the system may stop (every task done, every connection handled,
the budgets spent), so deadlock is not checked; that nothing is stuck is what
the liveness properties say.

Eight more configurations exhibit disagreements between the code and what the
repository says of it. They are run by hand, `tlc -workers 2 -config X.cfg M`,
and end in a counterexample:

| configuration, module | property | what the trace shows |
|---|---|---|
| `MCSendStat.cfg`, `MCSend` | `PendingIsServed` | a failed `Stat` (`send.go:53`) leaves the record of the API pending in its slot, though `handlers.go:369-370` hands it to `Execute` |
| `MCSendUnblock.cfg`, `MCSend` | `CancelUnblocks` | a peer that does not read keeps the goroutine of a cancelled transfer in a write (`send.go:161`, against `cancel.go:6-7`) |
| `MCSendLimit.cfg`, `MCSend` | `LimitRespected` | a retry takes a failed transfer back to connecting (`transfer/manager.go:131`) next to one created meanwhile, against "concurrent transfer limit reached" (`manager.go:15`) and `DefaultMaxConcurrent` (`:64`) |
| `MCSendLost.cfg`, `MCSend` | `CancelReachesAll` | with a retry, the deferred `Complete` of the first call deletes the retry's registration (`send.go:77`, against `cancel.go:5-6`) |
| `MCChunkStale.cfg`, `MCChunkWriter` | `AssembledMatchesManifest` | chunks of an older version of the file are adopted and assembled (`chunk.go:216`), against "Adopt received state only if it matches the current manifest." (`chunk.go:215`) |
| `MCMuxLate.cfg`, `MCMux` | `ServeClosesAllStreams` | `dispatch` registers a stream (`stream.go:88`) after `shutdown` has emptied the table; nobody ever closes it, against `stream.go:67` |
| `MCPresenceView.cfg`, `MCPresence` | `ViewSettles` | the client lists a peer that left instead of one that came, for good, as it compares only the numbers (`device_service.dart:123`, against `:38-39`) |
| `MCAddrPrefix.cfg`, `MCAddrSelect` | `LongestPrefixPicked` | `pickSource` takes the source with the shortest common prefix (`addrselect.go:237-239`), against "Rule 9: prefer longest matching prefix with dst" (`:250`) |

### Fairness

- `Queue`: a goroutine that can take its next step does (weak fairness of the
  dispatcher, of the steps of `Close`, of `Wait` and of each task's goroutine,
  its body only once its context is cancelled). A `sync.Cond` waiter that was
  signalled runs again. Nobody has to enqueue or to close.
- `Receive`: handlers, the expiry ticker (started by the daemon) and the closing
  server run on, time passes. Users and peers need not act. `CloseTerminates`
  assumes besides that a peer in the middle of a file finishes or breaks: the
  code has no read deadline.
- `Send`: calls and cancellations under way run on. `CallsReturn` assumes
  besides that a peer reads or goes away; without that assumption it fails, which
  `MCSendUnblock.cfg` shows.
- `Mux`: the read loop and a shutdown under way run on; a user accepts, closes
  the stream whose last frame it wrote, and reads until the stream closes, which
  is how `Serve`'s own users behave. Nobody has to open, send or close.
- `Share`: the cleanup ticker fires and `run` goes on from `Stop` to `StopAll`.
  No request has to go on, so the properties do not lean on clients.
- `Discovery`: loops, probes, emits and the cancelled resolver run on, and a silent peer grows old.
  Strong fairness holds for the ends of the reaper and of the prober: their
  select picks among ready channels at random, so a cancelled context is not
  passed over for ever.
- `Presence`: the registry tells, the broker and the stream run, the client
  polls. Strong fairness of `EndPoll` says that not every poll fails.

## Theorems

All are proved with TLAPS for every value of the constants that the named
assumptions of the modules allow.

- `QueueProofs`: `QueueTypeOK`, `QueueCaps`, `QueueDevicesTracked`,
  `QueueWaitSafe` (`WaitMeansDrained` and `WaitGroupNeverNegative`) and
  `QueueImplementsSlots`. The properties are not inductive: that a slot is free
  when the dispatcher takes one depends on the active counters being exact. The
  invariant states that a counter equals the number of tasks of the peer and
  direction that hold a slot, that the WaitGroup counts the tasks that are not
  done plus those `Close` still has to subtract, and that pending lists and
  phases agree. The refinement then follows step by step. `QueueFIFO` (`FIFO`)
  needs besides that a pending list holds a task once. `QueueWakeupOwed` is the
  safety half of `NoIdleSlot`: a dispatcher that sleeps next to a task it could
  start is owed a `Signal` by a task that has not got to it yet, and one that
  sleeps in a closed queue the `Broadcast` of `Close`. What is left of `NoIdleSlot`
  is that those who owe a wakeup go on, which is fairness.
- `ReceiveProofs`: `ReceiveTypeOK`, `ReceiveConsent`, `ReceiveExpiry`,
  `ReceiveSlots`. The invariant ties the statuses an incoming may have to the
  place its handler has reached (`StatusAt`) and says which handler owns a record.
  `ReceiveEnds` (`EndedStaysEnded`) is about steps: `Reject` and `Cancel` write
  over any end without a look at the transitions, and still nothing that ended is
  asked about, counted or served again.
- `SendProofs`: `SendTypeOK`, `SendFinal`, `SendSlots`, `SendCompleted`,
  `SendLimit` (`LimitOverrun`) and `SendCancel` (`CancelReachesCalls`), for any
  calls, transfers and retries. A retry shares the registry's entry of the first
  call (`MCSendLost.cfg`), so `SendCancel` speaks of transfers no second call was
  given; of those the invariant says that they have one call (`SoleInv`) and
  where its cancel func is: in the entry, about to be invoked, or invoked
  (`CancelInv`). A retry also re-enters `connecting` without the limit. For
  `SendLimit` the invariant keeps apart the counted transfers that `Create`
  granted, of which there are never more than the limit (`GrantInv`), and those
  that came back, each of which has a call at work by the argument of
  `SendSlots` (`OverrunIsRetaken`).
- `ChunkWriterProofs`: `ChunkTypes` (`TypeOK`), `ChunkCached`, `ChunkResumable`,
  `ChunkAssembled`, for any files, crashes and failed operations, that of reading
  the `.meta` file included. The invariant says that the `.meta` file lists only
  chunks the writer in memory knows of, unless it could not read them (`ListInv`);
  that a listed chunk is on disk unless a `Cleanup` was interrupted
  (`PresentInv`); that the file of a listed or counted chunk holds the whole of
  it, or a part next to an unread `.meta` file (`ContentInv`); that the chunk
  being written is not one that is counted (`WriteInv`); and, for `Assemble`, that the destination consists
  of parts of the chunks in their order (`Part`, `CopyOne`), so that its size can
  be right only if every part is whole.
- `MuxProofs`: `MuxTypeOK`, `MuxLosesNoFrame`, `MuxImplementsPair`, for any
  streams, patterns of use and capacities. A frame passes the wire, the hand of
  the read loop and a buffer, so the invariant speaks of all three at once: along
  `got`, buffer, hand and wire the frames of a stream carry consecutive numbers
  (`Continues`, `NextInHand`, `Received`, `Chain`), up to the point where the
  reader's object was closed. `TableInv`, `FreshInv`, `KnownInv` and `MetaInv`
  say what an end knows of a stream: META is the first frame of its opener, so
  `dispatch` makes an object before any other frame of the stream arrives, and
  never a second one under the same id. `LinkInv` says that a closed connection
  carries nothing more. `MuxOwnsOpen` (`OpenIsOwned`) says that whatever is open
  has somebody to close it, and that only streams of the peer escape a shutdown,
  and `MuxClosesOwnStreams` that of the comment at `stream.go:67` ("On return all
  streams are closed") the part about an end's own streams is true;
  `MCMuxLate.cfg` shows the other part to be false.
- `ShareProofs`: `ShareTypeOK`, `NoServiceAfterEnd` (`EndedNotServed`),
  `BudgetOverrun` (`OverrunBounded`) and `BanBounds` (`BanHolds`), for any
  number of shares, addresses and concurrent requests. That a share which ended
  stays ended (`LateIsOver`) makes the first inductive. The bounds count requests
  by place: one between check and use was admitted while the budget had room, or
  while there was no ban (`BanAccounting`), and the one that used the last of the
  budget, or set the ban, is not among them.
- `DiscoveryProofs`: `DiscoveryTypeOK`, `GrayNeverStuck` (`NoStuckGray`),
  `NeverSendsOnClosed`, `DiscoveryKeepsPromise` (the safety part of
  `ImplementsRegistry`), for any peers and capacities. Status and failure count
  live under two locks; `GrayHasFailed` says that what a probe is about to set to
  gray has a failure on record, which with `NoStuckGray` is inductive, and
  `Phased` that probes run only in a round and nothing runs once the channel is
  closed.
- `AddrSelectProofs`: `DestinationOrderIsWeak` and `SourceOrderIsWeak`, for all
  addresses: asymmetric, transitive, and with transitive ties; `OrdersWeak`
  (`OrdersAreWeak`) carries them to what peers advertise. The difficulty is in
  the criteria that apply to one family or to some pairs only; the proofs give
  each comparison as an order of keys (`CompareSourceKeys`, `CompareKeys`).
  `ScanFindsBest` says what the scan of `pickSource` returns for every list of
  interfaces, `SelectsInOrder` what `SelectAddresses` returns for every list of
  candidates, and `BestDialled` (`BestIsDialled`) that the API dials the one the
  documented criteria ask for. The scan is a recursive function, so the first is
  an induction: not by the library's theorem, whose parameter is an operator, but
  over the set of lengths for which the claim holds, which contains every number
  since the least one missing would have a predecessor (`LeastNatural`,
  `SetInduction`). That the n-th place is taken by exactly one entry comes from
  the order being weak: places are the ranks of a strict total order, a bijection
  onto an interval (`PlaceIsRank`, `NthInOrder`).

Assumed of the constants, next to the modules' finite sets and positive
capacities: `AddrAssumption`, that addresses have four or eight groups, zones
and ports are numbers and candidates have one of the forms of `splitHostPort`.
Groups may be any numbers: the results do not need them to be below 256 or 65536.

Proved and in no run: `QueueCaps` (`CapsRespected`), `QueueWakeupOwed`
(`WakeupOwed`), `ReceiveExpiry` (`ExpiredNotAccepted`), `ReceiveEnds`
(`EndedStaysEnded`), `ChunkResumable` (`AckedIsResumable`), `MuxOwnsOpen`
(`OpenIsOwned`) with `MuxClosesOwnStreams`, `NeverSendsOnClosed`
(`NoSendOnClosed`), `DiscoveryKeepsPromise`, and the two about every list of
addresses, `ScanFindsBest` and `SelectsInOrder`. TLC checked the invariants and
`EndedStaysEnded` on the configurations of the modules before.

Only model-checked: liveness (`NoIdleSlot`, `WaitReturns`,
`OverduePromptExpires`, `CloseTerminates`, `CallsReturn`, `SentIsRead`,
`BothEndsClose`, `EndedLeaves`, `GoneLeaves`, `StopReturns`, the fairness in
`ImplementsRegistry`, `CountSettles`), which is beyond the prover, and all of
`Presence`, whose one property is `CountSettles`. Every safety property of a
passing run is a theorem.

## Observed divergences

Two runs are violations, which `PROJECT.json` "findings" quotes, and eight more
configurations are listed above. Modelling met others:

- `queue.go:274`: after `Close` dropped the pending tasks of a device, its entry
  stays, and `DeviceCount` counts a device without a task.
- `receive/manager.go:281`: `ExpireExpired` sends no wakeup, so the handler of an
  expired prompt stays in its select, with the peer connected, until the next
  wakeup of any incoming.
- `receive/manager.go:97`: `Register` does not count pending incomings, the
  status it creates, so two that register together exceed the limit.
- `receive/manager.go:252`: `Cancel` of an incoming writes a status; `SaveFile`
  goes on to the end of the stream.
- `transfer/manager.go:131`: a retry takes a failed transfer, which holds no
  slot, back to connecting without a look at the limit (`MCSendLimit.cfg`).
- `usecase/send.go:122`: the sender reports a transfer completed when the last
  write returns; nothing tells it what the receiver kept.
- `chunk.go:338`: a crash between the removal of the chunks and that of the
  metadata leaves a task whose chunks all count as received and cannot be
  assembled.
- `chunk.go:207`: a `.meta` file that cannot be read is taken for none. The next
  `saveMeta` then drops the chunks that were acknowledged before, and a crash in
  the middle of rewriting one of them leaves it listed by the old file and cut
  short, which only the size check of `Assemble` notices.
- `stream.go:229`: `RecvFrame` selects between the buffer and the closed stream,
  and may leave frames unread that arrived before the close.
- `share/server.go:138`: "prevents race on count limit" does not hold: requests
  that `GetShare` let through are all counted and served. `BudgetKept` in `Share`
  states the comment, `OverrunBounded` what is true.
- `share/server.go:83`: `GetShare` never looks at the bans, so the branches for
  `ErrIPBanned` on its error are dead; a ban that wrong tokens earned is felt
  only at the next password.
- `share/manager.go:89`: a share that expired or is used up holds its place in
  the map, and counts against `maxShares`, until the next cleanup.
- `api/handlers.go:183`: the history row of a share is written as "active" and no
  end of the share changes it.
- `discovery/prober.go:116`: the prober asks for `/ping` at the peer's advertised
  API port, where the daemon listens on 127.0.0.1 only: between two hosts every
  device grays. `Answering` is a constant, and the properties hold for any.
- `discovery/discovery.go:222`: the online event carries the pointer to the
  device in the map, which later announcements change while it is on its way.
- `discovery/prober.go:145`: failures counted for a device stay when it leaves
  the map and are its start when it returns.
- `addrselect.go:227`: Rule 2 leaves nothing for this Rule 6 to decide.
- `addrselect.go:330`: an address in brackets without a port loses its zone.
- `config/config.go:187`: `Apply` holds `c.mu` and calls `Save`, which takes the
  read lock of the same mutex: the first valid update of the settings
  (`handlers.go:557`) blocks for good.
- `instance/instance.go:65`: `Release` removes the lock file after it has
  unlocked it; a process that opened the file before may lock it while another
  one creates and locks a new file of that name.
- `net/listen.go:60`: `Accept` runs the handshake inline and without a deadline,
  so one silent peer keeps all others waiting.
- `transfer/path.go`: the free name is found by a check and created in a later
  step, so two receptions of one name may choose the same.

## Not modelled

- Noise and SAS, keystores: cryptography and calls of libraries and systems.
  `Send` and `Receive` keep that a handshake blocks and fails.
- Zip streaming, TXT and URI formatting, avahi, the SQLite store, web pages,
  packaging: data, SQL or calls of a system, without state that interleaves.
- The receive use case: sequential, on a record nobody else acts on; its writes
  are those of `SaveFile`, which `Receive` models. Receive paths: characters of a
  name, and one check-then-create noted above.
- The configuration: its one concurrent operation blocks on itself (above), so
  it has no behaviour to check. The instance lock: two system calls around one
  file, described above. The trust store: each method holds one mutex from load
  to rename, and nothing else in the program calls it.
- In the modelled components: `Remove`, `UpdateProgress`, `CancelAll`, cleanup
  callbacks and `awaiting_resume`, which nothing in the program uses; the bytes
  of headers and frames; file names; tokens and templates of shares; the fields
  of a device other than its status.
- In those modelled partly: of the dialer and listener, what is not seen by
  `Send` and `Receive`; of the HTTP API, authentication, JSON, history and
  settings; of the bridge and the user interface, all but a send with its timeout
  and the list of devices; of the lifecycle, all but the order of its shutdown.

## Plan

What is left, by what could go wrong most:

1. `Session`: `Send` and `Receive` joined by a connection, against an abstract
   file transfer: what completed at the sender means at the receiver; the inline
   handshake of the listener.
2. `InstanceLock`: acquire and release by three processes over one name, with
   crashes.
3. The file protocols of the trust store and the configuration under crashes,
   and the start-up of the lifecycle.

Runs stay at one per question: as modules are added, violations that a passing
property makes redundant are kept as configurations to run by hand.
