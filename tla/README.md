# A TLA+ model of the Solana gateway

The gateway sits between a Solana validator and a bloXroute OFR relay. It
registers with the relay over gRPC, forwards the shreds the relay sends over
UDP to the validator, and forwards the shreds of the validator, captured from
the network or read from Firedancer's shared memory, to the relay. A cache
shared by both directions makes sure that a shred travels once.

This directory holds TLA+ modules for the parts of the gateway that carry state
shared between goroutines, the TLC instances that check them, and TLAPS proofs
of their safety for all values of the constants.
`PROJECT.json` maps every definition to the lines it models and lists runs,
findings, hazards and theorems.

## The system and what models it

| Part | Code | State | Operations | Module |
|---|---|---|---|---|
| De-duplication cache | `pkg/cache/alterkey.go` | two key sets, a mutex | `Set`, `cleanup` | `AlterKey`, abstractly `DedupWindow` |
| Registration and no-traffic watch | `gateway.go`, `registrar.go`, end of `main.go` | relay address, ticker, counter | `Register`, `Start`, `reRegister`, head of `processShred`, interrupt | `Registration` |
| Shred parsing and keys | `pkg/solana/shred.go` | none | `ParseShredPartial`, `ParseShred`, `ShredKey` | `Shred` |
| Relay address, alive messages | `gateway.go` | the words of `ofrUDPAddr`, its lock | store, read with and without the lock, `sendAliveMessages` | `RelayLink` |
| Forwarding | `gateway.go`, tails of the local sources | cache, two channels, address | admit, queue, broadcast | `Forwarding` (over `DedupWindow`) |
| Network listener | `netlisten.go`, `packet/sniffer.go` | sniffers, `listenPorts`, `portHandleMap`, common channel, wait group | capture, `Recv`, close and reopen ports, discovery, clean-up, shutdown | `NetListen` |
| Firedancer monitor | `fd_shred_monitor.c`, `firedancer-sniffer.go` | cursor into the shared ring and batch | init, `get_next`, stop, cleanup, polling loop | `FdMonitor` |
| Statistics | `pkg/ofr/stats.go`, `printUnseenStats` | per-source counters, first shreds of slots, channels | record, count, report first, flush, clean, print | `Stats` |
| UDP sockets | `pkg/udp/udp.go` | bound ports, current port of the range | `Server`, `NewFDSet`, `NextFD` | `FDSet` |
| Start-up | `main.go`, `gateway.New`, `NewNetworkListener`, `udp_l.go` | what is constructed, a waiting interrupt | every step of `run`, port discovery, interrupt | `Startup` (over `FDSet`) |

How they interact: `run` checks the flags and constructs the listener or the
Firedancer sniffer, the sockets and the gateway; only then does it look at the
signal channel. `Start` registers and launches the receiver
(`receiveShredsFromOFR`), the watch (`reRegister`), the two broadcasters and one
local source (`NetworkListener.Recv` or `FiredancerSniffer.Recv`). Receiver and
local source call the cache and the statistics and send, without blocking, to
the channel of their broadcaster. `Register` withdraws and publishes the
address that the receiver compares packets with and the broadcaster sends to;
only `Register` and the broadcaster take the lock for it. The receiver resets
the ticker and the counter of the watch. Cancelling the context of `main` ends
the loops, 1 ms before the process ends anyway.

What is hard here: unlocked state shared by the receiver and the watch; a two-
step test of a counter; an address of several words that two goroutines read
without its lock; a search for free ports while other processes take them; two
maps that are updated one after the other by three kinds of goroutines;
goroutines that are added to a wait group while it is waited on; sniffers that
notice cancellation only after a packet; a reader of shared memory that the
writer does not know of; non-blocking sends on full channels after the cache has
remembered the shred; attempts, ticks and packets in every order.

## Modules

Each module names the code in its head comment; variables carry the name of the
field they stand for as a comment. Operators called `X_Something` next to `X`
are faulty variants of `X`, used to make sure that the properties can fail.

* **DedupWindow** is what the cache promises: `life[k]` is the number of
  clean-ups a key still survives (2, 1, or 0 when unknown). `Set` is one atomic
  step that admits or refuses.
* **AlterKey** has one step per map access under the mutex, for any number of
  callers and the cleanup goroutine. `ImplementsWindow` maps a key in `current`
  to 2, one in `altered` to 1, with the cleaner's intermediate state taken into
  account.
* **Registration** has one step per access to shared state. Addresses stand for
  IPs, which is all `processShred` compares. The ticker follows Go 1.23+
  (`go.mod` asks for 1.25.1): one buffered tick, discarded by `Reset`. `fresh`
  and `attempts` are history variables.
* **Shred** keeps the real widths: an unsigned integer is the set of its one
  bits, so that shifts, masks and comparisons are exact for 64-bit words in TLC
  and in proofs. It has both parsers: `ParseShredPartial`, which the gateway
  uses, and `ParseShred`, whose read past a 64-byte packet is the outcome
  `Panic`.
* **RelayLink** splits the address into the two words of an interface and an IP
  of two parts. Go orders neither the stores nor the loads of a variable that is
  written without synchronisation, so the words are stored and read in any
  order. The broadcaster's copy happens under the read lock; a waiting writer
  keeps new readers out, as Go's `RWMutex` does. An interface with a type and no
  data makes the alive sender panic. `inForce` is history: what the address was
  since the reader's turn began. `Registration` has the life of the whole address.
* **Forwarding** takes the cache as `DedupWindow`, which `AlterKey` implements,
  and registration as its two effects on the address. `log`, `fate` and `era`
  are history.
* **NetListen** names sniffers by `Ids`, reused once a sniffer is gone. A packet
  is good (it parses), bad (right size, does not parse) or invalid (wrong size).
  The ratio test that lets a sniffer tolerate invalid packets is nondeterministic
  once a valid one was counted. `Arrive` puts a packet into the buffers of the
  captures of a port; a read returns when one is there and otherwise waits
  (`Silent`), for ever if need be, because the capture has no timeout.
* **FdMonitor** contains the external validator: it fills a chunk, then
  publishes a descriptor, at its own pace: nothing in the code holds it back.
  `overrun` is history: it was once more than a ring ahead of the monitor. A
  batch may be faulty: a descriptor of impossible size, an offset out of bounds,
  no shreds or too many.
  Every read by the monitor is a step of its own: the descriptor, the batch, the
  header and the payload.
* **Stats** has a goroutine per recording source, one per recorder (total,
  unseen, first of a slot), the flush with its clean-up, and `printUnseenStats`,
  which is at its channel or not when the flush offers it a record. What becomes
  of a flushed record (sorting, sums, log lines) is left out. The time of an
  entry of the first-shred map is young or old, old being more than the minute
  after which `clean` drops it.
* **FDSet** has one step per bind; other processes take and release ports in
  between. A socket can be bound once, and `boundPort` 0 counts as not bound.
  `refused` is history: the ports that were not available when it was their turn.
* **Startup** follows `run` with the real port numbers. A fallible call that is
  not modelled in detail fails at any time (`Fail`). The port discovery looks at
  its timer only after a packet with complete headers. `Start` is one step here;
  its attempts are in `Registration`.

The `MC*` modules instantiate these for TLC, `*Proofs` hold the theorems.

## Runs

| Run | Checks | Bounds |
|---|---|---|
| `cache` | `Inv`, refinement of `DedupWindow`, a remembered key is forgotten | 2 callers, 2 keys: both callers race on one key and differ on the other |
| `registration` | address, counter, spacing, refusals; reconnection, detection of silence | 2 relays, limit 3, 2 tries at start |
| `shred` | what is accepted; what a key identifies; where the two parsers agree | headers on both sides of every limit, 63 to 65 bytes included; bits on both sides of every field boundary |
| `relay_link` | whole copies, no use of an address that was left; the lock is obtained, alive messages go on | 2 relays (parts of two addresses can mix); one reader at a time, for no reader reads what another one writes |
| `forwarding` | no echo, nothing lost or duplicated, everything admitted is dealt with | 3 admissions over 2 keys, 2 clean-ups (a key is forgotten and admitted again), channels of capacity 1 (full at once), 1 extra address |
| `netlisten_ports` | one live sniffer per port, no send on a closed channel | the incoming, 1 outgoing and 1 discovered port, 3 sniffers: each port may have a stopping and a new sniffer at once |
| `netlisten_live` | reopening, shutdown, with ports that may fall silent | the incoming and 1 outgoing port, 3 sniffers, no EOF |
| `fd_reads` | order, completeness, start, the meaning of an answer of 0, release | ring of 2, 3 chunks, 4 batches of up to 2 shreds (ring and chunks wrap; the validator can go round the ring twice while the monitor stands still), every kind of fault |
| `stats` | conservation, flushing; a slot is reported first once | 2 sources contending for a channel of 1, one shred each, one slot |
| `startup` | what is constructed fits what is launched; the port search; the interrupt | every combination of modes with a server port inside the range; ranges of one part, not a number, reversed, of one port, from 0, beyond 65535; 3 ports other processes contend for |

Two more runs show a disagreement between the code and what it says of itself;
see Findings.

`relay_link` does not check for deadlock: the panic of the alive sender ends the
process. In `startup` the interrupted or failed process rests while other
processes go on.

Bounds in guards: `MaxEra`, `MaxLog` (Forwarding), `Ids` (NetListen), `MaxSeq`
(FdMonitor), `MaxCalls` (Stats); `attempts` in Registration stops at `Limit + 1`.
Each cuts off only more of the same: the counters are not read by the guards of
other actions. Symmetry of the sniffers is used in `netlisten_ports`, which
checks invariants only.

`netlisten_live` leaves out EOF (`EofPorts = {}`): a sniffer that ends by itself
leaves its handle in `portHandleMap`, so its port does not count as closed and
the tick does not reopen it. `ReopensWhenSilent` is about ports that `Recv`
closed. In both `netlisten` runs a stopped sniffer that waits for a packet keeps
its name, so the bound `Ids` can be used up; `ReopensWhenSilent` names that case
(`<>[](Free = {})`), which the code, having no such bound, does not have.
`ShutdownCompletes` says what holds without any assumption on traffic: a sniffer
ends unless it waits for a packet that never comes, and only such a one keeps
`Recv` waiting. `forwarding` runs with a validator; without one (`NoValidator`) the
module has one source and one broadcaster less and nothing else changes.

## Findings

Two runs expect a violation; each states what a comment in the code says, and
TLC shows the code doing otherwise.

* `registration_panic` (`gateway.go:413`): the receiver stores 0 between `Add`
  and `Load`; 0 modulo the limit is 0; the gateway panics with traffic flowing.
* `netlisten_muted` (`netlisten.go:359`): clean-up and discovery interleave so
  that a port is skipped for ever and its packets are ignored.

More behaviours of the code differ from a comment or a description, or are
surprising. No run is kept for them because they can be read off the code; the
models contain them.

* `gateway.go:404`: failed attempts are not counted, so `noTrafficCounterLimit`
  ("the number of times the gateway will attempt to re-register", lines 88-89)
  does not bound them.
* `gateway.go:361`: while unregistered, the validator's shreds do not reach the
  extra addresses either (`main.go:93`: "send shreds received from OFR and
  Solana Node").
* `netlisten.go:202`: a port with a nil handle ("no handler means it is closed")
  may still have an open capture when a second one is opened, because the
  cancelled sniffer waits in its read.
* `fd_shred_monitor.c:332`: with a validator more than a ring ahead, `get_next`
  answers 0 with batches waiting, where line 300 says "0 = no new shreds", and as
  `last_seq` stays it does so ever after. The same goes for a descriptor of
  impossible size. `ZeroHasReason` says exactly when 0 is returned.
* `gateway.go:157`: in Firedancer mode there is no listener and the node's
  address is zero, so local shreds, recorded under 127.0.0.1, are printed as seen
  "first from OFR" (line 167). (`Stats` leaves the sum out.)
* `fd_shred_monitor.c:240`: capping the count of a large batch ("just cap the
  count") stores into a mapping made with `PROT_READ`.
* `udp.go:77`: port 0 means "not bound", so that a range from 0, which `main.go`
  accepts, leaves a bound descriptor searching until it fails, whereas line 34
  promises "the next available port". `SearchComplete` is stated for the rest.
* `main.go:156`: a `--dynamic-port-range` without "-" is an index out of range.
* `netlisten.go:257`: out ports beyond 65535 wrap around.
* `gateway.go:254`: the alive sender may read an address type without the
  address and dereference nil.
* `main.go:324`: an interrupt during start-up waits until start-up is over; on
  an interface without packets the port discovery is never over
  (`udp_l.go:83`).
* `shred.go:149`: `ParseShred` reads byte 64 of a 64-byte packet.

## Fairness

* Goroutines that can run do run, tickers tick: weak fairness of the steps of a
  goroutine. Arrivals of packets, clean-ups, signals and the validator's
  publishing are not forced unless said below.
* `Registration`: the relay answers every call (the call has no deadline, so
  without this nothing holds) and succeeds again and again if asked again and
  again.
* `NetListen`: a read returns once a packet has arrived, but no packet need
  arrive and no read need fail, so a silent port blocks its sniffer for ever; a
  `select` with several ready cases picks each of them sooner or later (strong
  fairness); reopening works if tried often enough.
* `FdMonitor`: the polling goroutine runs; no call of the monitor blocks. Nothing
  is assumed of the validator's pace, in either direction; `TakenInOrder` and
  `EveryBatchTaken` speak of a monitor that has not been overrun, the other
  properties of any.
* `RelayLink`: a locked store goes on, the alive loop and its ticker run, the
  broadcaster finishes the turn it began. Attempts, answers, packets and shreds
  are not forced.
* `Startup`: `run` goes on, the registration answers, the timer of the discovery
  fires and packets with complete headers keep arriving; without the last the
  discovery does not end.
* `Stats`: the printer is not assumed to run.

## Proofs

TLAPS checks the following for every value of the constants allowed by the named
assumptions. Each proof has a lemma for the initial states, one for every action
or group of actions that disturb the same conjuncts, and a last step in temporal
logic.

* `AlterKeyProofs`: `CacheInvariant` (`Spec => []Inv`) and `CacheRefinement`
  (`Spec => DW!Spec`). `Inv` adds to the types that exactly the holder of the
  mutex is in its critical section, that `current` and `altered` are disjoint, and that what a caller has looked up
  so far is still true when it acts on it. The refinement needs the last part:
  the abstract admission happens at the insertion, long after the first look-up.
* `RegistrationProofs`: `RegistrationInvariant` (`Spec => []RegInv`), and from
  it the three invariants a reader cares about and the action property
  `RefusalIsFinal`. `RegInv` adds `Control`, which ties the program counter to
  the outcome of the last call; without it a published address need not be the
  granted one. The assumptions are that zero, stranger and relays are different
  and that retry count and limit are positive.
* `ShredProofs`: `ParsingIsSound`, `KeysIdentifyShreds` and `ParsersAgreeAlways`
  (what `ParseShredPartial` accepts `ParseShred` reads the same way, it accepts
  more only beyond the bounds on index and parent, and it panics for 64 bytes only)
  for every set of packets, thus for all sizes, slots, indexes and variants at full width; the
  bounded runs only sample them. The lemmas separate the three fields of the key.
  The module also has the proofs of `Stats`; hence `Shred` calls its
  specification `ParseSpec`, so that both can be extended.
* `ShredProofs`, statistics: `StatsInvariant` (`Spec => []StatsInv`), and from it
  `StatsTypes`, `RecordsAreConserved` (`Conserved`) and the action property
  `FirstIsReportedOnce` (`FirstOnce`), for any sources, slots, capacity and
  number of calls. `Conserved` is inductive together with the types. Its terms
  count occurrences in a channel; `PositionsAppend` and `PositionsTail` say how
  a send and a receive change that count, the second by a bijection between the
  positions of the tail and those of the channel but the first. `FirstOnce` needs
  `Reported`: a slot whose line is less than a minute old is in the map and young,
  so that `Clean` cannot remove it.
* `ForwardingProofs`: `ForwardingInvariant` (`Spec => []FInv`), and from it
  `ForwardingTypes`, `ShredsTravelOnce` (`NoEcho`) and `NothingLostOrDuplicated`
  (`Accounted`), for any keys, extra addresses and capacity, with and without a
  validator. `Accounted` says that an admission is in one place; it is inductive
  only with the order: what a channel holds ascends, the broadcaster's is below
  it and the source's above, so a shred that moves on cannot meet itself.
  `Window` (clean-ups since an admission plus the life that is left make two
  phases) is what `NoEcho` needs.
* `RelayLinkProofs`: `RelayLinkInvariant` (`Spec => []LinkInv`),
  `LockedCopyIsWhole` (`WholeCopy`) and `OldAddressesAreNotUsed`
  (`OnlyInForce`), for any relays and with all three readers at work, where the
  run takes one at a time. `LinkInv` ties the lock to who stores and who copies, says that the words
  stored so far are those of the new address and that what is copied so far is
  what the address contains, and that `inForce` has every part the address had
  since a turn began. The readers without the lock may see a torn address; what
  is proved of them is that each part was in force.
* `FdMonitorProofs`: `ScanFindsTheLatest` (`StartsFromLatest`) and the action
  property `ZeroIsExplained` (`ZeroHasReason`) hold however fast the validator
  is. `RingInv` says which batches ring and chunks still hold; the slot of the
  newest batch at the attachment never goes back behind it, so a scan past that
  slot has seen it or a newer one. `Behind` adds that the monitor is not ahead of
  the validator, although the batch it loads may be gone by then; so a next
  batch that is published and within the ring is in its slot. `MonitorInvariant`
  (`Spec => []FullInv`) gives `MonitorTypes` and `FullRingIsReadInOrder`
  (`TakenInOrder`), for any depth, any number of chunks above it and any batch
  size, and again for a validator of any pace: `FullInv` has `RingInv`, what is
  true of an overrun monitor too (`Overrun`), and `MonInv` as long as `overrun` is
  false. `MonInv` says that the batch in hand is still in its chunk, what is known
  between two reads of a batch, and where the log ends; the step that would break
  it is the one that sets `overrun`. The lemmas on `%` (`ModDistinct`: numbers
  less than a ring apart have different slots) carry all of it.
* `NetListenProofs`: `ListenerTypes`, `PortsAreNotMultiplied`
  (`OneLiveSniffer`), for any ports, sniffers and ends of captures, from
  `SniffInv`: `portHandleMap` has every sniffer that captures and is not told to
  stop, `listenPorts` every one of an outgoing port, and a discovered port has
  no entry. `ClosedChannelIsNotUsed` (`NoSendOnClosed`) has the hypothesis that the
  capture of the incoming port does not end by itself (`InPort \notin EofPorts`).
  Its invariant `ListenInv` adds that whoever captures is in the wait group and
  that the incoming port's sniffer keeps that group from becoming empty while the context
  is live. The hypothesis is needed: if every capture ends, the wait group is
  empty, the channel is closed with the context live, and a port discovered
  after that sends on it. The assumption that there is a sniffer for every port
  is what makes an initial state possible.
* `StartupProofs`: `StartupInvariant` (`Spec => []StartInv`), `SearchIsComplete`
  (`SearchComplete`) for any range and any contended ports, and
  `RunningGatewayIsWired` (`Wired`) for any configurations. `PassedGrows` shows
  that a turn of the loop passes exactly one port that was not passed before,
  across the end of the range too; `Sockets` carries from stage to stage that a
  port found was not the gateway's before, so that server and both descriptors
  differ.

Each inductive invariant was checked by TLC on the instance of its run before it
was proved. One proof attempt corrected a model: `cancelled` in `RecvBad` of
`NetListen` could be cleared for a sniffer whose name had been reused, because
the new value did not include the old one.

Only model-checked: all liveness (`EventuallyForgotten`, `Reconnects`,
`SilenceDetected`, `Drains`, `ReopensWhenSilent`, `ShutdownCompletes`,
`EveryBatchTaken`, `Released`, `AllFlushed`, `InterruptHonoured`,
`RegisterGetsLock`, `AliveGoesOn`), for fairness and `ENABLED` are out of the
prover's reach. No safety property is left to TLC alone.

## Not modelled

* The batched UDP code and the success counter are not used by the gateway, and
  no option of it enables the histograms.
* `KeyedCounter` is handed only to the sniffers of outgoing ports, which never
  increment it; `ShouldSample` is a pure test for Fluentd.
* Fluentd, the logger and what is logged of a flushed record, the sum that
  `printUnseenStats` prints included, keep no state the rest reads. Command-line parsing, the redaction of the logged arguments and the
  generated protocol buffers hold no logic of the gateway's.
* Reading, writing and address conversion of sockets are parts of steps of
  `Registration`, `Forwarding` and `RelayLink`. Opening a capture succeeds or
  fails.

## Plan

Done: every part of the gateway that keeps state shared between goroutines has a
module, and every invariant, action property and refinement that a passing run
checks has a proof.

Next:

1. Lemmas that several proofs state for themselves, such as those on entries of
   a log, in one place.
2. A property of what one report covers (see the hazard at `stats.go:176`), as
   soon as the code or its docs say what it should.
