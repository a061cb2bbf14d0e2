# Formal model of etherage

TLA+ modules, TLC runs and TLAPS proofs for
[etherage](../src/readme.md), an EtherCAT master written in Rust. Paths below
are those of the repository: `src/src/rawmaster.rs` is the master's PDU layer.

`PROJECT.json` lists the components, the runs, the source lines of every
definition (`map`), the mutants (a plausible bug for each checked property, which
the property must catch), the findings, the hazards and the theorems.

## 1. The system

A program talks to a segment of slaves through one Ethernet (or UDP) socket. All
the API is `async`; futures run on any number of threads and may be dropped at
any await. Each slave executes the PDUs (reads and writes of its memory) of a
frame while the frame passes through it, and counts itself in the PDU's working
counter ("answers").

| component | state | operations | interacts with |
|---|---|---|---|
| **RawMaster** `rawmaster.rs` | send buffer (`last_start`, `last_end`, `ready`), reception storages, free tokens, four `Notify` | `Topic::new/send/available/wait/receive/drop`, `flush`, `pdu_receive`, the loops `task_send`, `task_receive`, `task_timeout`, `stop` | sockets below; every other component above |
| **Sockets** `socket/` | a raw socket, a UDP socket | `poll_send`, `poll_receive`, `max_frame` | kernel |
| **Allocator, Group** `mapping.rs` | free slots of the logical memory, `Weak` configurations of slaves; per group a region, a topic, three buffers | `Allocator::group`, `compatible`, `allocated`, `free`, `Group::drop`, `exchange`, `read`, `write`, `configure` | RawMaster (one topic per group), Config, CAN |
| **Mapping, Config** `mapping.rs` | offset in the mapping, FMMU entries, PDOs and channels of each slave | `Mapping::slave`, `range`, `register`, `channel`, `push`, `set` | Allocator |
| **Mailbox** `mailbox.rs` | counters of mails, areas of the two sync managers | `new`, `read`, `write` | RawMaster; the slave's mailbox service |
| **CAN (SDO)** `can.rs` | none but the lock of the mailbox | `sdo_read`, `sdo_write`, segments | Mailbox |
| **Slave, Master** `slave.rs`, `master.rs` | book of the addresses in use, expected state, sub-protocols of each slave | `Slave::new`, `set_address`, `switch`, `init_*`, drop; `discover`, `reset_*`, `switch` | RawMaster, SII, Mailbox, CAN, clock |
| **SII** `sii.rs` | lock of the EEPROM, mask of addresses | `acquire`, `release`, `read_slice`, `write_slice`, `reload`, cursor over categories | RawMaster |
| **Distributed clock** `clock.rs` | topology of the segment, delays, offsets, divergence | `new`, `init_*`, `sync`, conversions | RawMaster |
| **Data** `data.rs` | none | `PduData`, `Field`, `BitField`, `Cursor` | all |
| **Dictionaries** `registers.rs`, `sdo.rs`, `eeprom.rs`, `error.rs` | none | layout of registers, objects, EEPROM, errors | all |

What makes it hard:

- *interleaving*: users, and three loops, share the send buffer and the storages;
  the lock is released around awaits, around the socket's read of the buffer, and
  `PduState::ready` is accessed without it;
- *unreliable delivery*: a frame may be lost, late, reordered, or unreadable, and
  the master only learns that an answer is missing after `pdu_timeout`;
- *cancellation*: a future dropped at an await leaves its PDU in the buffer or in
  flight, its request in a slave's mailbox, its slot of logical memory taken;
- *resource bounds*: tokens, the frame size, the 32-bit logical memory, areas of
  mailboxes, 16-bit lengths;
- *liveness*: everything sleeps on notifications, or loops on a register until
  a slave changes it.

What makes each component correct:

- RawMaster: a token has one owner; the send buffer is always a well-formed
  frame and does not change while the socket reads it; an exchange gets the data
  of its own PDU and the number of slaves which executed it; every exchange ends.
- Allocator: regions of live groups never overlap; groups agree on the slaves
  they share; memory comes back; a call of `group` ends.
- Mapping: each field of the group buffer is what the FMMUs of its slave map to
  the physical memory asked for.
- Mailbox: each request is executed once and in order; each call gets the
  response to its request; nothing blocks for ever.
- CAN: an SDO of any size is transferred whole, segments in order.
- Slave/Master: no two owners of one slave; the expected state is a state the
  slave was asked for.
- SII: the EEPROM is given back; reads and writes cover the range asked for.
- Clock: the topology and the delays are those of the segment.

## 2. Modules

    RawMaster, PduExchange <- RawMasterProofs, MCRawMaster  (RawMaster_*.cfg)
    Sockets       <- SocketsProofs,   MCSockets    (Sockets_both.cfg)
    Allocator     <- AllocatorProofs, MCAllocator  (Allocator_calls.cfg)
    Mapping, Fields <- MappingFields <- MappingProofs, MCMapping  (Mapping_own.cfg)
    Mailbox, Rpc  <- MailboxProofs                 (Mailbox_*.cfg)
    CanSdo        <- CanSdoProofs,    MCCanSdo     (CanSdo_*.cfg)
    Sii           <- SiiProofs,       MCSii        (Sii_calls.cfg)
    Master, Clock   <- MasterClock   <- MasterProofs,  MCMaster   (Master_*.cfg)

An `X.tla` module models a component, one action per critical section, PDU or
await of the code. `XProofs` extends it with its theorems, `MCX` gives TLC the
values of its constants, where the `.cfg` cannot. `Fields` and `Clock` are pure algorithms,
operators with no variables: `MappingFields` and `MasterClock` put them beside the component
that uses them and state their properties of its first states. Operators
under a comment "variant" are mutated forms used by the mutants, never by `Next`.

### RawMaster (rawmaster.rs)

Users are async tasks running `read_slice`, `write_slice` or `exchange_slice`
(`new`, `send`, `wait`, `receive`, drop), or groups, which keep their topic and
send and receive at will. A step is a critical section of the mutex `state`, or
one access to `PduState::ready`; `Topic::wait` is therefore two steps
(`WaitRegister` creates the `Notified` future, `WaitCheck` reads `ready`).

| variable | code |
|---|---|
| `last_start`, `last_end`, `ready`, `send` | the same fields of `MasterState`; `send` is the PDUs stacked in the buffer |
| `receive` | `MasterState::receive`, a function on the reserved tokens (`Some`) |
| `free` | the stack of free tokens |
| `sendable` | the permit of `sendable.notify_one()` |
| `received`, `sent` | who is registered on these `Notify` |
| `sender` | where `task_send` is: waiting, merging, sending (lock released), resetting, notifying |
| `tasks` | the task running the three loops: running, failed (an error was unwrapped), poisoned (a panic with `state` locked), stopped |
| `pc`, `topic`, `answer` | each user's future |
| `wire` | frames in the segment: a set, so they may be lost and reordered |
| `request` | history: PDUs stacked so far; a PDU's data is `<<user, n>>` |

Data is what it was made from: a request's own bytes, an untouched buffer, or
garbage taken from a misread frame. When `pdu_receive` meets a PDU whose token is
free it does not skip its bytes, so what follows is arbitrary: `ReceiveMisread`
lets it end the loop, fail, panic, or store garbage under any reserved token.

`task_timeout` compares ages with `pdu_timeout` every `pdu_timeout`: in
`TimeoutTick` a storage expires at the second tick it sees, or at the first one if
that tick is late (any subset may).

`Workload` gives the number of requests of each user. Three constants set the
adversity. `Timely`: an answer that arrives does so
within `pdu_timeout`, and the user's task runs before the tick (no expiry of a
`Pending` token). `Abandon`: users whose futures may be dropped. `Faulty`:
unreadable frames and `stop`.

`PduExchange` is the abstract specification, what users are promised: `Ask` puts a
request in flight, `ComeBack` and `Lose` take requests away, `GiveUp` reports no
answer to a user that has nothing in flight any more, `Take` ends an exchange with its
outcome. It knows no token, buffer, frame nor notification. RawMaster instantiates it
(`ExchangeSpec`): in flight is what is in the segment or in a buffer not sent yet
(`InFlight`), the outcome of a user is in its storage (`Came`), but before an exchange has
sent and after it has received, when a storage that the timeout marks means nothing.

### Allocator (mapping.rs)

Each call of `Allocator::group`, made at most once, goes through `lock`, `topic`
(the await of `master.topic`, with the mutex `internal` held), `live`, and
possibly the three steps of the drop: topic, slot, configurations. `free` is
the `BTreeSet` of slots, its order is `Before`; `slaves` is the map of `Weak`,
an `Arc` being named by the call which made it (unique: a call makes at most one
for a slave). `ThreadOf` says which thread polls a call: a thread blocked in
`lock()` polls nothing else (`Polled`). `Config`, `Uses`, `Mapped` are the mapping
each call gets: contents of its `Config`, the slaves it uses, the ones still
locked by a `MappingSlave`. A panic with the mutex locked poisons it.

### Mailbox (mailbox.rs) and Rpc

The mailbox as `can.rs` uses it, under its lock: write a request, read its
response. A PDU has a `Fate`: executed and answered, executed with the answer
lost, or lost before. The slave (its two sync managers, its mailbox service) is
external: an area refuses accesses while it belongs to the other side, its last
word hands it over, a change of `repeat` presents the last mail again, and a mail
with the counter of the previous one is dropped. `SameFrame` makes the PDUs
joined in an attempt travel in one frame, else the slave may act between them.
`read.count` is left out: the code increments it and never uses it.

`Rpc` is the abstract specification: one request at a time, each executed
exactly once, then answered. `Mailbox` instantiates it with `asked`,
`Len(served)`, `Len(results)`: `ServiceSpec`, checked by the run `mailbox_lossy` and proved.

### Mapping (mapping.rs)

The user side of the same file: `Mapping`, `Config` and `Group::configure`. A
mapping lays out values one after the other in its part of the logical memory
(`offset`), and records in a `Config` the PDOs, channels and FMMU entries each
slave needs. `configure` then writes them one by one.

| variable | code |
|---|---|
| `config` | `Config::slaves`, the `ConfigSlave` of each slave: `pdos`, `channels`, `fmmu` |
| `guard` | the lock of a `ConfigSlave`, and the `MappingSlave`, `MappingChannel`, `MappingPdo` being filled |
| `slaves`, `offset` | `Mapping::slaves`, `Mapping::offset` |
| `group`, `allocated` | the groups made (see Allocator for how), the memory given |
| `todo` | what each `configure` in progress has left to write |
| `memory` | what the slave got (external): lists, sync managers, FMMUs |
| `fields`, `latest` | history: fields returned to the user; the group each slave was last configured for |

The order of PDOs and channels is that of a `HashMap`, any permutation. The slave
lays the entries of PDOs one after the other, and refuses to change a list whose
length is not zero. Sizes are whole bytes (`SdoBits = {8}`), the module's doc
says mappings are (mapping.rs:52).

### CanSdo (can.rs)

Calls of `sdo_read_slice` and `sdo_write_slice` share a mailbox under its tokio
mutex. A step is an await: lock, mail written, mail read. The mailbox is a queue
in each direction, which is the service `Rpc` that Mailbox provides, extended
with what breaks it: a mail nobody asked for (`Emergency`), an exception, which
stays in the mailbox, a call dropped between its request and its response.
Sizes are the real ones; data is a part (from, length) of a value, a value being
named by the object or the call it comes from. The SDO server is external.

The model has neither toggle bits nor segments of writes: the code cannot get
there. The first request of a write takes up to 1015 bytes, as a segment would,
though its header is 10 bytes and not 3: longer data overflows the buffer and
panics (`WriteInOneRequest` proves that no data is left for a segment). A read
slices each segment to *all* that remains, and panics if it is shorter: it has
one segment at most, with the first toggle.

### Sockets (socket/ethernet.rs, socket/udp.rs)

Below RawMaster: the loops of `task_loop` poll the socket, which asks tokio's
readiness flags, which the kernel's edges set. The kernel, the driver and `Race`
(smol's `race`, polling its three futures each time the task is woken) are external.

| variable | code |
|---|---|
| `arrived`, `outgoing`, `edge` | the kernel's queues, an epoll event not seen yet |
| `ready`, `waker`, `fresh` | flags of `AsyncFd`; registered wakers; whether an event came since the guard was taken (`clear_ready` then keeps the flag) |
| `woken`, `polls`, `at` | the task: to be polled, loops left to poll, place in the one being polled |
| `requests`, `full` | frames the users asked for, one in the send buffer |
| `travelling`, `foreign`, `received` | frames in the segment, of other hosts, given to `task_receive` |

A frame read by `EthernetSocket` is accepted or not by its header; a frame of
another host returns `Pending` with the flag retained and *no waker registered*.
`UdpSocket` clears the flag before its only `recv_from`, and unwraps what it returns.

### Sii (sii.rs, eeprom.rs)

Calls on a `Sii` come one at a time (`&mut self`, under the mutex of `Slave::sii`),
but one that fails, panics or is dropped leaves the slave at work. The slave is
external: it owns the EEPROM or not, is busy with a command, sets error flags.

| variable | code |
|---|---|
| `locked` | `Sii::locked`, set before the write that acquires |
| `owner`, `op`, `error`, `data`, `rom` | registers of the slave, the content of its EEPROM |
| `call` | the call in progress: the await it is at, the slice (`address`, `length`, `got`), strings of a walk |
| `request`, `outcome`, `refusal`, `unsure` | history: the call, how it ended, why the slave refused a command |

`read_slice` and `write_slice` go command by command, with chunks of 4 or 8 bytes,
odd addresses, and the address arithmetic on 16 bits, which panics or wraps
(`OverflowChecks`). `strings` and `generals` walk over categories with a
`SiiCursor`. The layout of categories is that of `eeprom.rs`; of their fields only
what the walks use is kept.

### Master (master.rs, slave.rs)

Tasks make and drop `Slave`s, change addresses, switch states, and share the clock.
A step goes from an await to the next one, or is a critical section of the book.

| variable | code |
|---|---|
| `slaves` | `Master::slaves`, the set of addresses in use |
| `instance` | the `Slave` each task holds: `address`, `mailbox` (the address `Mailbox::new` was given), `expected` (`state`, set by `switch` and `expect`, asserted by `init_mailbox`), and the slave it was made for |
| `call` | where the call of each task is, with its locals |
| `clock`, `queue`, `reading` | `Master::clock`: `Some` or not; the FIFO of tokio's `RwLock`; read guards |
| `fixed`, `al`, `asked`, `failed` | the slaves (external): fixed address, state, request not handled yet, error flag |
| `family` | the kinds of calls made in this behaviour (a bound) |
| `unsure` | history: an address changed unseen, see below |

A PDU is executed by all the slaves it reaches (`Reached`): by position one, by
fixed address all those that have it. `unsure` becomes true in the steps after which
the code has no means to know who is where:

- an instance is registered from a read that does not hold any more, of a slave about
  to get another address, or by fixed address while used by position (`Outdated`);
- a fixed address is given that another slave or instance has, or that replaces
  another one without an answer (`Misled`);
- `reset_addresses` broadcasts while an instance exists, having been overtaken.

The properties about owners hold until then. They do not hold for the *other* slaves
after that: TLC found an instance, rightly made, whose slave was given to someone
else because of a disorder about another one. `discover` is `New` on each position.

### Clock (clock.rs)

A segment is a tree; `Stamps` is what its slaves would measure with clocks of any
time, that wrap at `Width`. `Topology`, `Delays`, `MasterDelay` are `init_topology`,
`init_delays` on the registers of such a segment. `NewDelays` is what `new` leaves in the
registers of slaves, and whether it fails, up to `init_offsets`: slaves may leave a read
unanswered, not get their delay, or get it unheard. The frame that triggers a sample may
wait in the master, out and back, for a time that `MasterDelay` cannot tell from the trip: the delay
of the master is then half of it too long. That `bwr` ignores the frame's loss
(clock.rs:231), after which the stamps are old ones, is not modelled. `Sync` is the
exchange of `sync`: nothing without an answer, else the time of the reference against that
of the master at sending (`Measured`, on 64 bits read as a signed number) goes through the filter
`Follow`. The delay it takes off is that of the reference among the slaves, 0 for the first, not
the one of `MasterDelay`: the offset settles on the time of the reference when the frame
passes against that of the master when it left. Two `sync` at once are excluded by
the doc of `sync_loop`.
That a frame visits the ports of a slave in increasing order is an assumption of
the code too (the hardware visits 0, 3, 1, 2): the model shows what the algorithm
computes under it. `Back` is the time a frame takes from its arrival in a slave to
its return on each port, from which stamps and arrivals follow. Slaves are numbered as
frames reach them, which `Trees` states of `Arrival`, and the proofs show to be the order of
a walk by increasing ports. `TripAssumption` bounds a frame's whole trip by `Width`: stamps are
nanoseconds on 32 bits, 4.29 s, and a frame takes microseconds; a longer trip could not
be told from one shorter by `Width`. TLC evaluates it on the segments of each Master run.

### Fields (data.rs, and users of it)

`PduData` by kind of type, `ByteField`, `BitField`, `Cursor`; with them the initial
values of a mapping's buffers (mapping.rs) and the padding of frames (ethernet.rs).
A value is its packed bytes; a type is what slices it accepts, and a size.

## 3. Runs

Bounds are constants of the modules, named `Max...` or given by small sets.

**RawMaster.** 2 or 3 users, 2 tokens, frames of at most two PDUs, one or two
requests each (`Workload`). Two tokens for three users make tokens run out; a
frame of two PDUs makes merging, a full buffer, `next` chaining and partial
parsing happen; a PDU that fits only an empty frame makes senders block. Working
counters are {1}: the code only adds and subtracts 1, the saturation at 65535 is
in the model. `PduExchange` was checked with two requests of the group as well, which may
come back in one frame (`TwoForB`; without liveness, for the time it takes).

| run | shows |
|---|---|
| `rawmaster_timely` | two exchanges and a group, loss but no lateness: one owner per token, an exchange gets its own answer, each PDU is sent once, the reception survives, `PduExchange` is implemented (the working counter is right, no outcome is given twice or while the answer may come), and everybody gets through its requests (`WorkloadCompletes`) |
| `rawmaster_adverse` | tokens and buffer stay sound with late answers, cancellation, a group with two PDUs in flight dropped, unreadable frames, a stopped master |

**Allocator.** Four calls (two suffice for an overlap, three for a `Weak` that
dies between two others, four adds the conflict), two slaves, a memory of 6
bytes, 2 tokens. Three of the calls agree on the slaves they share and fit together; the
fourth asks for another configuration, of a slave locked by another mapping, of a size
that does not fit with them. Each call has its own thread (`OwnThreads`): sharing one only
takes steps away (`Polled`), so that what holds of states and steps holds for any
sharing; that calls end does not, a thread that blocks in `lock()` on a mutex held by
another of its futures never polls it again (mapping.rs:85).

| run | shows |
|---|---|
| `allocator_calls` | disjoint regions, agreement on shared slaves, memory taken by reservations only, with conflicts, panics and cancellation; no refusal as long as the calls made agree and fit, in whatever order they are made and dropped; each call ends if tokens come back |

`CHECK_DEADLOCK FALSE` here: a call waiting for a token that no group gives
back waits for ever, and so do those behind its lock.

**Mailbox.** Three requests and up to three losses, so that a retry is itself
lost; eight requests once, to wrap the counter (7 values).

| run | shows |
|---|---|
| `mailbox_lossy` | requests executed once, in order, responses right, `Rpc` implemented, when anything but acknowledges is lost |
| `mailbox_wrap` | execution once, delivery and completion through the wrap of the counter, with one loss, exceptions and a cancelled request |

**Sockets.** Three frames to send, one of another host, room for two: frames arrive
while others are read, filtered, or the flag is cleared; the send queue fills.

| run | shows |
|---|---|
| `sockets_both` | with the ethernet socket, a frame in the kernel is always announced by a flag or an event to come (the question of ethernet.rs:130), and is read in the end or the loops have failed; both sockets run |

The system stops when the loops fail, and each frame is sent once: no deadlock check.

**Mapping.** Two mappings, two slaves, one channel, two PDOs (one fixed), three
fields in one mapping and one in the other: enough for a field of another slave
to come between two that would be contiguous, and for a slave to be configured
after a different, or an unfinished, configuration. Fields: three bytes of data of
any content in {0, 165}, all byte and bit fields in them, four types.

| run | shows |
|---|---|
| `mapping_own` | after a successful `configure`, exactly one FMMU entry serves each byte of each field of the slave and leads to where the slave has the value; no write is ever refused; with a `Config` per mapping. A field reads what was written to it and leaves the others alone, in buffers of initial values and behind cursors |

**CAN.** Two reads of an object around a write of it, a read of another one,
mails of 128 bytes; a value is expedited, fits a response, or needs one or two
segments; the write fills the mail exactly. One update by the slave, one
unexpected mail, one call dropped.

| run | shows |
|---|---|
| `cansdo_calls` | a read that succeeds has one whole value of its object, whatever came before; as long as no unexpected mail or dropped call has shifted the responses (`Calm`), values are those of the call's time, successful writes are stored, failures have a cause; calls end |
| `cansdo_sizes` | *violated*: a call panics on a value whose size no mail holds, though an SDO of any size is promised (can.rs:58, :161) |

**SII.** Four devices (small and large chunks, byte addresses, a category before or
after the one sought, strings that are not UTF-8, an EEPROM of zeros without end
mark), 16-bit addresses reduced to 0..63, reads of odd address and length, one
failure: with two the same holds. Requests are made for ever, in any order.

| run | shows |
|---|---|
| `sii_calls` | a read returns the bytes asked for, a walk finds what is there, a write is stored whole, or as a prefix when it fails; who acquired the EEPROM is refused only after an owner change without answer, or while the slave is still at work for a call that failed or was dropped; calls end |

**Master.** Two tasks, two slaves, two fixed addresses, one lost PDU or answer, 3 to 5
calls of a family: addresses and resets; addresses, states and mailboxes; clock and
resets. Five calls are two instances, two changes of address and a third.
Clock: all segments of up to four
slaves (the fewest for a branch inside a branch followed by another), cables of two
lengths, clocks that wrap or not, frames that wait in the master or not; any slaves miss the
delay they are sent, or are not heard. `Sync`: all offsets and differences of times up to
`Far`, at all times of a clock of 64 values.

| run | shows |
|---|---|
| `master_calls` | while no address changed unseen, a slave has one owner, an instance reaches its slave and no other, the book is exact; `Master::switch` succeeds only on a broadcast read made when all slaves are in the state, with or without error codes read after it (a slave that moves after that read is not seen, though master.rs:199 says that the change is effective on return); who waits for the clock gets it unless a `sync_loop` goes on; the tree and the delays of a segment are rebuilt exactly, slaves hold these delays when `new` succeeds, offsets settle |
| `master_exclusive` | *violated*: two instances of a slave, one by position and one by fixed address |

### Also found

The following are what TLC answers when a condition of the runs above is lifted.

- RawMaster: with a cancelled exchange, its late answer goes to the next owner of
  its token (`OwnAnswer`, rawmaster.rs:664). The timeout counts from the reservation
  of a token and not from sending (`TimeoutAfterSending`, :519). Without `Timely`
  the tick overwrites an answer not consumed yet (`AnswersCounted`, :459), and a
  frame later than `pdu_timeout` can end the reception for good
  (`ReceptionSurvives`, :336). A PDU too large for a frame blocks every sender
  (`ReadyHasFrame` with `Oversize` of MCRawMaster, :562).
- Sockets: without the tick of `task_timeout` a frame behind a filtered one waits for
  the next event (`SleeperWoken`). With UDP it may wait for ever, since two
  datagrams can share an event and one is read (`FramesReceived`); nothing to read
  after a spurious readiness is an error, unwrapped, that ends the loops
  (udp.rs:50, rawmaster.rs:469); the filter on the sender of udp.rs:52 has no effect,
  nor has `set_filter_address` of ethernet.rs; a full queue of the kernel ends them
  too (ethernet.rs:168).
- Allocator: dropping an empty group takes all the free memory away
  (`TakenIsReserved`, mapping.rs:413), and no dropped group gives back the memory
  it had (`AllocatedIsHeld`, :413 removes from `free` where it should insert); `compatible` then `group` is not atomic, and
  the refusal poisons the allocator (`AskedHolds`, :110).
- Mailbox: the repeat request is never toggled (mailbox.rs:140, registers.rs:1088):
  it works once per slave, so that `RequestsComplete` needs losses bounded by one.
  A lost acknowledge shifts all the responses by one (mailbox.rs:200), an
  exception is never acknowledged (:169), a dropped call leaves its response to the
  next one (:116): `OwnResponse` with `Lossy`, `Responses`, `Abandon` extended.
  Seven writes dropped in a row bring the counter back to that of the last mail accepted
  (:217): `WriteDelivers`.
- Mapping: two mappings sharing a `Config`, as its docs invite to (mapping.rs:50,
  :426), use the logical addresses of the first (:357): `SharedServed`. Lengths that are
  not whole bytes make the sync manager shorter than the fields (:331, :646); a
  channel or PDO pushed again (`Again`) loses the fields it had; a fixed PDO mapped
  partially displaces the next ones (`FixedWhole`); the capacity of a list is one
  less than documented (:617, :648, sdo.rs:574).
- CAN: an emergency, or a dropped call, makes the next calls take the responses of
  the previous ones: without `Calm`, `ReadFresh`, `FailsForCause` and, with two
  writes, `WriteStored` are false. The docs "read an SDO, any size", "write an SDO, any size" (can.rs:58,
  :161) do not hold: `AnySizeServed`, in the run `cansdo_sizes`. A write that is empty, or larger than a
  mail, panics, and so does a read whose last segment does not fit (mailbox.rs:229,
  data.rs:451).
- SII: an `acquire` that fails leaves `locked` true, and later ones do nothing
  (sii.rs:119); a new `Sii` believes it has not the EEPROM, which it may have, and a
  failure in `init_mailbox` leaves it to the master (slave.rs:211). Addresses of a
  slave in `Byte` unit beyond 0xff are refused though the comment says the check is
  disabled (sii.rs:153). A write of odd length stores its whole words then panics.
  The loops that poll the slave have no timeout. In builds without overflow checks
  `CallsEnd` is false on an EEPROM of zeros: the walk wraps for ever.
- Master: a mailbox keeps the address it was initialised with, contrary to the
  doc of slave.rs:33 which tells to change it at will (`MailboxReaches`). The read guard
  of a `sync_loop` blocks `reset_clock`, `init_clock`, and everyone after them, for ever.
  `reset_addresses` checks before an await what its broadcast needs (master.rs:128).
- Clock: delays are wrong with slaves without a clock (`MixedDelaysExact`; TODOs at
  clock.rs:220, :265), that of the master if slave 0 is one; the offset settles
  `Div - 1` away at worst, by truncation (:438). `Slave::init_sync` adds a delay to the low 32 bits of a
  time (slave.rs:258), a sum that overflows at times.
- Fields: a `BitField` of a number always panics, since numbers want their exact
  size and the buffer has 16 bytes (data.rs; used by registers.rs:45); the docs of
  data.rs:16 offer it. Offsets of `SdoList::item` and `SyncChannel::slot` are bytes
  where `Sdo::sub` wants bits (sdo.rs:167, :656, :47); `sync_error` of
  `Synchronization` is not where `SynchronizationFull` has it (sdo.rs:898, :929).

### Fairness

- RawMaster: weak fairness of each user's steps (tokio polls a woken task), of
  the sender, of the timer, and of "a frame arrives or is lost" (it does not stay
  in the segment). Nothing forces a frame to arrive.
- Allocator: weak fairness of the steps of a call in progress. Nobody is forced
  to drop a group, so `CallsEnd` is conditional on tokens being free again and again.
- Mailbox: weak fairness of the future, strong fairness of the slave, which is
  interrupted by each frame; losses are bounded by `MaxLosses`, since nothing can
  be promised of a segment that loses everything.
- Sockets: frames that left come back, the driver sees edges, a woken task is polled,
  and each of its loops in turn (`Race` polls them all); the interval ticks.
- Sii: weak fairness of the future and of the slave's work on a command. A poll that is
  lost, or finds the slave busy, stutters.
- Master: weak fairness of the lock and of what a task does with it without a
  user, release of a `guard` included, that of a `loop` excluded.
- CanSdo: weak fairness of each call and of the slave's service of requests; a
  call takes the lock once, so that it is free in the end.

## 4. Proofs

All for any value of the constants that satisfies `ConstantsAssumption` (for Sii, also
`RequestsAssumption`, that calls have the types of the code, and `ImagesAssumption`, that
an EEPROM holds bytes; for what is about fields and the clock, `FieldsAssumption`,
`ClockAssumption` and `TripAssumption`), and the hypotheses named below.

`RawMasterProofs`, under all adversities together (late, cancelled, faulty):

- `TypeCorrect`, `TokenOwnership`: from the inductive `TokenInv`, the conjunction
  of `TypeOK`, `TokensOwned` and `SendersPending` (a user blocked in `send` has a
  request left: without it the request counter could leave its type). Only
  `NewReserve` and the drops touch tokens, one lemma each.
- `BufferLayout`: `SendLayout` is inductive with types; `SendStack` is the step that
  matters, it needs that `last_start` and `last_end` delimit the last PDU.
- `FrameStable`: `FrameFrozen`, from the inductive fact that the buffer is `ready`
  while the socket reads it, so that no `send` may stack.
- `SenderNeverStuck`: `ReadyHasFrame`, **assuming every PDU fits an empty frame**,
  with the strengthening that the sender handles a non-empty buffer
  (`SenderHasFrame`). The assumption is needed: see *Also found*.

and, on what RawMaster owes to its users:

- `NeverResent`: `SentOnce`, under all adversities: each PDU sent or to be sent is one its
  user has already counted (`Counted`), and the buffer is emptied before the next stack.
- `AnswersOwn`, `ReceptionGoesOn`, `AnswersExact`: the properties `OwnAnswer`,
  `ReceptionSurvives`, `AnswersCounted`, and `WaitEnds`: `AvailableMeansOver`, when `wait`
  returns the PDU is over. They assume `Cooperative`: late answers dropped (`Timely`),
  nobody cancelled, no unreadable frame; and the exact count that the working counts do
  not reach the largest `u16`, where the count saturates. The first two are needed, see
  *Also found*; an unreadable frame stops the loops by itself. The invariant is
  `ExchangeInv`: each PDU in flight or in the buffer is awaited, that is, its user still
  holds the token, which is reserved for data of its size, and nothing was received for it
  yet (`Expected`; with `SentOnce`, no other copy can come); and the storage of each token
  holds nothing else than an answer to its user's request (`Stored`). Hence `Receive`
  never finds a token free, of another size, or already answered.
- `KeepsPromise`: `ExchangeSpec`, RawMaster implements `PduExchange`, under the same
  assumptions, that on the largest count included. One lemma per handler says which abstract
  action it is, or that it is none (`Unseen`): most of the work on tokens, sleeping and sending is
  invisible. It needs two more invariants: PDUs of a user are in a frame in the order of its
  requests (`FramesInOrder`), so that what stays in the storage is the latest, and a user at the
  end of its wait has an outcome (`DoneHasOutcome`), which no tick or frame takes back.

`AllocatorProofs`:

- `TypeCorrect`.
- `DisjointRegions`: `RegionsDisjoint` is inductive with types: what a slot gives
  (the region and the rest) lies inside the slot (`CutInside`), which was apart
  from all the others (`CutApart`); every other step only removes regions or slots.
- `ConfigAgreement`: `OneConfig`, from `WeakIsShared`: each holder's `Arc` for a
  slave is the one the `Weak` of the allocator refers to, so comparing a new
  mapping with that one only is enough.
- `ReservedOnly`: `TakenIsReserved`, memory leaves `free` for a group being made and for
  nothing else. It assumes that no mapping is empty (`Positive`), and needs it: see *Also
  found*. Then there is one free slot, the tail of the memory (`TailAt`): a reservation
  always cuts its start, and a dropped group never finds the slot it would remove, since
  no slot can start where a non-empty group does.
- `EveryoneAccepted`: `NobodyRefused`, for finitely many calls: nobody is refused as long as
  the calls made so far are `Acceptable`: their mappings agree on the slaves
  they share, no other mapping has their slaves locked, none is empty, and all
  fit together in the memory. Without agreement a refusal is right; memory never comes
  back (see *Also found*), hence the sum over all mappings and not over the live ones. The
  invariant (`Quiet` with `TailAt`) says that the tail starts at the sum of the sizes
  of the groups made so far (`Taken`), and that every `Arc` is that of a mapping, with the
  same configuration (`SlavesUse`).

`MappingProofs`, for any program of calls on any mappings and slaves, shared configurations
and lists opened several times included:

- `TypeCorrect`: what is recorded in a `Config` has its type and lists never pass their
  capacity (`AllFit`), which `push`, `slot` and `channel` check each in their way.
- `EveryWriteTaken`: `NeverRefused`, no slave refuses a write of `configure`, in
  whatever order the `HashMap`s are iterated. The invariant (`AllSafe`): for
  each item left to write, either its list's length was written to zero earlier in what
  is left, with only items of that list since (`Emptied`), or it is zero in the slave
  now. That the program of writes made by `Group::configure` has this form (`GuardedWrites`) is by
  construction of each list, and kept by concatenation for any number of lists.
- `FieldsServed`: `ConfiguredServed`, a group that configured a slave exchanges its fields
  with it, assuming a `Config` per mapping (`OwnConfig`), SDOs of whole bytes
  (`WholeBytes`), and channels and PDOs each opened once (`~Again`). The code checks
  none of these and the property fails without each (see *Also found*); the run
  `mapping_own` satisfies them. That a channel is not a PDO is in `ConstantsAssumption`:
  both are indices in a slave's dictionary, from 1C10h for the ones, 1600h and 1A00h
  for the others (sdo.rs:250). The invariant (`AllInv`) adds to the two above four parts,
  each resting on those before:
    - `BuiltInv`: while a mapping grows, every field it returned has an FMMU entry that
      covers it and leads to where the lists of the ConfigSlave put the entry it came from
      (`FieldIn`, `Sound`), and no logical byte is mapped twice (`Apart`). What a guard
      has open is the end of its channel (`OpenLast`), so that a push moves no entry
      (`Keeps`) and begins where the slave will put it: `push` and `insert` count
      addresses separately from the lists, and this is what ties them.
    - `GroupsInv`: a group holds what its mapping had (`Holds`), its entries are below
      the top of the memory allocated, and those of two groups are apart.
    - `ConfiguringInv`: for a slave that a `configure` works on, everything the group says
      is in the slave, or left to write from where the slave is in each list, sync manager
      and FMMU entry (`Leftover`, with `Stage`). A step does one write of one list; that
      it leaves the others alone, at any interleaving of the HashMaps' order, is
      `Remains` over the sequence of writes.
    - `MemoryInv`: an FMMU entry in a slave is the one a live group gives it there, or
      maps no byte of a live group: what dropped groups, failed calls and former
      configurations left does no harm, since memory allocated never comes back.
- `FieldsIndependentHolds`: `FieldsIndependent`, for data of any size, any types, and bit
  buffers of any size. A byte field is a slice of the packed bytes. A bit field is written bit by bit,
  each one a division and a sum on its byte, so the proof goes by the weight of bits: setting
  one bit leaves the others of its byte (by what a byte is, modulo and above each
  weight), and an induction on the number of bits set gives the whole field.

`CanSdoProofs`:

- `WriteInOneRequest`: arithmetic on the sizes of headers; it is what allows CanSdo to
  leave segments of writes out.
- `Exclusion`: a call in a transfer holds the lock, for any slave.
- `AcknowledgesOwn`, `ReadsAreFresh`, `FailuresAreOwn`, `MailboxUse`: the
  properties `WriteStored`, `ReadFresh`, `FailsForCause`, `OneOutstanding`, and `PanicSizes`,
  that no other sizes panic than those of *Also found*, which suppose that no call was dropped and no unexpected mail came
  (`Calm`; see *Also found* for what happens else). They rest on one invariant,
  `Ordered`: the only mail in the mailbox is the request of the call that holds the lock,
  or its answer (`Answer`), and the transfer of the server is that of the call between
  its two mails. `CalmStep` gathers what calls return under it.
- `LargeWritesFail`: a call that writes more than a mail holds never sends its request, disturbed or
  not: the sizes that `cansdo_sizes` finds are not served at all.
- `ReadsAreWhole`: `ReadWhole`, for *any* errors, dropped calls, exceptions and
  emergencies. Responses may then be those of earlier calls, any number of mails late. The
  invariant `WholeInv` is on adjacent mails: what follows the first response of a
  transfer, in the mailbox (`Queue`) or after the one that a call has taken (`Begins`),
  is no segment, or the segment that continues it; and if the last mail begins a
  transfer, the server is where this mail left it.

`SiiProofs`, for any calls, sizes of chunk, contents, failures and dropped calls:

- `TypeCorrect`, with the form of the call in progress (`CallForm`).
- `CauseOfRefusal`: `RefusedForCause`. `RefusalInv` follows the flag `locked` through the
  await of an owner change (`FlagTrue`), and the command at work through the end of its
  call (`WorkOf`).
- `WritesArePrefixes`: `WritePrefix`, what a write has stored is, at any moment, a prefix
  of its data, even when it fails and its last command is executed later. Its
  invariant `WriteInv` relates the EEPROM, the slice in progress and the command left at
  work, which may be of an earlier call.
- `ReadsAndWritesExact`: `OutcomesExact` of reads and writes. `ReadInv` says that
  what was read so far are the bytes at the address of the slice, for odd addresses and
  lengths as well.

The last two suppose `NoWrap` (the build panics on overflows, or no request goes past the
last address: wrapping is a loss of data that the release build has) and `WritesInside`
(writes stay within what the EEPROM stores: the model, as a device, has no room beyond).

`SocketsProofs`, for any traffic:

- `FramesReachable`: `FrameReachable`, from the inductive fact that a place of the code
  which may clear a flag has it set, and has seen the kernel empty or remembers the event
  that came since (`fresh`).
- `TypeCorrect`.

`MailboxProofs`, for any number of requests and losses:

- `TypeCorrect`; `ExecutedOnce`: `ServedOnce`, with exceptions, cancelled requests and
  any loss. The strengthening (`Once`): the area holds the last request served or a
  later one, and a mail with the number of a request has its counter.
- `WritesDelivered`: `WriteDelivers`, assuming no request is dropped (`Abandon = {}`;
  seven dropped in a row refute it, see *Also found*). Counters are those of the number
  of requests modulo 7 (`CountOf`), and no request is skipped (`Delivery`), hence the
  counter of a new mail is the next one, which differs (`CountNext`).
- `Implements`: the refinement of `Rpc` and `OwnResponse`, assuming `Reliable`: no dropped
  request, no exception, and the acknowledge of a mail is not lost; each is needed, see
  *Also found*. `Exchange` follows the response of the last request: no other one is
  left in the areas when a request is made, and `repeat` brings back only that one.

`MasterProofs`, for any tasks, slaves, addresses and losses:

- `TypeCorrect`, with the form of calls in progress (`Form`).
- `OwnersApart`, `AddressesReach`, `BookHolds`: the properties `OneOwner`, `ReachesOwn`,
  `BookExact`, from `Order`. None is inductive alone: that two instances have two
  slaves rests on the book being exact and addresses reaching one slave each, and
  these rest on the former when an address changes. `Order` also follows what is in
  flight: the address written to the slave and not yet in the book (`Target`), and the
  fixed address that `Slave::new` read and did not register yet (`NewReaches`).
  `OrderRegister` is the heart: why the lookup after the await is enough.
- `SwitchHolds`: the action property `SwitchReachesAll`, for any number of slaves. The
  broadcast read of `Master::switch` gathers flags, and a state is one flag
  (`ConstantsAssumption`): what is gathered is that flag only if no slave has another
  (`GatheredTells`). Only the read that finds no error goes from polling to success
  (`SwitchedBy`), with the target the call began with (`Form`). When it finds errors, it goes to
  read their codes with what was gathered (`seen`), and succeeds if no slave has one and `seen` is
  the target: that read too was made when all slaves were in the state.
- `ClockTopologyHolds`: `ClockTopology`, for segments of any number of slaves and any tree of
  theirs. By induction on the slaves plugged so far: the stack is the path from the root to the
  last slave, and the topology is the tree restricted to the slaves so far. That the last slave of the
  stack with a free port is the parent of the next slave, and the first free port the one it is
  plugged to, is where the order of arrival is needed: whatever is below a port
  of a slave comes before what is below the next one, and after the slave.
- `ClockDelaysHolds`: `ClockDelays`, for any delays of cables, any times of the clocks, and any
  offsets. No part of a trip exceeds the whole, hence `Width` (`TripAssumption`), so that
  differences of wrapped stamps are exact; the way to a slave and back is twice its cable, the
  port before is what the frame did in the other branches, and delays add up along the
  path. All slaves have a clock: with others it is false (`MixedDelaysExact`). What slaves
  hold (`HeldHold`) follows for any of them that miss their delay or are not heard. Offsets
  (`OffsetHolds`): what is measured is what the times are apart although they wrap
  (`MeasuredIs`), and a sync moves by the error over `Div`, rounded up or down by truncation,
  which never goes past the measure.

Sums over sets, and concatenations of sequences of sequences, need induction. The
induction theorems of the library take an operator as a parameter, which the provers here
cannot instantiate; `Induction` of AllocatorProofs, MappingProofs and MasterProofs is the same
principle stated on a *set* of numbers, derived from the well-foundedness of `<`, and suffices
for what a recursive function gives at each of its arguments. A recursive function is a
`CHOOSE`: that one exists which satisfies its equation is itself proved, from
functions on the numbers below each argument.

Model-checked only:

- the walks of Sii (`OutcomesExact` for `strings` and `generals`), which are about how
  categories of any content are laid out;
- all liveness: TLAPS cannot prove liveness under fairness or facts about ENABLED here.

## 5. Plan

Done, in this order: RawMaster, since everything goes through it; Allocator, the
other shared structure; Mailbox with its abstract service; Mapping; CanSdo above
the service of Mailbox; Sockets, which deliver what RawMaster assumes; Sii; Master with
the ownership of slaves and the clock; Fields; `PduExchange`.

Left:

1. Mailbox and Sii above `PduExchange`, instead of the `Fate` of a PDU.
2. Sii composed with Master through the switch of state, which needs the EEPROM
   released.
3. Proofs: the walks of Sii.

## 6. Not modelled

- `registers.rs`, `sdo.rs`, `eeprom.rs`: layouts; `error.rs`. Their bits and modes
  are in the components which use them.
- `Mailbox::new`, the two register writes before any mail.
- `Slave::init_sync`, five register writes and an arithmetic of times; `reset_logical`
  and `reset_mailboxes`, a broadcast after the same check as `reset_addresses`.
- Clock: `init_offsets`, and the divergence of clocks over time, which is that of
  hardware. Samples are all alike in the model: means are not.
- In what is modelled: the contents of data (values are named by their origin, but in
  Sii and Fields); 16-bit lengths of FMMU entries; `pdo_read`, `info_*`,
  `informations` and the like, which are `todo!()`.
