# stm32-vibe in TLA+

A verification project for the dual-slot bootloader and the application
platform of stm32-vibe (STM32L1 and STM32F4): what happens to the images and
to the boot-state record when boots, updates, confirmations, watchdog resets,
flash errors and power losses come in any order.

- [The system](#the-system)
- [The modules](#the-modules)
- [The properties and the runs](#the-properties-and-the-runs)
- [Disagreements found](#disagreements-found)
- [The proofs](#the-proofs)
- [What is only model-checked, what is not modelled](#what-is-only-model-checked-what-is-not-modelled)
- [Plan](#plan)

## The system

The flash holds a bootloader, two application slots A and B, and a region with
two copies of a *boot-state record* (`boot_state_record_t`): a generation, the
active slot, the pending slot with its attempts, a status per slot and the
identity (version and CRC) of the confirmed and of the pending image. Everything
below is a loop on one processor; nothing is multi-threaded, but a reset can
fall between any two flash operations, and the host sends what it likes.

| Component | State | Operations | Talks to | What makes it correct |
|---|---|---|---|---|
| Boot-state record, slot policy (`boot_state.c`, `boot_policy.c`) | the record, a value | init, validate, select latest, confirm, select candidate, mark bad, mark pending, inactive slot | called by main, session, application | generations grow by one; three attempts; the slot an update erases is never needed |
| Boot-state store (`boot_state_store.c`, twice) | two flash copies | load, save_next (erase, program word by word) | flash controller | a save is atomic under resets; the record is not lost while the flash works |
| Boot path (`main.c`, `app_image.c`, `app_validation.c`) | record and candidate on the stack, handoff word in RAM | probe, select, save, validate, fall back, check vectors, relocate, jump | store, session, application (by reset and by RAM) | attempts are recorded before a start; a bad image is rolled back; the confirmed one always boots |
| Update session (`update_session.c`) | `boot_update_session_t` | BEGIN, BLOCK, END, VALIDATE, ACTIVATE, ABORT | slot flash, store, transports | what VALIDATE accepted is what ACTIVATE makes pending and what boots |
| Slot flash (`boot_flash_*.c`) | slot contents | erase by page or sector, program by word | flash controller | stays in the slot it was given; errors are reported |
| Platform runtime (`runtime.c`, `boot_confirmation*.c`, `health_supervisor.c`) | last report of health and progress, stable period, watchdog, millisecond counter | report, poll, feed | store, the application's callbacks | confirms only a healthy image, and only itself; an unhealthy one is reset |
| Update agent (`update_agent.c`), handoff (`update_handoff.h`) | agent stream, handoff word | ENTER_UPDATE | host, bootloader (through a reset) | the request reaches the bootloader exactly once |
| Codec and stream parser (`update_protocol.c`, `update_stream.c`) | parser state and buffer | push byte | transports | yields exactly the packets sent; resynchronises after noise |
| UART loop (`update_command.c`) | stream, output | bounded poll | stream, session | every packet is answered, none is lost between polls |
| CAN transport (`update_can.c`, `update_can_loop.c`, agent) | reassembly, transmit segments | frame in, frame out | stream, bxCAN | no packet is made of frames of two |
| Runtime relocation (`boot_runtime.c`), startup (`pic_startup*.s`), `boot_info.c` | GOT, vectors and boot handoff in RAM that no reset clears | relocate, jump, copy data, check the handoff | boot path, application | refuses what does not fit, moves each word once; the application gets its own tables and handoff |
| Trace (`trace.c`, `itm.c`), fault handlers (`fault*.c`), `decode_trace.py` | busy lock, the port's FIFO, the decoder's buffer | emit, abort, put, feed | main loop, interrupts, fault handlers, host | records do not mix, a fault is reported, nobody waits for the port |
| Host updaters (`uart_update.py`, `can_update.py`) | progress of one update | send, retry, time out | everything above | an update ends in success or in a report |
| Factory images (`boot_state_image.py`) | - | first record | store | a board starts from a record load accepts |
| Other HAL drivers, LED application, off-line tools | registers, files | - | - | - |

The hard behaviours: power fails between the erase and the programming of a
copy or in the middle of an image; a save fails and its result is ignored; a
second update starts before the first one is confirmed; verdicts (`valid`,
`complete`) are stale when they are used; an image hangs, or flaps, or cannot be
relocated; a reset leaves half-written tables to the next boot; a fault comes in
the middle of a trace record; the host repeats, forgets and reorders commands;
the millisecond counter wraps. `PROJECT.json` lists each at its line.

## The modules

| Module | Models | State and actions |
|---|---|---|
| `BootState` | `boot_state.c`, `boot_policy.c`, first records of `boot_state_image.py`, the choice between the two copies of a store | no state: one operator per function on a `BootRecord`, `CopyFor`, `LoadFrom` |
| `BootStateStore` | both `boot_state_store.c` | `copies` (flash), `job` (the save in progress): `StartSave`, `EraseCopy`, `ProgramCopy`, `EraseFails`, `ProgramFails`, `Returns`, `StoreReset` |
| `DurableRecord` | nothing in the code: what the store promises, an atomic record | `durable`, `call` |
| `StoreClients` | the store with its callers: load, one policy call, save, go on with the record in RAM or not | adds `ram` |
| `Device` | `main.c`, the session per successful command, confirmation, watchdog, update request, over `BootStateStore` | `pc`, `slots`, `boot_state`, `candidate`, `update_request`, `session`, `confirmed`; history `starts`, `attended` |
| `UpdateSession`, `MCUpdateSession` | `update_session.c` command by command, over slots of flash units (`boot_flash_*.c`) | `flash`, `record`, `session`; history `spoiled` |
| `Platform` | the application's `main` loop, `health_supervisor.c`, `boot_confirmation.c`, watchdog and SysTick | `pc`, `milliseconds`, `unfed`, `now_ms`, `healthy`, `supervisor`, `confirmation`; history `lap`, `sick`, `stable` |
| `PacketDelivery` | what both transports have in common: the packets, `update_protocol_decode`, what both promise | history `sent`, `delivered`, `faults` |
| `CanTransport`, `MCCanTransport` | `update_can.c`, its callers, `can.c`, and the host's reassembly of `can_update.py` | `fragmenter`, `mailboxes`, `fifo`, `reassembly`, `reassembler`, `outcome`, `returned`; history `fed` |
| `UpdateStream`, `MCUpdateStream` | `update_stream.c`, the receive register of `uart.c`, the polls of `update_command.c` and `update_agent.c` | `line`, `rx`, `buffer`; history `refused`, `claims`, `calm`, `due` |
| `HostUpdater`, `MCHostUpdater` | the command sequence of `uart_update.py` (and `can_update.py`) against the answers of `update_agent.c` and of the session | tool: `phase`, `image`, `next`, `waiting`; channel: `line`, `answers`; device: `mode`, `update_request`, `session`, `slot`, `activated`; history `runs`, `faults`, `fresh`, `undisturbed` |
| `BootRuntime`, `MCBootRuntime` | the end of `main.c`, `boot_runtime.c`, `app_validation.c`, `pic_startup*.s`, `boot_info.c`, `update_handoff.h`, step by step | `pc`, `flash`, `candidate`; RAM that stays: `ram`, `handoff`, `request`; `index`, `cpu`, `data_from`, `boot_info` |
| `TraceLog`, `MCTraceLog` | `trace.c`, `itm_putchar`, `fault_report.c` and its handlers, `FrameDecoder` of `decode_trace.py` | `level`, `trace_busy`, `record`, `rest`, `reports`, `escalated`; port and host: `line`, `probe`, `buffer`, `decoded`; history `reported`, `crcOf`, `fooled`, `begun`, `whole`, `log` |
| `BootState_proofs`, `StoreClients_proofs`, `Device_proofs`, `UpdateSession_proofs`, `HostUpdater_proofs`, `Transport_proofs`, `BootRuntime_proofs`, `Runtime_proofs` (the main loop and the tracer) | - | lemmas and theorems |

`Device` and `StoreClients` EXTEND the store; `UpdateSession` EXTENDS the record
only and saves it in one step, which the refinement proved of the store allows.
Both transports EXTEND `PacketDelivery`. A module whose proofs share a module with
another's names its specification after itself (`CanSpec`, `StreamSpec`,
`TraceSpec`).
`Device` lets an image's relocation succeed or fail by its membership in a
constant set (`BadRelocation`): `OutcomeIsTheImages` of `BootRuntime` is what
allows that, as the outcome depends on the image and not on what earlier boots
left in the RAM.

How data is abstracted:

- *Image identity.* The pair (software version, image CRC32) is a member of
  `Images`; the zero words are `NoImage`. In `Device` a slot holds such an
  identity or nothing valid; in `UpdateSession` an image is a sequence of units
  and a slot a function from units to contents, so that CRC validation becomes
  "the slot's prefix is that image" (a CRC without collisions).
- *Record validity.* Magic, version, size and CRC are one bit: a copy is a record
  or `NoRecord`. The erase destroys the first word, so every intermediate content
  of a copy is invalid.
- *Session ids* only decide whether a command is refused; refused commands change
  nothing, so they are absent rather than actions that stutter.
- *Time* is in `Platform` only, in ticks of a counter of `Modulus` values. In
  `Device` the watchdog fires exactly when the image never becomes healthy, and a
  healthy one reaches its stability period: what `Platform` shows of images that
  do not flap.
- *Packets* are sequences of units with a CRC without collisions: decoding accepts
  the members of `Packets` and nothing else. `CanTransport` keeps the length and the
  fragments, `UpdateStream` the sync marker and the length, whose bytes may also
  occur in payloads.
- *Trace records* are sequences of units likewise, one unit for a word; version and
  event id are one unit. Their CRC has eight bits and is not idealised: the check
  accepts the records there are and a set `Flukes` of sequences that no one traced,
  and a history variable, `fooled`, tells when the host has taken for a record what
  is not all of one record.
- *Addresses and words* in `BootRuntime` are numbers with the arithmetic of the code;
  RAM is the GOT and, behind it, the vector table, and a write past both hits the
  handoff, as in the memory map.
- *Generations* are naturals taken modulo `GenerationModulus` (2^32 in the code).

`Faulty...` operators stand before the operator they corrupt. Each is a slip the
code could have had (a reversed comparison, a dropped guard, an attempt that is
not counted); in place of the real one it breaks the property that `PROJECT.json`
pairs it with. They are used nowhere else.

## The properties and the runs

Bounds are constants of the modules; none is hidden in a guard. Each module's
`TypeOK` (`CanTypeOK`, `StreamTypeOK`, `TraceTypeOK`) is a conjunct of one of its invariants rather than a property of its own.

### store_power_loss (`StoreClients`)

All policy calls with two images, resets and flash errors between all steps, for
callers that go on with their record in RAM only after a save that succeeded
(`ChecksResults`): so do the session and the application. `main` does not: see
`device_power_loss` for it without flash errors, and [below](#disagreements-found)
for what it does with them.

- `RecordIsNeverLost`: no step makes both copies invalid once one was valid.
- `ImplementsDurableRecord`: the store refines the atomic record of
  `DurableRecord`, with `durable <- Load`.
- `StoreInv`: the inductive strengthening the proof uses, checked here first. Its
  conjunct `AcknowledgedIsLoaded` says that a save that returned success is what
  load returns.

`MaxGeneration = 5` lets each copy be written three times, with the rollback
after three attempts among the histories; the modulus of 16 is never reached.

### device_power_loss (`Device`, `FairSpec`)

Five images: two that work, one with bad vectors (`misplaced`), one that hangs,
one whose relocation fails. Power may fail at any step, slot erases may fail.

- `ConfirmedImageIntact`: the confirmed slot holds the very image that was
  confirmed and it runs, whatever update was interrupted where.
- `StartsAreOnRecord`: each start of an unconfirmed image is in flash before it
  happens; hence at most three starts whatever the resets.
- `PendingIsValidated`: what is pending is what its slot holds, or the slot was
  erased by a BEGIN that failed.
- `ConfirmsOnlyItself`: a slot becomes confirmed only by the healthy image that
  runs from it. The code confirms whatever slot the record calls pending, so
  this rests on the boot path never running one slot with the other pending.
- `RecordIsNeverLost`: as above, with `main`'s two saves of one record in RAM, an
  attempt counted and an image marked bad, and with resets between all their steps.
- `StaysProvisioned`: from the first confirmed application on there always is one.
- `DeviceInv`: the inductive strengthening the proof uses, checked here first: how
  the record, the save in progress, `main`'s copy of the record, the session and
  the slots relate between any two steps.
- `Settles`: if from some time on the host and the power supply do nothing, a
  provisioned device ends for good in a confirmed healthy application, in the
  update mode the host asked for, or in update mode with nothing pending. A
  hanging image goes through watchdog resets, three counted attempts, the mark
  and the start of the old image. An image whose relocation fails is excepted
  (`Stranded`): without the exception this is `RollsBack`, which does not hold.

`LastActivation = 4` allows two updates, accepted or rolled back, and so a return
to the slot the first started from. Record flash errors are off here
(`FlashErrors = FALSE`), and so is BEGIN while an image is pending: two of the
violation runs show what they do.

*Fairness.* Weak fairness of the boot path, of the application's own steps
(confirmation, watchdog), of the end of update mode and of the flash controller:
the processor executes its only loop and the independent watchdog runs off its
own oscillator. The host and the power supply owe nothing, so no fairness is
given to `Host` and `PowerLoss`; the premise that they stop at last is part of the
property and speaks of actions, not of a bound.

### host_update (`MCHostUpdater`, `FairSpec`)

The tool is run three times, each time with either image, and three things go
wrong: a request or an answer is lost, an answer comes after the timeout, a flash
operation fails, power fails, or somebody stops the tool. The device is a
bootloader or an application, or starting and deaf in between.

- `SuccessIsReal`: when the tool reports success, the image it was given is the one
  made pending. The converse does not hold: a lost answer to ACTIVATE is reported
  as a failure.
- `HostInv`: the inductive strengthening the proof uses, checked here first. Its
  conjunct `InStep` says that once the bootloader has been found, no answer is taken
  for that of another command. This is what the sequence numbers of DISCOVER are
  for: a run that has fallen an answer behind never finds its match, unless an answer
  is lost, and ends without an update, as nothing empties its input.
- `RetrySucceeds`: a run that nothing disturbs succeeds, whatever the runs before
  it left, half a transfer with its session included.

`InStep` and `RetrySucceeds` speak of runs that begin with nothing on its way
(`fresh`). The session id is the same in every run, so answers that outlive an interrupted run fit the next one;
after two interruptions at the right places the tool is an answer behind.

*Bounds.* `EnterTries = 5` as in `main`; `DiscoverTries = 3` stands for the ten
seconds of the deadline, five timeouts or more. *Fairness:* weak for the tool and
for the device. *Assumption:* a start is shorter than the timeout of two seconds
(`Due`). Deadlock is not checked: after the third run nothing is left to do.

### session_commands (`MCUpdateSession`)

Slots of four half-word units, pages of two, blocks of one or two, images of two
and three units (so a last block ends within a word), both flash families'
erase granularity being an instance of `PageUnits`. Any command at any time;
erases and writes may fail after any page or word; power may fail there too.

- `SessionInv`: the inductive strengthening the proof uses, checked here first.
- `CandidateIsAnnounced`: while a verdict stands, the target slot holds the
  announced image.
- `PendingIsWhole`: a pending image is whole in its slot until it is decided on.
- `ConfirmedSlotUntouched`: while nothing is pending, nothing is written to the
  slot the device falls back to.

Two of these except slots that a *failing* BEGIN erased (`spoiled`): `handle_begin`
returns before it touches the session, so the former verdict stands over a slot
that is now erased, and ACTIVATE makes it pending. It fails validation at the next
boot and is marked bad, so no promise of the device is broken by it.
`LastActivation = 2` lets ACTIVATE
follow an activation, a boot and another transfer.
The first block of an image can differ from the one of the others or be shared,
so contents mixed of two images occur.

### platform_clock (`Platform`, `FairSpec`)

The loop reads the clock once and uses that value after calls that take time; a
`Tick` may fall between any two of its steps, `app_is_healthy` may answer
differently each of the two times it is asked, `app_process` may hang, and the
save that confirms may fail.

- `ConfirmsAfterStablePeriod`: a confirmation comes only after the whole period
  without a poll that found the application unhealthy, measured by a history
  variable that does not wrap.
- `ResetsForAReason`: the watchdog resets only what hung, failed to start, was
  reported unhealthy since the last refresh, or took half the timeout for one of
  its last two iterations.
- `LoopInv`: the inductive strengthening the proof uses, checked here first: what
  the readings of the clock and the refreshes of the watchdog are worth.
- `SickIsReset`: what stays unhealthy, or hangs, is reset.
- `HealthyIsConfirmed`: what stays healthy is confirmed, unless it hangs or is reset.

An application that flaps satisfies the premise of neither liveness property, and
nothing else ends its trial: that is how the code is, and a hazard in
`PROJECT.json`.

`Modulus = 11`, `WatchdogTimeout = 3`, `Stabilization = 4`: the counter wraps
within and between the periods at every phase. The module assumes that an interval
the loop measures is shorter than a turn of the counter (49 days); the watchdog,
whose timeout is more than one tick, sees to that. *Fairness:* weak for `main` as long as it has not hung, for the two
counters, which hardware advances, and strong for the save that confirms: the
flash does not refuse every save for ever.

### can_frames (`MCCanTransport`)

Four packets of two and three fragments, with and without padding, three sent one
after the other (also before the first is received), two faults: a frame lost,
repeated or overwritten in the full FIFO, or a packet broken off because
`can_send` ran out of retries.

- `DeliversUnbroken`: a packet whose frames arrive one after the other is
  delivered, whatever arrived before.
- `CanInv`: the inductive strengthening the proof uses, checked here first. Its
  conjunct `ReassembliesAgree` says that `update_can_reassembly_feed` and
  `PacketReassembler.feed`, written differently in two languages, agree after every
  frame; `AtFragments` that the sender and the device are at the boundary of a
  fragment.
- `DeliversWhatWasSent`: the delivered packets are a subsequence of the sent ones.
- `DeliversAllWithoutFaults`: in-order mailboxes (`TXFP`) suffice for delivery.

The packets are chosen so that the fragment of one fits in place of another's:
such joins happen and only the CRC refuses them. Two of the packets share their last
frame, as real ones may, whose last frame holds one to three bytes of the CRC. That
fragments of several packets make none that is not one of these (`MixturesTell`, a
hypothesis of one theorem: the CRC-32 is not right by chance) is evaluated here. Three packets are a broken one, the
one it disturbs, and the next. Nothing is sent again here, so the system stops
once everything is sent: deadlock is not checked.

### uart_stream (`MCUpdateStream`)

Bytes go through a receive register for one byte; it overruns when the poll is
late. Up to three bytes are lost or made up while up to four packets are sent.

- `StreamInv`: the inductive strengthening the proof uses, checked here first. Its
  conjunct `AwaitsOnePacket` says that at rest the buffer holds the beginning of one
  packet that will fit, so `update_stream_feed` never has to make room in a full
  buffer; `ArrivesInOrder`, that on an undisturbed line the packets not yet
  delivered are under way, whole and in order.
- `DeliversWhatWasSent`: as above, with payloads that hold the sync marker or its
  first byte. That the CRC of a packet is found nowhere else (`CrcTells`, the
  hypothesis under which this is a theorem) is evaluated here.
- `Resynchronizes`: once packets without a false header, one after the other and as
  many bytes as the buffer holds, have passed since the last fault, the parser is in
  step and stays so: every packet is delivered until the next fault, false headers in
  it or not.
- `RefusesOncePerFault`: one disturbed byte causes at most one refusing answer, and
  each false header in what was sent one more.

A *false header* is a sync marker inside a packet with a length behind it that fits
(`FalseHeaders`). Real traffic has many markers and few false headers. The default
session id of `uart_update.py`, 0x55445731, puts the marker at offset 10 of every
request; the length a parser would read there is that of the first two payload bytes:
the size of the image in a BEGIN, the CRC in a packet without payload, and in a BLOCK
the first two bytes of the block. It fits when they are at most 128, as where a block
begins with zeros; otherwise the parser gives the marker up at once. So the default
requests are as the third of the four packets here, and some blocks as the fourth,
which is one false header after the other. The premise of `Resynchronizes` is a run
of 148 bytes of the former kind. It cannot be dropped: when a byte of the fourth packet
is lost, and only such packets follow, each time the marker inside one is taken for a
header and swallows the beginning of the next, and none is delivered for as long as
they come.

Payloads up to four units, so a false header can swallow a whole short packet;
four packets are a disturbed one, two that fill the buffer, and the one that must
arrive. Deadlock is not checked for the same reason.

### boot_runtime (`MCBootRuntime`)

Two slots of six words and twelve images: four that can be moved, with the limits
of each check among them (a GOT word equal to the image size, a handler in the
last word, an unused vector, the vendor's `BootRAM` vector, no GOT), one linked to
slot A, and seven with one fault each. Any image may be installed, any slot chosen,
and a reset or a power loss falls between any two words that are written.

- `RuntimeInv`: the inductive strengthening the proof uses, checked here first.
- `TablesAreRebased`: an application starts with the vectors and the GOT of its own
  image, each word moved once to its own slot, whatever the RAM held before.
- `RunsInItsSlot`: entry point, handlers and stack of what runs are within bounds.
  No single check in the code says so: `app_validation.c` looks at two words,
  `boot_runtime.c` at the others.
- `AppKnowsItself`: the startup code copies `.data` from the running image, and the
  application finds the handoff of this boot. `main` writes it before it relocates,
  next to the tables, and the startup code does not check it.
- `OutcomeIsTheImages`: relocation refuses an image exactly when it cannot be moved.

`MaxResets = 2` gives three boots, the last over the RAM of two others, which also
suffices for an application that asks for update mode and the boot after it. The
module assumes that slots have even and different bases and that the vendor's
vector is no offset into an image. No fairness: nothing here must happen. Deadlock
is not checked, as an application may run on.

### trace_records (`MCTraceLog`, `FairTraceSpec`)

Two records of the main loop or of an interrupt and the three of a fault report;
two resets or faults, the second one perhaps within the handler of the first, which
escalates to HardFault and starts the report over (`escalated`; a third one would lock
the processor up until the watchdog resets it). A trace port with room for one byte may
refuse one even when a probe reads it, and all of them when there is none. Arguments
are the sync marker, its first byte, and a CRC that looks like what follows one.

- `LockInv`: the lock is held exactly while a context is in the tracer, and the
  fault handler finds it free. It is inductive; the proof uses it as it is.
- `DecodesTheLog`: the host decodes only records that got the lock, in order, none
  twice, and all that were put whole: what is broken off or loses a byte never
  takes a neighbour with it.
- `FaultIsDecoded`: the report of a fault, none of whose bytes was dropped
  (`reported`), has been decoded when the device stands still, although it began in the
  middle of another record and whatever was lost before. It is not held back until a
  next record comes, which there never is: the header of the record that was broken off
  claims too many bytes, but no more than the report brings.
- `NeverStalls`: with no probe and a full port the main loop still leaves the tracer
  and the fault handler ends, because `itm_putchar` gives up.

The second and the third hold until the host has been *fooled*: until bytes that are not
those of one record, with its CRC last and no other in it, have passed the check. The
CRC has eight bits, so one broken record in 256 does; the host then shows a record that
nobody traced, and what it swallowed is lost. That is no promise the code could keep,
but within the bounds it happens (`Flukes` has the head of a record with the beginning
of a report behind it, and two records share a CRC), and both properties fail without
their premise. What the premise does not hide is the decoder's own doing: it must
recover from every broken record that fails its check.

No interrupt handler of the repository traces today; the lock is there for one
(`critical_section_enter` around it), and the module has one. A port that was not set
up, `itm_ready == 0` in itm.c:62, drops all bytes at once; the code sets it up before
each first record (main.c:223, runtime.c:43, fault_stm32l1.c:28), so this is not in the
module. *Fairness:* weak for the tracer's next step, as the processor runs on, and for
the host's reading when a probe is attached, not otherwise. Deadlock is not checked: a
fault handler ends in a loop that does nothing. The module evaluates `LongReports`, the
hypothesis of one theorem.

## Disagreements found

Each is a run that expects a violation.

| Run | Property | What happens |
|---|---|---|
| `begin_while_pending` | `ConfirmedImageIntact` | `boot_policy_inactive_slot` takes the pending slot for the running one; a BEGIN before confirmation erases the confirmed image, which the update plan says must stay untouched. A unit test pins the code's choice. |
| `flash_error_confirms` | `ConfirmsOnlyItself` | `main` ignores the result of its saves; when the one that marks an image bad fails, the old application starts and then confirms the bad one. |
| `relocation_failure` | `RollsBack` | an image whose relocation is refused stays pending and the device stays in update mode, against the promised rollback. |

The ignored results have one more consequence, which `Device` also has: with
`FlashErrors` and `SlotErrors` it violates `RecordIsNeverLost`. A BEGIN whose erase fails
leaves its former verdict standing, so that ACTIVATE makes an erased slot pending. At the
next boot `main` counts an attempt; that save fails (line 245), and from the same record
in RAM `main` saves the mark of a bad image (line 268). Its generation is two ahead of the
one in flash, so the copy it erases is the only valid one; an error or a reset before it
is programmed leaves none, and the confirmed image is forgotten. The plan wants
that 'interrupted writes cannot brick the device' (fw-update-can-plan.md:161).

Two smaller ones have no run. With a blank record region `main` starts a valid image
it finds in slot A, while README.md:121 has it stay in update mode until the first
download: `Device` shows the same by `SelectBootSlot`, whose default record has slot
A active. And a BEGIN whose erase fails leaves the former verdict standing (see
`session_commands`).

On repeated blocks code and plan agree. fw-update-can-plan.md:313 accepts a duplicate that
matches what is written: `handle_block` compares it with the slot and answers OK
without a write (update_session.c:70-86, test_update_session.c:28); a changed one and
one that overlaps the end of what was received are refused, as
platform-improvement-roadmap.md:306 has it. Neither changes anything, so
`UpdateSession` has no action for them; that they never write is what its guard
`IsNext` says, and its mutant breaks it.

## The proofs

All theorems hold for every value of the constants that satisfies the ASSUMEs of the
modules. Where a theorem needs more of the constants it says so in a hypothesis of its
own, and the module of the run that checks the property evaluates that hypothesis for
its constants. TLC checks the inductive invariants as invariants of the runs, save those
that are stated beside their proofs: `LineInv`, `OriginsInv`, `InStepInv`, `RefusalsInv`,
`NothingIsLost`, `FrameOrigins` and `AccountsInv`, most of which say that a function
exists.

### The store

`StoreClients_proofs`, for every set of images, every modulus and every
generation bound below it, and every interleaving of steps, resets and errors:

| Theorem | States |
|---|---|
| `StoreInvariant` | `Spec => []StoreInv` (type correctness is a conjunct) |
| `AcknowledgedSavesAreDurable` | `Spec => []AcknowledgedIsLoaded` |
| `RecordSurvives` | `Spec => RecordIsNeverLost` |
| `StoreImplementsDurableRecord` | `Spec => ImplementsDurableRecord` |

*Assumptions.* The constants' ASSUMEs, among them an even modulus and
`MaxGeneration < GenerationModulus` (the flash wears out before 2^32 saves), and
`Disciplined == ChecksResults \/ ~FlashErrors`: callers go on with the record in RAM
only after a save that succeeded, as the session and the application do, or the flash
reports no errors. The bootloader's `main` is the caller that does not check: with
flash errors it is outside these theorems and can lose the record
([Disagreements found](#disagreements-found)); without them `DeviceKeepsItsRecord` is
the theorem about it.

*Argument.* That load returns the last saved record is not inductive: nothing in
it says which copy an erase hits. `StoreInv` adds that a generation's parity says
which copy holds it, and that the record being saved has the successor of the
loaded generation. Then the copy being erased has the other parity than the
loaded record: it is never the one that counts (`EraseKeepsLoad`), and once
programmed it is the newer of the two (`ProgramSetsLoad`). The step simulation has
one case per action: `EraseCopy` maps to a stutter, `ProgramCopy` to `Commit`,
`ProgramFails` and `EraseFails` to `Fail`, and so on.

`BootState_proofs` has the lemmas on the policy: every operation yields a
`BootRecord` and advances the generation by exactly one or not at all; and those on the two copies.

### The device

`Device_proofs`, for every set of images of each kind, every number of updates and
every point at which a reset cuts a boot, an update or a save short:

| Theorem | States |
|---|---|
| `DeviceInvariant` | `Spec => []DeviceInv` (type correctness is a conjunct) |
| `FallbackIsIntact` | `Spec => []ConfirmedImageIntact` |
| `StartsAreLimited` | `Spec => []StartsAreOnRecord` |
| `PendingStaysValidated` | `Spec => []PendingIsValidated` |
| `OnlyTheRunningConfirms` | `Spec => ConfirmsOnlyItself` |
| `ProvisionedForGood` | `Spec => StaysProvisioned` |
| `DeviceKeepsItsRecord` | `Spec => RecordIsNeverLost` |

*Assumptions.* `Careful == ~FlashErrors /\ ~BeginWhilePending`: the flash record
reports no errors and no update begins while another awaits its confirmation. Without
the first, `flash_error_confirms` refutes `ConfirmsOnlyItself`, and `RecordIsNeverLost` does not hold
either; without the second,
`begin_while_pending` refutes `ConfirmedImageIntact`. Erasing a slot may still fail.
The generations reached stay below the wrap (`LastActivation + 5 < GenerationModulus`).

*Argument.* None of these properties is inductive, as `main` and the session act on
what they read some resets or commands ago. `DeviceInv` has four parts more.
`SavesItsChange`: a save in progress writes one definite change (a counted attempt, a
mark, a confirmation, an activation) of the record that is loaded *now*.
`BootIsOnRecord`: `main`'s copy is the record in flash, or the one on its way
there, and the slot in hand is the one it selects. `SessionIsAside`: the target of the
session is never the confirmed slot, and once pending it is not written.
`StoreIsSound` is what the store gives without errors. The step that needs them is
the programming of a copy, the only one that changes `Load`: by
`SavedRecordHolds` the record being saved already fits the slots and the starts as they
are, so it does not matter on which side of that step power fails. All other steps
leave `Load` alone, and then only what they write themselves is left to check. That the
record being saved is one generation ahead of the loaded one is also why the copy it
erases is not the one that counts (`WriteKeepsAValidCopy`).

### The main loop

`Runtime_proofs`, for any width of the millisecond counter, any timeout and period,
and whatever the application's callbacks answer:

| Theorem | States |
|---|---|
| `LoopInvariant` | `Spec => []LoopInv` (type correctness is a conjunct) |
| `ConfirmationIsEarned` | `Spec => ConfirmsAfterStablePeriod` |
| `ResetsAreDeserved` | `Spec => ResetsForAReason` |

*Assumption.* The counter's turn is longer than the period and twice the timeout together
(`PlatformAssumption`).

*Argument.* `now_ms` is stale by the length of the iteration, and the watchdog bounds
that, so the unsigned difference of the two is that length whatever the
wrap (`LoopInv`). The difference that measures the healthy period is the true length
of the period until that reaches `Stabilization`; after it, with saves that keep
failing, the difference may wrap, and this is harmless because the period has passed.
An iteration with no bad report feeds, so the time since the last refresh is at most
that of the current and of the last iteration.

### The update session

`UpdateSession_proofs`, for all images, slot, page and block sizes, any errors and
any first record that has nothing pending:

| Theorem | States |
|---|---|
| `SessionInvariant` | `Spec => []SessionInv` (type correctness is a conjunct) |
| `VerdictIsOfTheSlot` | `Spec => []CandidateIsAnnounced` |
| `PendingStaysWhole` | `Spec => []PendingIsWhole` |
| `ConfirmedSlotStays` | `Spec => ConfirmedSlotUntouched` |

*Assumptions.* No image is a prefix of another, which is what the size in the
manifest comes to; the page size divides the slot's.

*Argument.* `OnlyBeginTargetIsWritten`: no step, failed or interrupted ones included,
writes to a slot that BEGIN would not choose now. For BEGIN that is its definition;
for a BLOCK it is not, as it writes to the target the session has kept since its own
BEGIN, and the record may have changed. So `SessionInv` says that the two are the
same as long as there is no verdict, and that with a verdict everything has been
received, so that no block is next (`NextBlockIsForBeginTarget`). ACTIVATE, which
moves BEGIN's choice to the other slot, needs a verdict. The rest follows: the
pending slot is never BEGIN's choice (`BeginTargetType`), nor is the confirmed active
slot while nothing is pending (`BeginTargetIsNotConfirmed`), and what a boot does to
the record makes nothing pending (`BootKeepsPending`).

### The end of the boot

`BootRuntime_proofs`, for any images, addresses, table sizes and resets:

| Theorem | States |
|---|---|
| `RuntimeInvariant` | `Spec => []RuntimeInv` (type correctness is a conjunct) |
| `StartsRelocated` | `Spec => []TablesAreRebased` |
| `StaysInSlot` | `Spec => []RunsInItsSlot` |
| `KnowsItself` | `Spec => []AppKnowsItself` |
| `RelocationIsDecided` | `Spec => OutcomeIsTheImages` |

*Argument.* The tables are right only when the loop has ended, and the handoff is
written before the loop begins. `RuntimeInv` says how many words are right at each
index and that the handoff is still the one of this boot: a write of the loop stays
within the table it is for, as the sizes were checked, so it disturbs neither the
words before it nor the handoff. That `main` checked the vectors and that relocation
checked the others together bound what runs.

### The host tool

`HostUpdater_proofs`, for any images, any number of tries, runs and
faults:

| Theorem | States |
|---|---|
| `HostInvariant` | `Spec => []HostInv` (type correctness is a conjunct) |
| `SuccessOfAFreshRun` | `Spec => [](fresh => SuccessIsReal)` |

*Argument.* `InStep` says nothing of what the tool does before it has found the
bootloader, when it sends the same command again and answers pile up. `HostInv` adds
that whatever is on its way then is an earlier command of this run, or the answer to
one, and that the current one comes last (`MatchComesLast`). The tool reads them in
order and takes only the current one, so when it has found the bootloader nothing is
left, and from there on there is at most one packet on its way (`OneAtATime`). Hence
the answer to BEGIN is that of this run, and the session holds this run's image from
there on, or is gone (`SessionIsOfThisRun`): a block, a verdict and an activation are
of that image.

*Premise.* `fresh`: the run began with nothing on its way. Every run uses the same
session id, so the answers of an interrupted run fit the next, and enough
interruptions at the right places leave a chain of old answers that ends in that to
an old ACTIVATE. Within the bounds of `host_update` TLC finds no false success in
other runs either; for any number of faults there is none to prove.

### The transports

`Transport_proofs`, for all packets, chunk sizes, lengths and bounds:

| Theorem | States |
|---|---|
| `StreamInvariant` | `StreamSpec => []StreamInv` (type correctness is a conjunct) |
| `LineDeliversWhatWasSent` | `StreamSpec => [](faults = 0 => DeliversWhatWasSent)` |
| `NoisyLineDeliversWhatWasSent` | `CrcTells` implies `StreamSpec => []DeliversWhatWasSent` |
| `OneRefusalPerFault` | `StreamSpec => []RefusesOncePerFault` |
| `ParserIsBackInStep` | `StreamSpec => []Resynchronizes` |
| `CanInvariant` | `CanSpec => []CanInv` (type correctness is a conjunct) |
| `UnbrokenIsDelivered` | `CanSpec => []DeliversUnbroken` |
| `EveryPacketArrives` | `CanSpec => []DeliversAllWithoutFaults` |
| `BusDeliversWhatWasSent` | `CanSpec => [](faults = 0 => DeliversWhatWasSent)` |
| `FaultyBusDeliversWhatWasSent` | `MixturesTell` implies `CanSpec => []DeliversWhatWasSent` |

*Assumptions.* Those of the two modules on `Packets`, which hold together: encoded
packets are sequences of numbers that begin with the marker and have a length in the
range. The theorems on the stream use those of `UpdateStream` only, and those on the
bus those of `CanTransport`. Two have a hypothesis more, which is what a CRC-32 is for: the
last unit of a packet is found in no other packet and in no noise (`CrcTells`), and
fragments of several packets one behind the other make no packet that is not one of
these (`MixturesTell`). Without it noise can spell a packet, and fragments of two packets
can make a third one that is in `Packets`. Both idealise a CRC over the packets that are
sent, a finite set.

*Argument, stream.* One byte is added to the beginning of one packet. If it is not of
the packet the header announces, the parser drops something and what is left begins
at the first marker again (`StreamInv`); it is then shorter than any packet, or it
has been cut to what its own header leaves. On an undisturbed line the byte is the
next one of the packet in hand, so nothing is ever dropped: `ArrivesInOrder` says how
the buffer, the register and the line together are the packets not yet delivered, at
most two of them.

That a fault makes at most one refusal needs no sum over bytes. `RefusalsInv` counts the
markers for which the parser may yet refuse something (`Doubtful`): those that a packet
does not follow and whose length, if it is there, fits. A false header is one of them
when it is sent, and stays one until it is dropped. What is refused is dropped as a whole,
with the marker at its beginning, which was doubtful; nothing of it is left to be
refused again. So a false header pays for one refusal as long as it has not been dropped,
and a fault for one of the buffer that it came into.

That a noisy line delivers only what was sent rests on the last byte: the one that
makes the parser accept a packet is the packet's CRC, which only the sender of this
packet can have made. `OriginsInv` says for which packet sent the byte in the register
would be the CRC, and that this packet is behind all that were delivered; so each one
is delivered at most once and in order.

`Resynchronizes` has three phases in `InStepInv`. As long as all that is calm is in the
buffer, the register and the line (`Behind`), it is shorter than the buffer, so `due` is
false. The first drop leaves a parser that is in step (`Delivering`), or one that has in
hand the rest of a packet whose beginning is lost (`CutOff`): a marker in it, the default
session id's among them, is given up with the length behind it, so that at the end of
the packet nothing is left but perhaps the first byte of a marker. From then on a
packet finds an empty buffer, and it does not matter what markers it has inside.

*Argument, bus.* The offsets of the fragments are sums of unequal chunks, and their
number is a rounded quotient; the lemmas on `OffsetOf` and `CountFor` say that the
last fragment, and no other, reaches the end. With these, a frame takes the device
from one boundary of a fragment to the next or ends the packet, and the two
reassemblies, which cut off the padding in different orders, do the same with it
(`CanInv`). A packet that comes unbroken is followed fragment by fragment: after `k`
of them the reassembly holds the first `OffsetOf(k)` units (`Holds`), whatever it
held before, because its first frame starts afresh. On a bus without faults the
frames in the mailboxes and in the FIFO are consecutive fragments of consecutive
packets, from the one the device waits for to the one the sender makes next
(`NothingIsLost`). A FIFO that is full counts as a fault, so it stands outside the
premise. With faults the frames are still fragments of packets that were sent, in an
order that never goes back, and so are those in the reassembly, of packets that have not
been delivered (`FrameOrigins`). What it completes is then made of fragments of packets
sent (`MadeOf`), and by `MixturesTell` one of these (`DeliveredIsOneOf`). A frame that is
repeated comes again right away, when the reassembly is inactive and takes only a first
fragment.

### The tracer

`Runtime_proofs`, for any records, any reports, any port and any number of faults, resets
and dropped bytes:

| Theorem | States |
|---|---|
| `LockProtects` | `TraceSpec => []LockInv` |
| `RecordsAccountFor` | `TraceSpec => [](~fooled => AccountsInv)` |
| `HostDecodesTheLog` | `TraceSpec => []DecodesTheLog` |
| `HostDecodesTheReport` | `LongReports` implies `TraceSpec => []FaultIsDecoded` |

*Assumptions.* None on the CRC: what the check accepts besides the records (`Flukes`) is
any set. The three theorems hold until the host is fooled, which is part of the
properties. `LongReports`: the first two records of a report together are as long as any
header claims. In the code they are 19 and 15 bytes, and a header claims 23 at most.

*Argument.* `LockInv` is inductive because outside the fault handler an
interrupt runs to its end, so that the main loop and an interrupt are never both in
the tracer. Hence records begin one after the other, and every byte in the buffer of the
host and on the line is a unit of a record that was begun: `AccountsInv` says that
there are functions that name record and position of each byte, in an order that never
goes back, that what is decoded and what is logged are chosen from the records begun, in
order, that every logged record is decoded or still whole in the stream, and how far
the record in hand and the report are.

The decoder is a recursive function, of which nothing is known before it is shown that
there is one: `ScanExists` and `ScanIs` do this by induction from the end of the bytes,
and `ScanReads` says what it does with all of them: the records that it takes end where
it says, every byte that it drops is of no whole record, and what it keeps begins with
none. The history `crcOf` says of each byte whether it is a CRC and of which record. As
long as the host is not fooled a frame that it takes has its own CRC last and no other in
it (`Earnest`): it counts as the record whose CRC that is, and no other record that was
put whole ends within it. That is the step of `AccountsInv` for `Read`, and
`DecodesTheLog` follows.

What waits in the buffer is shorter than the longest record a header may claim and has no
whole record at its beginning (`WaitsForMore`). A record of the report that stayed
undecoded would be whole in there, behind a byte of an earlier one. That one is not of
the report, or it would itself be whole and at the beginning; so all of the report would
be there, of which the first two records alone do not fit (`LastDecoded`).

## What is only model-checked, what is not modelled

Only model-checked:

- liveness (`Settles`, `RetrySucceeds`, `SickIsReset`, `HealthyIsConfirmed`,
  `NeverStalls`): fairness and ENABLED are out of the prover's reach;
- `SuccessIsReal` of runs that begin with old answers on their way, within the bounds
  of `host_update`.

Where a CRC is right by chance, so that `CrcTells` or `MixturesTell` does not hold or the
host of the trace is fooled, nothing is claimed of what a disturbed line or bus delivers or
of what is decoded of trace records; the other theorems need none of the three.

Left out of what is modelled:

- trace output, pin and clock set-up, register sequences, version strings;
- what follows a CRC that is right by chance; content of manifests other than identity and size;
- how long a flash operation or the boot probe takes;
- what an image does with its stack: one that is not relocatable may start with a stack
  pointer up to the end of the RAM (app_validation.c:10), above the handoff and the
  update request, and overwrite both;
- bit timing, other nodes on the CAN bus; the options of the host tools;
- corruption of flash other than by an interrupted or failed operation.

Not modelled: the LED application, which shows the application contract and keeps no
state that matters to the platform; the set-up of pins, clocks and registers by the
HAL drivers; the options of the host tools and the frames of the USB adapter;
`ItmDecoder` and the format strings of the trace tool, `finalize_image.py` and the
rest of the file tools, which run to the end on files. Also open: how long a
flash operation takes against the watchdog, and one noisy byte during the probe,
after which the bootloader waits for a host without a timeout (the update plan
lists that as open).

## Plan

What would come next:

- Refinement, with the theorems it allows: the session of `Device` (one step per
  successful command) implemented by `UpdateSession`; a packet channel implemented by
  `CanTransport` and by `UpdateStream` without faults.
