# TLA+ models of the rust-foc firmware

rust-foc is the firmware of a B-G431B-ESC1 motor controller (STM32G431): a
field-oriented motor controller with a CANopen node, a UDS diagnostic server
and an over-the-air update on one side, and a serial shell that drives an
open-loop motor task on the other. This directory holds TLA+ models of its
control logic, the TLC configurations that check them on small instances, and
proofs of the central properties that TLAPS checks for every value of the
constants.

Everything runs on one core. Tasks are Embassy tasks on a single executor: they
interleave at `await` points only, and interrupts do no application work. The
hard behaviours are therefore not data races but *order*: state that is read
some ticks after it was checked, answers and notices that share one buffer,
retries against counters, resets and power losses between two flash
operations.

## 1. Inventory

| Component | Source | State | Operations | Interacts with |
|---|---|---|---|---|
| UDS engine | `uds-core/src/{table,pending,state,types,crypto}.rs`, `src/uds/*` | session, security level, seed, attempt counter, Idle/Pending, kept request, pending queue, two timers, response buffer, reset flag | 13 services through `dispatch_sid`, `pending::tick`, `take_response_pending`, `take_reset_request` | called by the CAN node, calls the OTA handlers and the DTC store |
| DTC store | `uds-core/src/dtc.rs` | eight fault slots | set, clear, clear group, report | UDS services 0x14 and 0x19, CAN node (bus timeout) |
| OTA handlers | `src/ota/mod.rs` | Idle/Receiving/Done, bytes remaining, next offset, running CRC, block counter, 8-byte buffer | 0x34, 0x36, 0x37, `write_swap_magic` | queued by the engine, writes flash |
| Flash driver | `src/drivers/flash.rs` | the flash itself | `erase_region`, `write_u64` | OTA, key store, boot confirmation |
| Key store | `src/key_store.rs` | one flash page of three keys | `init`, `store` | start-up, engine (masks) |
| Start-up, boot confirmation | `src/main.rs` | STATE page | `mark_booted`, spawns | bootloader |
| Bootloader | `bootloader/src/main.rs` (embassy-boot) | STATE, ACTIVE, DFU | swap, revert, boot | application |
| CAN node | `src/drivers/can/*` | NMT state, heartbeat period, last reception | receive, tick, heartbeat, NMT, UDS frames | engine, OTA and engine reset flags |
| Motor task, PWM | `src/tasks/motor.rs`, `src/drivers/motor_pwm.rs`, `src/motor/*` | command cell, ramp, PWM enable | periodic step, set/stop command | shell |
| Shell | `src/shell/*` | line editor, command cell | commands | motor task, reset |
| Heartbeat, watchdog | `src/tasks/heartbeat.rs`, `src/wdog.rs` | watchdog counter | pet | executor |
| FOC cascade and protection | `foc-algo/src/*` | mode, ramps, integrators, accumulators | `update`, `reset`, `align` | not yet wired into the motor task |
| Observer | `foc-algo/src/observer.rs` | angle, speed, PLL integrator, back-EMF filters | `update`, `set_angle`, `set_speed`, `reset` | not yet wired into the motor task |
| Transforms, modulation, motor model, BSP, UART, scripts | `foc-algo/src/{math,motor}*`, `src/bsp.rs`, ... | none, pins | arithmetic and I/O | - |

What makes each of them correct, in a sentence:

* **UDS engine** - a request that arrives while a job is queued changes nothing
  the job relies on; a security level is open only in a session that may open
  it and only through a fresh seed; every job ends with its own answer.
* **OTA, flash, bootloader** - the application that runs is always a whole
  image, whatever fails and whenever power is lost (with one exception, section
  4); an image is armed only when all of it is in the DFU partition.
* **CAN node** - what is sent after a request answers that request; a silent
  bus is recorded and taken back; the task is a fair user of the engine.
* **DTC store** - one record per code, which only collects status bits.
* **Motor, shell** - after a stop the bridge is off and stays off until the next
  start; a command that is strong enough is powered; a reboot finds the bridge off; the edited line is the line the keys describe.
* **Executor** - every spawned task is polled, so that the watchdog is fed.
* **FOC cascade, protection, observer** - mode changes are bumpless, integrators
  do not wind up, the commanded current stays in its limits; the stall detector
  keeps its grace period; the angle stays within a turn.

The hazards that tests hardly reach are listed with their lines in
`PROJECT.json`.

## 2. Organisation

| Module | Models | Checked by run | Proved in |
|---|---|---|---|
| `UdsProtocol`, `UdsEngine` | the UDS server | `engine`, `engine_*`, `node` | `UdsEngineProofs` |
| `FirmwareUpdate`, `ImageStore` | OTA, flash, keys, boot; what an update promises | `parts`, `update_*` | `FirmwareUpdateProofs`, `FirmwareSwapProofs` |
| `CanNode` | the CANopen task composed with `UdsEngine` and `DtcStore` | `node`, `node_report` | `CanNodeProofs` |
| `DtcStore` | the fault memory | `parts`, `node` | `DtcStoreProofs` |
| `MotorDrive` | shell commands, motor task, bridge | `parts`, `drive_spike` | `PartsProofs` |
| `LineEditor`, `TextLine` | the shell's line editor; a text with a cursor | `parts` | `LineEditorProofs` |
| `Executor` | start-up, task polling, watchdog | `executor` | - |
| `FocCascade` (with `Bounds`) | the FOC controller | `parts` | `FocCascadeProofs` |
| `Protection` | thermal limiter, stall detector | `parts` | `PartsProofs` |
| `Observer` | the observer's phase-locked loop | `parts` | `PartsProofs` |

`MCUdsEngine`, `MCFirmwareUpdate`, `MCCanNode` and `MCParts` instantiate them for
TLC. Modules are parameterised by constants with named assumptions, have one
action per operation, and use no RECURSIVE operator. `Bounds` holds the clamps
that several of them share. Three refinements are checked: the update implements
`ImageStore`, the editor implements `TextLine`, and the CAN node implements
`UdsEngine` with its fairness. The first two are proved as well, and of the
third the safety half (`EngineFollowed`). In every module, operators marked "Fault" are
plausible mistakes; they are used by no specification, and put in the place of
the operator below them they make the properties fail (`mutants` in
`PROJECT.json`).

There are three passing runs (`engine`, `node`, `parts`; together some 634 000
distinct states, a few minutes) and nine violation runs, one for each sentence
of a comment, document or test that the code was found to contradict. What the
code does in those cases is not among the passing properties; where it is worth
knowing for all instances a theorem says so (`NeverGivesUp`, `NeverReported`,
`LockedCorrect`).

Every invariant and every action property of a passing run is proved, for all
values of the constants that the modules' named assumptions and those stated in
the theorems admit; section 9 lists what is not proved. `Executor` has no
constants, so its run needs no generalisation. What is left to do: the current
loop behind the commanded current.

## 3. The UDS engine

### Modules

* `UdsProtocol` - the constants of the protocol and of the shipped
  configuration as operators: sessions, levels, NRCs, which service needs which
  session and level (`SERVICES`, the DID and routine tables), the sub-functions
  of 0x27, responses, the saturating clock difference.
* `UdsEngine` - the state machine. Its variables are the fields of `UdsState`
  and `UdsConfig::pending_queue` under their names in the source, plus
  `response` (the shared response buffer), `reset_requested`, `running` (FALSE
  after a panic), the clock, the seeds given so far, and one history variable,
  `spent`.
* `MCUdsEngine` - the requests of each run.
* `UdsEngineProofs` - the theorems.

| Action | Code |
|---|---|
| `dispatch_sid(req)`: `BusyRepeatRequest`, `RefuseAtGate`, `RefuseInHandler` | the busy guard, the gates and the early returns of every handler, in the order of the code (`nrc_*`) |
| `DiagnosticSessionControl`, `EcuReset`, `RequestSeed`, `SendKey`, `CommunicationControl`, `DataService`, `PushPending` | the handlers' successful paths |
| `PanicInCallback` | the DID callbacks that borrow a `RefCell` held by `dispatch` |
| `FinishJobs`, `KeepWaiting`, `GiveUp` (together `tick`) | `pending::tick`: all continuations run, the queue is put back, then the P2 and the P2* timers are compared, in this order |
| `take_response_pending`, `take_reset_request` | the two polls of the transport |
| `ClockTick`, `PowerCycle` | the wrapping u32 clock, a reset of the chip |

A request is a record of what the handlers test: service, length, sub-function
(for a DID or routine, whether it is in the table), the suppress bit, a key and
a payload. A seed is a pair of generator and number (`generate_seed`): the random
number generator does not repeat itself, and when it does not answer in time
`rng_seed` falls back on a counter in RAM (`static_config.rs:177-184`,
`table.rs:729`) that starts over with the chip, so after a `PowerCycle` the same
fallback seeds are handed out again. A key is a pair of level and seed: AES is
taken to be injective. The responses keep
the service they name and their code. A continuation is a choice of whether it
completes and which of the codes of `src/ota/mod.rs` it stores; `StallSids` are
the services whose continuation may need several ticks. The shipped ones never
do, but the queue and its two timers exist for ones that do.

### Runs

| Run | Specification, bounds | What it shows |
|---|---|---|
| `engine` | fair; all requests, the keys of the first seed of both generators, one service that stalls, 2 slots, 1 attempt, P2 = 2 > P2* = 1, clock wraps at 3 | the session, level, seed and attempt rules; no request disturbs a job; a job ends with its own answer, or 0x72 if it is given up; the server becomes Idle |
| `engine_exit` (violation) | the requests a job needs and 0x37 | 0x37 is refused |
| `engine_panic` (violation) | reads of DID 0xF186 | the callback panics |
| `engine_p2star` (violation) | P2 = 2 < P2* = 4 as shipped, clock wraps at 10 | a job is not given up after P2* |

Bounds. One seed of each generator allows one that is requested and abandoned and
one that is used, a right key and a wrong one; after a reset of the chip the
fallback seed comes again. One attempt is enough to reach the lockout and to be
one beyond it. Two slots: the invariant says a second one is never used, so a
longer queue adds no behaviour (and the proof covers all lengths). `engine` has P2
above P2*, since only then a job is given up and `GiveUpReports` has something to
say; a job that completes does so independently of the timers. The clock wraps
beyond P2, so that the stamp is on either side of a wrap. One request of each
kind and one per early return is enough, since handlers only test the fields of
the record; 0x28 is left to `node`, since nothing in the engine reads the flag it
sets. `SeedUsedOnce` is about one boot, because the code gives no more. Deadlock
is checked everywhere.

What no property covers: when the notice of P2 is due after the clock has wrapped.
The timers then stand still until the clock passes the old stamp.

Fairness: weak fairness of `Tick` alone. `canopen_task` calls `uds::tick` at the
top of every iteration of its loop, and the loop is driven by a ticker, so a
server that stays Pending is ticked; run `node` shows that the task, as modelled
in `CanNode`, implements this specification with its fairness. Nothing is
assumed of the tester. This takes for granted that the task is polled at all:
see `Executor` (section 7).

### Proofs

`UdsEngineProofs` proves every invariant and action property of run `engine`, for every set of requests, queue length, timer and clock width.

* `TypeCorrect` comes first: the type invariant is inductive by itself.
* `LevelFitsSession`, `SeedUsedOnce` and `AttemptsBounded` speak of the access
  part of the state only. `SeedUsedOnce` is not inductive: that a new seed has
  not been used needs that every seed used since the boot was given by its
  generator before; the strengthened invariant adds that. A reset of the chip
  keeps it, because it empties the history together with the fallback counter. One step per action, and all actions that
  leave `access_vars` alone are one case.
* `OneJobAtATime`, `JobSeesItsRequest` and `JobKeepsItsRights` are proved
  together (`JobInv`): each needs the others, because that no second job is
  queued rests on Pending, and that the rights are kept rests on the busy guard
  turning the session change away.
* `NeverGivesUp` needs `P2 <= P2Star`, as shipped: the stamp is at most P2 old when
  it is compared, so the P2* timeout is dead code. It is the general form of what
  `engine_p2star` shows.
* `AnswerCorrect` (`AnswerNamesItsJob`) and `GiveUpCorrect` (`GiveUpReports`) hold
  for all timers. Only a tick raises the flag for the transport, and only one
  that drains the queue (`OnlyTickFlags`, `FlaggedByDrain`); the answer it leaves
  is that of a drained job (`DrainedAnswer`), and by `OneJobAtATime` there is but
  one. A tick that empties the queue without the flag gave up (`OnlyTickEmpties`),
  and the notice it leaves last is the refusal (`GiveUpNotice`).

Assumed: the named assumptions in `UdsEngine` (queue length and timers are
positive, the attempt limit is a u8 other than 0), and AES as an injective
function, which is part of the model. Liveness (`JobsFinish`) and what the
violation runs show are model-checked only: liveness is beyond the prover, the
violations are single behaviours.

### Disagreements between code and comments

Three violation runs each check one sentence of a comment, document or test
(`findings` in `PROJECT.json` quotes them): 0x37 is refused because its length is
counted from the wrong byte, so no download can be ended (`engine_exit`), reading
DID 0xF186 panics (`engine_panic`), and the P2 notice restamps the request
(`pending.rs:112`), so that P2* never ends a wait (`engine_p2star`; the shipped
continuations complete in one tick, so only ones that need several are
concerned). Met while modelling, and modelled as the code has it, without a run:

* the 0x78 notice is stored without the flag for the transport (`pending.rs:111`
  against `state.rs:29`);
* the first byte of a positive 0x27 response is the sub-function plus 0x40
  (`table.rs:785`), where `scripts/smoke_test.py:1369` expects 0x67.

### Not modelled

Key masks and the AES computation, the contents of DTC and DID responses, the
log output, and the positive-response suppression of services that ignore the
bit. The fault memory behind 0x14 and 0x19 is in `CanNode`. A response that does not fit the buffer cannot occur with the shipped
tables.

## 4. The firmware update

### What happens in the code

The flash is divided into the bootloader, its STATE page, the ACTIVE partition
the application runs from (44 KiB) and the DFU partition (48 KiB). A download
erases DFU, fills it in blocks of two bytes that are collected into words of
eight, reads the image back, and writes the swap magic into STATE. After the
reset the bootloader exchanges ACTIVE and DFU page by page and starts the new
image, which confirms itself by writing the boot magic (`mark_booted`). If the
chip restarts before that, the bootloader goes back to the old image.

### Modules

* `FirmwareUpdate` - one module, because what is at stake is how these parts
  fit together: `src/ota/mod.rs`, `src/drivers/flash.rs`,
  `key_store::init`, `mark_booted` and embassy-boot. The bootloader is not in
  the repository beyond a wrapper; its actions are external and follow the use
  and the comments in `bootloader/src/main.rs`, `write_swap_magic` and
  `mark_booted`.
* `ImageStore` - the abstract specification: one current image, at most one on
  offer, at most one to fall back to.
* `MCFirmwareUpdate` - the instances.
* `FirmwareUpdateProofs`, `FirmwareSwapProofs` - the theorems: those about the
  stream, the refinement and the armed image, and those that follow the bytes
  through the flush buffer and the page copies.

| Action | Code |
|---|---|
| `RequestDownload`, `RequestDownloadFails` | `handle_request_download` |
| `TransferBuffered`, `TransferFlushed`, `TransferFlushFails`, `TransferPastEnd` | `handle_transfer_data` |
| `TransferExit`, `ExitIncomplete`, `ExitFlushFails`, `ExitArmFails` | `handle_transfer_exit` with `write_swap_magic` |
| `LoadKeys`, `GenerateKeys`, `MarkBooted`, `MarkBootedFails` | start-up in `main` |
| `Boot`, `CopyPage`, `SwapDone`, `RevertDone` | embassy-boot |
| `PowerLoss`, `PowerLossIn...` | a restart between handlers, or inside one that writes flash |

A handler runs to its end without yielding, so only a power loss can come
between its flash operations: each handler is one action, and a
`PowerLossIn...` action leaves flash as any prefix of its operations would,
the last one cut short. Refused requests that change nothing are not actions.

The tester sends the blocks of the image it announced. It may repeat a block
(its answer was lost), skip one (the request was lost), or send too many; it is
never further off than `Window` blocks, which is less than half of the
counter's range, since beyond that the counter cannot tell. The bytes of the
image are all different, so a byte in the wrong place is seen. The running CRC
is the sequence of bytes it covers: CRC-32 is taken to have no collisions.

### Runs

| Run | Bounds | What it shows |
|---|---|---|
| `parts` (its update part) | words of 4 bytes, pages of 2 words, ACTIVE 2 pages, DFU 4 pages, block counter modulo 3, two images (odd size inside the first page, all of ACTIVE), 2 key sets, every flash operation may fail | the safety properties and `ImageStore` |
| `update_oversize` (violation) | an image of 18 bytes, ACTIVE holds 16 | too large an image is installed |
| `update_keys` (violation) | no faults | a download erases the keys in use |
| `update_confirm` (violation) | as `parts` | after a confirmation that failed unseen, a download erases the image the bootloader goes back to |

Bounds. Two pages are the least for which the order of page copies matters, two
words per page the least for which a page is more than a word, and four bytes
per word give a buffer that takes more than one block. The counter wraps twice
in the longest image. DFU is two pages longer than ACTIVE as in the firmware:
one is the bootloader's, the other ends with the keys. `MaxKeys` bounds how
often keys are generated anew.

Assumptions. A page erase that is cut short leaves its page untouched or
unreadable. `mark_booted` relies on this: it erases STATE without making the
progress invalid first, as embassy-boot itself does; were the progress lost
and the swap magic kept, the bootloader would swap a second time. No flash
operation is assumed to work: `Faulty` names all that report an error, and runs
and theorems admit every one of them.

The exception. `mark_booted` discards the results of its erase and write
(`main.rs:133`). If the erase fails and leaves the swap magic, the application
runs on unconfirmed, and the next accepted download erases the image the
bootloader will go back to. The history variable `confirm_error` follows this: it
is "ignored" from such a confirmation on, and "fatal" once DFU was erased in that
state (`FallbackErased`). `RunsWholeImage` and `FallbackKept` hold as long as it is
not "fatal", that is up to that download and whatever else fails; `ImageStore`
has the hole as a step of its own (`Lose`); and `update_confirm` shows that the
step is taken, against `main.rs:64-65`.

The handler of 0x37 is modelled as it is written. In the shipped firmware
`dispatch_0x37` never queues it (run `engine_exit`), so the part of the model
behind `TransferExit` describes what the handler will do once it is reached.

### Proofs

Every property of the update is proved, for every flash layout, set of images,
counter width and set of failing operations that the named assumptions in
`FirmwareUpdate` admit. In `FirmwareUpdateProofs`:

* `StreamCorrect` (`StreamInOrder`). The invariant `StreamInv` adds that an even
  number of bytes was received and that the counter is the remainder of the
  next block's number. A block whose number has this remainder is at most
  `Window` away, so it is the next one (lemmas `SameRemainder`,
  `AcceptedIsNext`); this is where `2 * Window < SeqMod` is used.
* `StoreImplemented` (`ImplementsStore`). The refinement mapping reads the image
  on offer from the magic and the progress. The invariant `StoreInv` says that
  in a running application a swap magic means a finished transfer that no
  handler touches again, and that an image can be gone back to only behind a
  full swap. Each action then maps to one step of `ImageStore` or to none; the
  erase that makes `confirm_error` fatal is `Lose`, and only behind it can a
  transfer end while the bootloader would still go back.
* `ArmedWhole` (`ArmedImageWhole`). What is read back equals what was received,
  which is the image by `StreamInv`; afterwards nothing writes to DFU until the
  bootloader copies its first page, and that page lies behind the image when
  the image fits ACTIVE. This is the theorem's assumption, and
  `update_oversize` shows what happens without it.

In `FirmwareSwapProofs`:

* `FirmwareTypeCorrect` (`TypeOK`). `TypeInv` adds that a swap has an image and
  that the count of copies is in the range of the phase; without the first the
  bytes of a block have no owner, without the second `Copy` names no page.
* `WholeImageRuns` (`RunsWholeImage`) and `FallbackWhole` (`FallbackKept`). The
  invariant `SwapInv` says, for every page of an image, which partition has it
  after n copies: `Swapping` for the 2 x `ActivePages` copies of a swap,
  `Reverting` for those of the way back; both hold where the two meet. A copy
  moves one page from one side of this table to the other (`SwapCopy`,
  `RevertCopy`), and the page a copy is cut short in is one that the table does
  not need at that count (`SwapSpoilt`, `RevertSpoilt`), which is why a power
  loss in the middle of a page can be repaired. The table starts from the
  armed image (`ArmedPages`, from the invariant of `ArmedWhole`), and the key
  page lies above all pages of the images (`KeyPageApart`). A confirmation that
  fails keeps the table (`SwapInvStartUp`), a download after it does not, and what
  was lost stays lost (`LostForGood`). The theorems assume that every image, the
  one the device is shipped with included, fits ACTIVE, and nothing of the flash.
* `FlashFollows` (`FlashFollowsStream`). `FlushInv` counts: the bytes received
  are `next_offset` words and the buffer. A transfer whose word is not written
  is given up in the same step, so no gap survives it.

The violations are model-checked only.

Without a run: an image of odd size passes the check of `ota/mod.rs:358` and is
refused when it is complete (`ota/mod.rs:414`), because the last block takes two
bytes off the one that remains; and a download that is abandoned leaves the OTA
state in Receiving, in which every later request for one is refused until a
transfer fails or the chip restarts.

## 5. The CAN node

`canopen_task` is one loop: sample the clock, drive the pending queue, send the
answer of a finished job, then wait for a frame or for the heartbeat ticker.
`CanNode` extends `UdsEngine` and `DtcStore` and has a variable `pc` for the
statement the task has reached: every call the task makes into the two is
their own action, conjoined with what the task does. Names that begin with
`Node` (`NodeInit`, `NodeNext`, `NodeTypeOK`, `NodeFairSpec`) are the node's; `Spec`,
`FairSpec` and `TypeOK` are the engine's. A callback that panics does not return
to the task: `DispatchRequest` then leaves `pc` and the response where they are.

| Action | Code |
|---|---|
| `BootUp`, `SampleClock`, `DriveQueue`, `FetchAnswer` | `canopen_task` up to `select` |
| `ReceiveNmt`, `ReceiveOther`, `ReceiveRequest` | the three kinds of frames, each with what every frame does first (`Received`, `StoreOnReceive`) |
| `functional_blocked`, `DispatchRequest`, `Frameable` | `handle_rx_frame`, `build_response_frame` |
| `Answer`, `SysReset` | transmission of the response, poll of the reset requests |
| `Heartbeat`, `BusError` | the other two outcomes of `select` |
| `TimePasses`, `Restart` | a heartbeat period, a reset of the chip at any point |

Run `node` has one request of each kind that the broadcast filter, the frame
lengths or the engine tells apart. Which lengths a frame can have is decided by
CAN FD and the frame library, outside the repository: each behaviour fixes one of
two sets (`Framings`), the lengths of CAN FD, or all from 0 to 64, so that what
lies behind a key of 18 bytes is explored too.

What it shows. The task's timeout flag and the fault memory agree whatever a
tester clears (`TimeoutFlagged`); with one response buffer a request is still answered by its own response, downloads excepted
(`FreshAnswer`), and a finished job's answer leaves before the next request
comes in (`JobAnswerGoesFirst`); a broadcast does no more than end a session
(`BroadcastHarmless`); silence is recorded, by a muted node too, unless the
controller goes on reporting bus errors (`SilenceIsRecorded`); and the task
implements the engine's specification including the fairness of its tick
(`ImplementsEngine`). The violation `node_report` has the same bounds: the frame
that asks for the faults takes the recorded timeout back before it is looked at,
so the report `smoke_test.py:1459` expects is empty.

Bounds: one seed of each generator, one attempt, one place in the queue (a second one is never
used, section 3), a timeout of two heartbeat periods, at most one tick pending,
a clock that stands still (`ClockMod = 1`: the timers are the matter of
run `engine`), one fault slot for the one code the firmware sets, and the NMT
commands Stopped, Pre-Operational and one that is ignored.

Fairness: weak fairness of the task's steps taken together (the executor polls a
task that is ready) and of time. Nothing says which branch of the race is taken:
`select` polls `read_fd` before the ticker (`canopen.rs:275`), and the branch for a bus
error loops at once (`canopen.rs:358-362`), so a controller that reports errors
without end keeps the ticker from its turn. That is why `SilenceIsRecorded` leaves
out behaviours with infinitely many bus errors. With only finitely many of
them, a bus that stays silent leaves the task nothing but the heartbeat.

### Proofs

`CanNodeProofs` proves all invariants of run `node` and `BroadcastHarmless`, for
every set of requests, frame lengths, NMT commands and fault codes, every
timer and every size of the queue and of the fault memory.

First the composition. `EngineFollowed`: every step of the task, of the bus and of
time is a step of the engine or leaves it alone, so `NodeSpec => Spec`, and the
engine's theorems hold in the node (`NodeServerSafe`, `NodeJobsSafe`). Likewise `StoreMoves`: the node only empties slots, except for
the heartbeat that records the timeout; so one record per code and the
accumulated status bits survive in the node, where a reset may empty the
memory at any time (`NodeMemorySafe`).

Then the task. `NodeInv` joins the node's invariants with `JobInv` of the engine and
`RecordsInv` of the memory, because each of the first needs one of the others:

* `TimeoutFlagged` rests on one record per code: `clear_dtc` stops at the first
  record, and with a second one the flag would be taken back and the fault
  stay. It also rests on the type of the memory: it is by
  `ReceivedClears` and `DispatchedClears` that the code is gone when the flag is.
* `NeverReported`, the general form of `node_report`, follows: the report is made of
  the memory after the timeout was taken out of it (`ReportStep`).
* `FreshAnswer`: what `dispatch_sid` stores is empty or names the request
  (`OwnAnswer`), and only a response that is not empty gets to `"answer"`. The proof
  needs that a panic does not get there; an earlier form of the model let it, and
  this proof found it.
* `JobAnswerGoesFirst` is inductive only in the form it has, which says where the
  task is while an answer waits, and whose it is; the latter is `OneJobAtATime`
  with `DrainedAnswer`.
* `LockedCorrect` comes down to arithmetic: the one length a key can have, 18,
  is no length of a frame (`KeyLength`); a queued job needs an open level.

`BroadcastCorrect` needs no more than the types: `FilteredDispatch` goes through
what the filter lets by. `ResetCorrect` is not inductive as it stands; `ResetInv`
adds that a reset is armed only while the task hands over the answer to the
request for it. Its two assumptions are stated in the theorem: no request
suppresses the answer to 0x11, and every set of frame lengths has 2. No run
checks it, since the requests of `node` include a suppressed reset.

Model-checked only: `SilenceIsRecorded` (liveness) and the fairness half of
`ImplementsEngine`.

Without a run: `scripts/smoke_test.py:1354-1378` and `1413-1427` expect a seed and a
key of 18 bytes and an unlocked server, but no CAN FD frame carries 18 bytes, so
the node never unlocks: this is a defect, which theorem `LockedCorrect` shows for
every instance and which no run counts as a property; an accepted download request
is answered at once with whatever the buffer holds from an earlier request
(`uds_bridge.rs:135`); a reset whose answer was suppressed stays armed until the next
request that is answered, whoever sent it, and strikes behind that answer
(`canopen.rs:343`), although `table.rs:196` has the flag polled once the response has
gone out; an NMT Stopped node still serves UDS; a broadcast 0x14 clears every
node's fault memory; the mute of 0x28 silences the heartbeat only (`uds/mod.rs:37-40`); the
boot-up frame is written without the time limit the other frames have; nothing
calls the setter of the heartbeat period.

## 6. Parts that share no state

Run `parts` checks seven components at once, the firmware update of section 4 and
the six below: a behaviour belongs to one of them and leaves the others in their
initial states, so that the states add up.

**DtcStore.** `set_dtc`, `clear_dtc`, `clear_group` in any order over two slots
and three codes, so that the memory is full and a code that was cleared leaves a
hole before one that is still recorded. `OneRecordPerCode`: no two slots hold a
code. `StatusAccumulates`: a code that stays recorded loses no status bit. Both are
proved for any number of slots and codes. Note that with the memory full it is slot
0 that is overwritten; the comment in `dtc.rs` calls it the oldest, which it need
not be.

**LineEditor.** The keys of the shell (`Return`, `Backspace`, `Character`,
`LeftArrow`, `RightArrow`, `OtherSequence`) on the array, length and cursor of
`shell_task`. `ImplementsText` maps them to `TextLine`, a text in front of and one
behind a cursor; over three cells and two characters in the run, over any buffer
and set of characters in `TextImplemented`. The proof goes through lemmas about
shifted arrays: what a step writes is what the abstract step makes of the text.
The two bytes after an escape character are taken as one read; the code's read
may return fewer, and the rest is then treated as text.

**MotorDrive.** The shell's commands (`Enter`, `Execute`, `Prompted`, `SysReset`)
write the command cell, `Tick` is one iteration of the motor task: edge
detection, ramp, bridge. The unit of voltage is a ramp step. The rotating angle
is left out: from `V_ALWAYS` on some duty departs from the centre by more than
0.02 whatever the angle, below `V_NEVER` none does, in between it is a choice.
Requested voltages lie below 0, at 0, on both thresholds and above the limit.
Checked and proved: `BridgeFollowsCommand` and `RebootFindsBridgeOff` (with the
50 ms as at least one tick; the invariant ties the number of ticks waited to what
they have seen). `SpinStarts` is liveness,
under weak fairness of the tick and of the shell's own steps: a command at or
above `V_ALWAYS` is powered. One below `V_NEVER` never is. `drive_spike` is the
violation: the ramp of a stop meets the next spin, and the bridge is switched on
at nearly full voltage. Further differences between comments and code:
`motor_pwm.rs:53-56` has the duty ramped down before `disable`; the shell ignores
surplus words and takes "-" and "." for 0.

**FocCascade.** `update` has one action for each way through it (rejected,
Off, Align, Torque, Speed, Position), and between two cycles the application may
call `set_mode`, `align`, `zero_integrators` or write a reference, in any order. Floats
are integers. References, measurements and feedforwards take both signs, and
limits are small enough for every clamp to act. Checked and proved, for every
tuning with `KI * MaxDt <= KP`: `IntegratorsBounded` (an integrator is frozen only
when the raw output is saturated, so its bound needs the gain condition),
`CommandWithinLimits` (the circle by rounding towards zero, then the floor, which
can only shorten a vector), `SpeedReferenceContinuous` (bumpless transfer across
rejected cycles and mode changes). The derivative term is off as in the defaults; the
current loop, decoupling and field weakening are left out. The library is not
called by the firmware yet. Differences between comments and code: with
`reset_on_off = false`, `cascade.rs:100-104` has the ramp state and the previous mode
preserved across Off, so that the loops go on from their last state, but line 316
sets the previous mode to Off in any case, and the next update seeds the ramps
from the measurements anew (line 192; `SpeedReferenceContinuous` leaves this case
open, so that it passes whichever of the two is meant); `set_mode(Align)`
does not reset the alignment timer (`cascade.rs:88-89` says every entry does), so an
alignment can begin with the time of the one before; Align bypasses the ramp of iq (`cascade.rs:55-58`), which is not seeded
either; on a non-finite input the integrators are cleared (`cascade.rs:170-186`),
while the doc of `update` says they are kept.

**Protection.** The thermal limiter with currents below, at and above the rated
one, and the stall detector over a millisecond counter that wraps
(`StallClockMod`). `GraceRespected`, checked and proved for any width: it never
fires before its grace period is over. The price of the saturating difference
is that an armed detector is blind after a wrap until the counter passes the old
stamp. `I2tLimiter::foldback` panics for a negative limit; the model assumes none.

**Observer.** The phase-locked loop with the error of the back-EMF filters as an
input. That one correction by a turn is enough needs a step that moves the angle
by at most a turn: `ObserverTypeCorrect` assumes it by name. `set_angle` is modelled
with angles in one turn. A speed that is set is overwritten by the next step, as
the integrator is not seeded.

Bounds of the run are in `Parts.cfg`. They are chosen so that each case above
happens and a boundary lies between two of the values.

### Proofs

Each component's type invariant is proved in its module (`StoreTypeCorrect`,
`EditorTypeCorrect`, `DriveTypeCorrect`, `FocTypeCorrect`, `ProtectionTypeCorrect`,
`ObserverTypeCorrect`). `PartsFollowed` shows that a behaviour of the run is one of
each component, so that what is proved of a component alone holds of it in the
run; `PartsTypeCorrect` (`PartsTypeOK`) follows from it. `PartsProofs` holds these
two and the theorems about `MotorDrive`, `Protection` and `Observer`. The type invariants and
`OneRecordPerCode` are inductive as they stand; `RebootFindsBridgeOff`,
`GraceRespected` and `SpeedReferenceContinuous` are not and are strengthened in
their modules. Square, magnitude and scaling in `CommandWithinLimits` rest on
three lemmas about integer division, stated before they are used. Only
model-checked: `SpinStarts`.

## 7. Start-up, executor and watchdog

`Executor` models `main`, the four tasks it spawns, the heartbeat and the
watchdog on embassy's thread executor, which is external: it polls one queued
task at a time, and a task keeps the core until it awaits. `main` is such a task.
The run `executor` (violation) shows that its final loop of `wfi` never gives the
core back: the heartbeat is queued and never polled, and after ten of its
periods the watchdog resets the chip. All other modules describe the tasks as
if they were polled, which is what their code and comments intend. `feed_watchdog`
has no caller. Fairness: the core does not stop (`WF` of the next-state relation).

## 8. Not modelled

* Transforms, modulation, motor model (`foc-algo/src/math/{transforms,filter,svpwm}.rs`,
  `motor.rs`): stateless floating-point arithmetic, whose correctness is a matter
  of rounding.
* The current loop, decoupling and field weakening of the cascade, the back-EMF
  filters of the observer: the same arithmetic, with filters as state; over small
  integers a bound would say nothing about the floats.
* The overcurrent and bus-voltage checks: comparisons without a state.
* Board support, UART, metadata, build scripts: configuration and I/O.
* Number parsing and terminal output of the shell.
* Host scripts: read for what they state about the firmware.

## 9. What is not proved

* Liveness under fairness: `JobsFinish`, `SilenceIsRecorded`, `SpinStarts`, and the
  fairness half of `ImplementsEngine`. The prover has no rules for ENABLED.
* The violation runs: each is a single behaviour, which TLC exhibits. For some a
  theorem says more: `WholeImageRuns` and `FallbackWhole` when the sentences violated
  in `update_oversize` and `update_confirm` hold, `NeverGivesUp` and `NeverReported`
  that those of `engine_p2star` and `node_report` always fail.
* What lies behind the named assumptions: AES is injective, CRC-32 has no
  collisions and the random number generator does not repeat itself (part of the
  model), an observer's step moves the angle by a turn at most.
