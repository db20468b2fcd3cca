# Formal models of the CieloTrack receiver

TLA+ modules, TLC configurations and TLAPS proofs kept beside the receiver's
source. File and line references are to the repository.

    tlasany M.tla                        # parse
    tlc -config X.cfg M.tla              # model-check configuration X of module M
    tlapm MProofs.tla                    # check the proofs about M

`PROJECT.json` lists the runs with their modules and properties, the mutants
(for every property a plausible bug of the code that breaks it), the source
lines each definition translates, the hazards, and the theorems.

## 1. Inventory of the system

A receiver hears drones' Remote ID broadcasts over Bluetooth and Wi-Fi, groups
the messages into contacts, and delivers one detection per contact to a central
server. There are two implementations: a Raspberry Pi program in Python with
its updater, and ESP32 firmware in C.

### Raspberry Pi

| part | state it keeps | operations | interacts with |
|---|---|---|---|
| contact lifecycle, `radio_tracker.py` 1036-1314, 1512-1614 | `drone_state`, `key_to_*`, `transport_mac_to_key`, `pending_alert_timers`, `sent_alert_tracker`, one `RLock` | `register_detection`, `merge_state`, `finalize_pending_alert`, `log_and_alert` | two capture threads and one thread per timer share the dictionaries; a finaliser calls the identity cache and the outbox |
| identity cache, 476-562 | table `mac_identity` | `remember_identity`, `lookup_identity` | called by finalisers |
| outbox, 442-474, 576-613, 658-721 | table `outbox` | `enqueue_detection`, `sync_outbox` | finalisers insert, the sync thread uploads |
| credentials and claim, 326-440, 623-656 | credentials dictionary, `device_credentials.json` | `load_credentials`, `save_credentials`, `ensure_claimed` | the sync and heartbeat threads share one dictionary; the server hands the API key out once |
| status and heartbeat, 723-930 | counters, marks of what was reported, `status.json` | `collect_radio_status`, `write_status_file`, `heartbeat_loop` | the updater reads `status.json` |
| BLE capture, 949-1034, 1316-1510, 1696-1717 | `hcitool`/`hcidump` processes | reset, stream, event reassembly, `parse_adv_reports` | calls `register_detection` |
| Wi-Fi capture, `wifi_remote_id.py`, 1616-1640 | a monitor-mode socket, the hopper thread | capture, channel hopping, frame parsing | calls `register_detection` |
| decoding, `odid_decode.py` | none | message pack and message decoding | called by both captures |
| data migration, `migrate_state.py` | the receiver's files | plan, copy, verify, rename | the updater refuses a release until it was done |
| updater, `update.sh` with its timer | checkout, unit, `rejected`, `channel` | choose, verify, apply, check, roll back | restarts the receiver, reads its status |
| provisioning, `provision.sh` | users, packages, pinned key | run once by an operator | |

### ESP32

| part | state it keeps | operations | interacts with |
|---|---|---|---|
| reporting, `main.c`, `uplink.c`, `health.c`, `contact_time.c`, `contact_json.c` | report queue of 96, counters and their marks, the uplink's events | BLE callback, `reporting_task`, heartbeat, `uplink_report_batch` | BLE host task, reporting task, event loop |
| Wi-Fi capture, `wifi_capture.c` | queue of 48, who owns the radio | promiscuous callback, `capture_task`: join, heartbeat, drain, leave | takes the station away from the uplink and gives it back |
| identity cache, `identity_cache.c` | a fixed array of slots in RAM | remember, recall, evict | the one task that decodes: the Bluetooth host's or the Wi-Fi driver's |
| start-up, claim and provisioning, `main.c`, `claim.c`, `provisioning.c`, `wifi_reset_console.c` | the network and the key in flash, the state of the Bluetooth stack | `app_main`, BLE provisioning, register and poll, `resetwifi` | `app_main`, the console task, the claim task; a phone, the owner, the server |
| sensor link, `peer_link.c` | the line being read, last time heard, error counters | send, receive, liveness of the sensor | two boards, one listening on each radio |
| decoding, `odid_decode.c`, `odid_ble.c`, `wifi_rid.c` | none | as in Python | |

### What is hard, and what makes each part correct

The contact lifecycle holds `contact_lock` for its merges but finalises outside
it, so the interesting behaviours are at the unlocked accesses: a re-key that
meets a timer about to fire, a clean-up that meets the same aircraft coming
back, an expired cooldown that nobody removes. It is correct if every contact
that was promised a row gets one or is covered by a live cooldown, a cooldown in
force is that of a row that was written, and what a row says (position, time,
identity) belongs together. That a contact never gets two rows in a cooldown, and
that its addresses always lead back to it, is more than the code keeps (section 6).

The outbox is correct if a row is marked sent only when the server has it, set
aside only when the server refused it, never blocks those behind it, and is
repeated only after a fault. The identity cache is correct if it infers only
from addresses that nobody has contradicted since their first row (a conflict
can be lost to that first row, section 6), and from few sightings only for a
short time. The updater is correct if the unit is always a verified release's
and, wherever the script could go back, with its own code; if a rejected release
does not run on, nor keeps the receiver restarting every night; and if the newest
release that works here is the one that ends up running. Credentials and migration are correct if a receiver never silently
becomes a stranger, whatever is killed or loses power while its identity is
written or moved, and if what the server hands out once reaches both threads.

On the ESP32 the Wi-Fi board's one radio is handed back and forth by a task, an
event handler and the driver, which share an unlocked flag; it is correct if it
always comes back to the channel, restarts only when the network failed it, and
accounts for every contact it decoded. The two-board link is correct if a fault
on the wire costs no more than the lines it touches, each contact is stored at
most once, and a silent sensor is reported as such. The Bluetooth board is
correct if every contact it decodes is stored or counted, carries the time it
was heard whatever the clocks did since, and if silence is told apart from an
empty sky. Its cache is correct if neither eviction nor a stepped clock lets it
name an aircraft after another. The two decoders are correct if a message means
the same to both, to the digit. A board's start is correct if every way through
provisioning, cuts and resets by hand ends with the right radio running, on a
network its owner still wants, and with a key that survives the next cut.

Every hazard we know of is listed in `PROJECT.json` at its line, with the
properties that would catch it going wrong.

## 2. Plan

Order: the path of a detection first, then what keeps the receiver running,
then the ESP32.

1. `Contacts`, done.
2. `Outbox` implementing `Delivery`, done; `TrackerProofs` has the theorems of
   both.
3. `IdentityCache` with `IdentityCacheProofs`, done.
4. `Updater` with `UpdaterProofs`, done.
5. `Claim`: credentials, the claim handshake and the data migration, with
   `ClaimProofs`, done.
6. `TimeSlice`, the Wi-Fi board, with `TimeSliceProofs`, and `PeerLink`, the
   two-board link, done.
7. `Reporting`, the Bluetooth board, with `ReportingProofs`, done.
8. `IdentitySlots`, the ESP32's cache, done;
   `RemoteId` and `RemoteIdPython`, the two decoders, and `Capture`, which
   composes decoder and cache on either board, done; `SensorProofs` has their
   theorems and those of `PeerLink`.
9. `BoardSetup`: start, provisioning, claim and reset, with `BoardSetupProofs`,
   done.
10. `Health`: which failures a heartbeat of the Pi reports and the next one does
    not.
11. Reassembly of HCI events on the Pi (`parse_adv_reports` and its stream).

Abstract specifications worth stating beside `Delivery`: counted loss, which
`Reporting` and `TimeSlice` both keep (`Accounted` states it for each), and one
receiver identity for `Claim`.

Every safety property of a run has its theorem. Runs are few on purpose: one per
question.

## 3. The models

### Contacts

A block held under `contact_lock` is one step; outside the lock every access
another thread can come between is a step of its own. `capture[t]` is where a
capture thread is inside `register_detection`, `timer[i]` a `threading.Timer`
with where its thread is in `finalize_pending_alert` and `log_and_alert`; the
other variables carry the names of the dictionaries they model.

| code | actions |
|---|---|
| `register_detection`, first locked block with `_merge_state_locked` | `Hear`, then `MergeInPlace` or `MergeRekey` |
| its unlocked look at the cooldown | `ReadSentAt`, `ExpireCooldown` |
| its second locked block | `Covered`, `Schedule` |
| `Timer.run` and the locked block of `finalize_pending_alert` | `Fire`, `Finalize` |
| identity: decoded or remembered | `IdentityDecoded`, `IdentityRemembered`, `IdentityInferred` |
| `log_and_alert` | `Suppress`, `PassCooldown`, `Scan`, `DeleteExpired`, `DropState`, then `DropRest`, a step per pop: `DropFirstSeen`, `DropPosition`, `DropMacs` and `DropMapping` once per address; `Write`, `MarkSent` |
| exceptions that end a timer's thread | `RememberRaises`, `CheckRaises`, `ScanRaises`, `DeleteRaises`, `WriteRaises` |

A finaliser holds a *reference* to the contact's dictionary: `live` says the
object is still the one in `drone_state`, and a pop (`Orphaned`) leaves it with
the object as it was. Similarly `macs` follows whether the set a finaliser
iterates over has grown under it.

Abstractions. Telemetry is the ID with the times at which ID and position were
received; counts, signal, protocol names and the chime steer nothing.
What the identity cache answers is any of `Remembered` or nothing: its own
module says which. A row's read of its telemetry is one step. That a dictionary
or a set is resized while it is iterated, or loses an entry between the test for
it and its value, is modelled by the exception it raises, wherever another thread
is about to do so.

A block under the lock is one step also for a clean-up, which does not take the
lock: a pop of `log_and_alert` that falls between two assignments of another
thread's merge (1171-1203, 1280-1290) is modelled as falling before or after the
whole block. The two properties that are checked on two transports do not depend on
it: `CooldownHasItsRow` is about cooldown entries and rows, which no merge touches,
and `NoStrandedTimer` about registrations, which no clean-up touches. The others are
about one aircraft on one transport. There which keys a clean-up goes over is decided
by the cooldown entries and the clock alone, so it could go over them just before the
merge or just after as well; and in both of these states it has, by what is proved of
a lone aircraft (`LoneAircraft`), no key that the merge works on: its pops and the
assignments of the merge commute.

Time is in ticks. A timer fires in the tick it is due; a finaliser takes at
most `Stall` ticks and a capture thread at most `Linger` inside
`register_detection`. `Timing` (`Stall < Grace`, `Linger < Grace` and
`Grace + 2 * Stall < Cooldown`) says that one finaliser of a contact has ended
before the next begins. With the code's grace of 10 s
(`PENDING_ALERT_GRACE_SECONDS`) and cooldown of 120 s that is so unless a
finalisation waits 10 s for the database, which is what `SQLITE_BUSY_TIMEOUT` lets
a single write do, and a finalisation makes several. So the theorems about a lone
aircraft name it, `ContactsOneTransport` keeps it, and in `ContactsTwoTransports`
finalisers of one contact overlap.

### Outbox and Delivery

`row[i]` is the state of table row `i`; `sync`, `batch` and `reply` are
`sync_outbox`'s variables, which a crash loses; `copies` and `refused` are the
server's. `Enqueue` and `EnqueueFails` are the branches of `enqueue_detection`;
`Select`, `Answer`, `Mark` are `sync_outbox`, and `Abandon` is every way it ends
without marking. The server is external and answers as `sync_outbox` reads it:
errors by index, at most `ErrorCap` of them.

`Delivery` states what store-and-forward promises, and `Outbox` implements it
under the mapping in its `INSTANCE`: queued is the rows present, delivered those
marked sent, set aside those with an error.

### IdentityCache

`Begin` starts a finalised contact's loop over its addresses; `Select` is the
`SELECT` and the clock, `Write` the `INSERT` or `UPDATE`. An `INSERT` that meets
a row raises and is caught, so it changes nothing; it is a contact that said an ID
all the same, and the history `tried` has it, where `record` has only what was
written. `Answering` is the query of
`lookup_identity`, one statement, hence an operator and not an action.

### Updater

One variable per thing on disk (`head`, `unit`, `rejected`, `status`), the
running process, and where `update.sh` is. `Begin` is everything up to the
roll-back point; its guard is that there is a release to move to and its
signature verifies, and every other way through exits without a change (the
opt-out, local modifications, an unreachable server, `--check`). The rest of the
script is one action per change that the receiver, a crash or a kill can come
between. Any of its checkouts may fail, which leaves the tree as it was: the one
of the new release ends the run (`CheckOut`), those back (`CodeRestored`, in
`RollBackCode` and `StandDown`) are passed over with a warning, and the run ends
with the other release checked out. The history `astray` says that this, or an
interruption, has happened since a release was last verified; verifying one puts
everything right again. How a release behaves on this receiver is
its `nature`, fixed at the start and unknown to the script: `good`, `faulty`
(its status shows a fatal fault once it has heard something), `mute` (writes no
status), `dies`, `refuses` (its unit cannot be started).

Time is what the script compares: `status.recent` says the file is of the
current second and `status.fresh` that it is not older than `RESTART_AT`.
`HEALTH_TIMEOUT` is taken to be long enough for a good build, as its comment
(two heartbeats and the warmup) says, so `TimedOut` is possible only under a
build that writes nothing or does not live to. Copying the unit and
`daemon-reload` are one step. One run at a time, as systemd guarantees for the
timer. An operator who clears the rejected file is not modelled.

### Claim

The credentials of `radio_tracker.py` and the move of its files by
`migrate_state.py` in one module, because the question they raise is one: does
the receiver stay who it is. `Boot` and `Start` are what `main` and
`state_directory` decide; the sync and the heartbeat thread then each go through
`load_or_create_credentials`: `Stranded` and `Refuse` are the two checks that
stop a receiver which would otherwise generate a new identity, `Generate` with
`OpenTemporary`, `WriteTemporary` and `Replace` is a new identity and its
atomic save. `Register`, `Status`, `TakeKey`, `Heartbeat` are the claim. For
`migrate_state.py` each file is skipped or kept, copied, verified and set
aside, one action each. `Kill`, `PowerCut`, `SaveFails`, `CopyFails`,
`VerifyFails`, `Unanswered` and `Interrupted` come at any step; what was written
and not flushed is torn by a power cut. `TakeUnit` is the updater's new unit,
`Salvage` what the refusal tells the operator to do. The server, which hands the
API key out once, and the owner are external. A withdrawn claim, and
`migrate_state.py --force`, are not modelled.

### TimeSlice

The Wi-Fi board. `Hear` and `Remember` are `on_frame` on the driver's task;
`Remember` is the try-lock and the queue. `GotIp`, `Disconnected` and
`Reconnect` are `on_wifi_event`: its test of `station_held` and its connect are
two steps, for `capture_task` may run in between. `capture_task` is

| code | actions |
|---|---|
| `join_network` | `Release`, `ConnectNow`, then `NetworkUp`, `Unclaimed` or `TooSlow` |
| the decision on its result | `Joined` |
| `send_heartbeat` | `Beat`, `BeatLost` |
| `drain_queue` and `uplink_report_batch` | `Drain`, `Copy`, then per request `Reported`, `NotReady` or `ReportFails`, `Drained` |
| `leave_network` | `Hold`, `Disconnect`, `Tune` or `Abort` |
| `vTaskDelay` of the upload period | `Wake` |

`Abort` is `ESP_ERROR_CHECK` on a channel that the station still owns, a
restart. The station itself, the events the driver posts, the owner's claim and
the time server are external. A request for sixteen contacts fits the body
buffer, so the "did not fit" branches of `uplink_report_batch` are not taken
here; they belong to `Reporting`, whose batches are larger. Counters do not
wrap in the instance; `Reporting`'s does.

### PeerLink

A line is three tokens: its head with kind and checksum, the JSON that the
checksum covers, the newline. The wire loses a token or garbles it into noise,
into a newline, or, in a head, into another kind, which no checksum covers
(`peer_link.h`: "The CRC covers the JSON only"). `Read` is one byte in
`master_task`, `handle_line` what it does with a line, `Forward` the locked
block of `uplink_forward_peer_contact`, `OwnReports` to `Beat` a pass of
`reporting_task`. `peer_batch` is the counted contacts and the text that
`snprintf` has left behind them; `Behind` is what it leaves when a contact does
not fit. Contacts are taken to be of one size. Not modelled: that both tasks
may create `peer_lock`, and the time limits on taking it (200 and 500 ms,
`uplink.c:524` and `547`, after which a contact is dropped uncounted or the flush
put off): the lock is held for a copy only.

### Reporting

The Bluetooth board. `Advertisement` and `Detection` are `gap_callback` on the
Bluetooth host's task, with the counter of advertisements modulo `Wrap` and the
queue that drops the newest; `Receive`, `TakeMore`, `NotReady` or `Pack` and
`Post`, `NoFlush` or `Flush` and `Forward`, and `NotDue` or `Beat` are a pass of
`reporting_task`, every point at which another task can come between;
`PeerContact` is the link task.

| code | actions |
|---|---|
| `xQueueReceive`, the loop that takes what waits | `Receive`, `TakeMore` |
| the exits of `uplink_report_batch` | `NotReady`; `Pack`, then `Posted`, `Unreachable` or `PostFails` |
| `uplink_flush_peer` | `NoFlush`; `Flush`, then `Forwarded`, `ForwardUnreachable` or `ForwardFails` |
| `failed_count +=` in `reporting_task`, `failed_count++` in the link task | `Load`, `Store` |
| `send_heartbeat`, `uplink_heartbeat` | `NotDue`, `Delivered`, `Skipped`, `BeatLost` |
| `on_wifi_event`, `clock_synced`, the end of `claim_task` | `GotIp`, `Disconnected`, `ClockSynced`, `Claimed` |

The board has two clocks: `mono` starts with it, `wall` runs from 1970 until the
time server has answered, and `contact_stamp` computes the time of a contact from
both. Time does not pass within a step. What fits a request is any number of
contacts from `AlwaysFit` up, since their lengths differ. `seen.since` is a
history variable, and no more than `Wrap - 1` advertisements fall between two
heartbeats.

`failed_count` is added to by `reporting_task` (379, 409, 417, 422, 562) and by the
link task (536), on a chip with two cores and without a lock, so each addition is
a read and a write (`adding`) and one of two that overlap is lost. `sent_count` has
one writer. `tally` is the history of what was added. The sensor's contacts and
their batch are here a number and whether each stamp is true; what becomes of the
wire's bytes is `PeerLink`. As there, the time limits on taking `peer_lock` are not
modelled; when one runs out at line 524 a contact is lost uncounted, and `Accounted`
says nothing of that.

### RemoteId and RemoteIdPython

The two decoders as operators on sequences of bytes, each written the way its
language does it: shifts and a signed top byte in C, `struct.unpack` in Python;
`nearbyint` and `round`; `strlen` with a loop over blanks, and `split` with
`strip`. A value that may be absent is a set of at most one, coordinates are in
1e-7 degrees and altitudes and speeds in tenths, so that only what the code
rounds is rounded (it does so in binary fractions that hold these values
exactly). `FrameContact` is `on_frame` up to the identity cache. The
correspondence is checked on every message with up to two bytes at an edge of
their ranges, names of three characters of every kind, reports with broken
signatures before the good one, and frames whose packs claim what they do not
hold or are cut short.

The two agree where it matters (`DecodersAgree`) and not everywhere; its parts
say where: names in which every byte is text or padding, frames that do not say
twice who or where. `ReadableInputs` says for which messages, reports and frames
that is proved. Section 6 lists the rest.

### IdentitySlots and Capture

`identity_remember` and `identity_recall` with `slot_for` as the code has it:
first unused slot, else the least recently decoded one that is not quarantined,
else slot 0. One task uses the cache, so a call is a step. The clock the code
reads (`clock`) is stepped either way by `ClockSet`, true time (`now`) is not;
`back` adds up the steps back. `heard` and `conflicted` are history. The cache
is in RAM: a behaviour is one boot.

`Capture` puts bytes in front of it: any message of any transmitter as an
advertising report, or one or two of them as a beacon, goes through
`RemoteId`'s operators, and what `report_detection` or `on_frame` would queue is
`Queued`. `Spelled` says what the constants stand for: messages that spell names,
and addresses in which a beacon's signature does not occur, for the board looks
for it from the first byte of a frame. Each `Hear` is a `Remember` of `SlotsSpec` or leaves the cache alone,
and time is the same, so what is proved of `SlotsSpec` holds of `Capture` as well;
that is a theorem (`BoardImplementsSlots`).

### BoardSetup

`main` is where `app_main` is, beside it the console's `reset_task` and
`claim_task`, each a variable with its position. `nvs` is what flash keeps over
`Reset`, which is a power cut, `esp_restart` or `ESP_ERROR_CHECK`; `server` is
the server's row of the board with the key it holds until it is fetched once.

| code | actions |
|---|---|
| `app_main` | `Boot` or `BootErased`, `wifi_reset_console_start`, `WifiInitialised`, provisioning, `BringUp` or `NoBluetooth`, `claim_start`, `StartCapture` |
| `provisioning_start_wifi` | `AlreadyProvisioned`; `StartProvisioning`, `ProvisioningEnds` |
| `on_prov_event` | `CredentialsReceived`, `Joined`, `JoinFails` |
| `reset_task`, `provisioning_forget` | `provisioning_forget` or `RestoreFails`, then `Restart` |
| `claim_task` | `load_api_key`, `WaitForNetwork`, `PostClaim`, `PollStatus`, `store_api_key`, and `LoadFails`, `PostFails`, `PollFails`, `StoreFails` (nothing written), `ReadBackFails` (written, and not found there) |

What provisioning leaves of Bluetooth (`LeftOver`) is the manager's affair:
released on the Wi-Fi board, any state of controller and stack on the other.
Typed lines are the command with 0 or 3 characters before it, read through the
buffer of 32. A board is on its network or not: windows and reconnections of the
Wi-Fi board are `TimeSlice`'s. Compiled-in credentials, the sensor-only board
(which has neither network nor key) and the hashes of `derive_identity` are left
out.

## 4. The runs

| run | bounds | shows |
|---|---|---|
| `ContactsOneTransport` | 1 address, 1 ID, 3 frames, 3 timers, grace 2, cooldown 5, stall 1, horizon 10 | two passes of one aircraft with a cooldown that expires between them; liveness |
| `ContactsTwoTransports` | 2 addresses, 1 ID, 2 capture threads, 3 frames, 3 timers, grace 1, cooldown 2, stall 1, horizon 4, CSV may fail | all interleavings of both captures with the finalisers of both keys, two finalisers of one contact at once included, down to the single pops of a clean-up |
| `OutboxDelivery` | 4 rows, batches of 2, 2 faults | partial refusals in every position, repeats, refinement of `Delivery` |
| `IdentityCache` | 2 addresses, 2 IDs, 2 finalisers, 4 contacts, 1 fault, horizons 1 and 3 ticks | races, conflicts, both horizons |
| `Updater` | releases v1, v2-rc1, v2, 1 fault: an interruption, a failed checkout there or back, a crash | every combination of natures, a unit change, a dependency change, a prerequisite, both channels |
| `Claim` | 6 identities, 2 migrations, 1 fault | both threads, the migration and the new unit, with one failure at any step |
| `TimeSlice` | queue of 3, requests of 2, 4 contacts, 2 faults | all interleavings of driver, event loop and capture task over any number of windows |
| `PeerLink` | 3 lines, a buffer of 3 tokens, 4 tokens on the wire, a batch of 2, 2 faults | every fault position, the overlong line, the full batch, the flush beside the forwarding |
| `Capture` | 3 addresses, 2 IDs, 2 slots, 5 decodes, horizons 1 and 2 of 3 ticks, 1 clock step | evictions with and without conflicts, both horizons, the clock set either way, every report and frame; the decoders on some thousands of inputs |
| `Reporting` | a queue of 1, requests of 2, 2 contacts, 2 of the sensor's to a batch of 1, a counter that wraps after 3, 1 fault | all interleavings of host, reporting task, link task and network, before and after the clock is set; a lost addition to `failed_count` |
| `BoardSetup` | 2 networks, 2 resets, 2 claims, 1 move, 2 faults | both roles, from new, set up or set up elsewhere; two failures at any step of three tasks |
| `ContactsLost` | 2 addresses, 1 ID, 2 frames | where code and comment differ, see below |

The type invariants are part of what is proved, or of the inductive invariant of
those proofs; a listed run spends its time on other questions. `INVARIANT TypeOK`
in any configuration checks them.

Why the bounds are enough. For contacts the shortest behaviours that broke each
mutant take two frames of one aircraft, a timer and a second finaliser; three
frames and three timers let a third party come between. `Stall = Grace` is what
lets a second finaliser of a contact start before the first is done. The outbox needs two
batches and a row arriving while one is in flight. The identity cache needs a
write between another's read and write, and a tick past each horizon. The
updater needs two releases beside the first, one of them a prerelease, and one
fault.
`Claim` is small because each of its steps can fail; with `MaxFaults = 2` it takes
much longer and holds as well. `TimeSlice` needs a
queue that overflows, a drain of two requests and one contact heard meanwhile,
and a fault in the window after another fault. In `PeerLink` one fault joins two
lines and the third shows that reading has recovered. `Capture` needs one address
more than there are slots, two IDs for a conflict, and a fifth decode after a
conflict, an eviction and a strong association. `Reporting` needs a queue that
overflows while a batch is in flight, a fault before the clock is set or
after, and a second contact of the sensor that finds its batch full while
`reporting_task` counts a failure. `BoardSetup` needs a cut after a failure, and a second claim after a lost
key. The theorems of section 5 lift these bounds, under the
assumptions named there, for every safety property.

Symmetry is used for `IdentityCache` and `Capture`, whose definitions treat
addresses and IDs (and threads) alike and whose runs have no liveness property;
in `Capture` they differ in their bytes, which no action looks at beyond
equality. `Updater` and `BoardSetup` run with deadlock checking off: with nothing
published and a build that stays down, or nothing typed or claimed within the
bounds, the system really stops.

Fairness. `Contacts`: every thread that can run does, and time passes; nothing
obliges an aircraft to transmit. `Outbox`: the sync loop is an endless loop
around `sync_outbox`, so each of its steps happens; faults are finite. `Updater`:
the timer fires every night and the script has no unbounded wait, a live
receiver writes its status every minute, systemd restarts one that failed;
nobody has to publish. `Claim`: threads run, systemd restarts, and a migration
that was started ends; operator and owner need do nothing. `TimeSlice`: every
FreeRTOS task runs, a station in reach of its network gets in and gets the time;
faults are finite, and nobody has to fly or to claim the board. `PeerLink`: the
master's tasks run and its network comes back; the sensor need not send, and
time need not pass between two lines. `Reporting`: the endless loop of
`reporting_task` runs, a network in reach lets the board in and the time server,
which every skipped heartbeat asks again, answers; faults are finite.
`BoardSetup`: `app_main`, the restart half a second after a reset, and
`claim_task` run, a board in reach of its network joins it, and the manager
answers the phone's credentials; the phone, the hand at the console and the
owner need do nothing.

## 5. What is proved

TLAPS proves, for every value of the constants that satisfies the named
assumption of each module:

| theorem | assumption beyond the module's | argument |
|---|---|---|
| `TrackerProofs!TypeCorrect`, `NoTimerIsStranded` | | `IInv` = types, what each thread has in hand (`InHand`), and the property. `NoStrandedTimer` alone is not inductive: that a live reference implies a dictionary, and which key a thread works on, are needed for the re-key and the clean-up |
| `CooldownsHaveRows` | | a finaliser about to start a cooldown has written the row it starts it for (`MarksItsRow`), and a row stays; nothing is assumed of how long writes stall or how many finalisers of a contact overlap |
| `FiledUnderItsId`, `IdTimersRegistered` | `SingleIdentity`: no address says two IDs | an aircraft with an ID is filed under it and nothing re-keys it (`Identified`), so its timers keep their registrations, fired ones included. With two IDs they do not (`WaitingIsRegistered`, section 6) |
| `ExpiredSuppressesNobody` | `Stall < Cooldown` | `Suppressible`: an entry that a capture thread finds after its look is younger than the frame it carries; a mark that a finaliser puts there is at most `Stall` old |
| `LoneAircraft`, `LoneNeverForgotten`, `LonePositionTime`, `LoneNeverRaises` | `Timing`, `SingleIdentity`; `Alone`: one aircraft, heard on one transport; for the second and the last `~ CsvFails` | `Lone`: one thread registers, and there is one entry, filed under `r`, the address until it has said its ID and the ID after. The timers of a contact follow each other (`OneAtATime`, from the clocks in `OnTime`, theorem `Punctual`), a mark outlasts the test (`Covers`) and nobody removes one that is needed (`Removable`): `Apart`. A finaliser of the bare address has ended before the ID's first timer fires (`Succession`), so a clean-up finds nothing but the address' old cooldown (`CleansAddress`) and never the entry; and the set of addresses an exporter walks over cannot grow (`Undisturbed`). Of two aircraft or two transports these statements are false (section 6), and the run `ContactsOneTransport` satisfies the assumptions |
| `OnlyRefusedSetAside` | | `OutboxIInv` adds that ids are gapless, that verdicts never change (`Judged`), that the batch is pending rows only (`InFlight`) and that an answer's indices stand for refused rows of it (`Reported`, from lemmas about `Index`) |
| `OnlyStoredMarkedSent`, `QueueDelivers` | `ErrorCap >= BatchSize` | the same invariant; each action is a step of `Delivery` or a stutter |
| `IdentityCacheProofs!InferenceIsUnchallenged`, `OldInferenceIsStrong` | | `IInv` relates every row to the histories: an unquarantined row's ID is that of the first contact tried, every contact that found the row and said another has quarantined it, and its sightings are the records; a finaliser's stale read keeps its ID, because a row's ID never changes |
| `UpdaterProofs!TypeCorrect`, `CodeAndUnitAgree`, `RejectedIsStopped` | | until its verdict a run is about a release without one (`NotYetJudged`). `Sound` has three parts, for what may have gone wrong since a release was verified: whatever did, a run that goes well ends on the release it is about (`Forward`); unless one was cut short, the unit is a verified release's until a run installs its own, and so is the one it keeps (`UnitSound`); and if nothing did, there is a verified release to return to, with its unit, and outside a roll-back none of the rejected ones runs (`CodeSound`) |
| `TimeSliceProofs!TypeCorrect`, `EveryContactAccounted`, `StoredInOrderOnce` | | `IInv` adds that the driver's task works on the newest contact (`InHand`), that nothing is in hand outside the upload loop (`Posting`: without it emptying the queue would lose what is there), and that the server's, the posted and the queued contacts follow each other in the order heard (`Ordered`, from lemmas on increasing sequences and their parts) |
| `RestartsOnlyAfterFailure` | | `Undisturbed`: while nothing has failed the one disconnection is `leave_network`'s own, made with the station held, and the board wakes only after its event is handled; so the handler never connects behind the capture task, and the station is idle when the channel is claimed |
| `SensorProofs!SlotsTypes`, `Unambiguous`, `ConflictStays`, `AgeBound` | | `IInv` relates slots to history: an address has one slot; what a slot says was heard from its address and no later than the clock says, give or take the steps; while the slots suffice nothing was evicted, so an unquarantined entry is all that was heard; while conflicts have not filled the cache a quarantined entry is never the victim. What fills the cache is counted, so `ConflictsKept` and `AllKept` need an argument over `Cardinality` |
| `BoardImplementsSlots`, `BoardInfersSoundly` | | every step of `Capture` is a step of `SlotsSpec` or leaves the cache alone |
| `DecodersReadAlike` | `Locations \subseteq Message`: sequences of 25 bytes | field by field: the shifts of C and the `struct` formats of Python give the same integers, and the arithmetic after them the same tenths; stated of every message, not only of the enumerated ones |
| `BoardsAndPiAgree` | `ReadableInputs`: any bytes, but for names that are not text, the name "N/A" and type 13, whose label does not fit; TLC evaluates it as an `ASSUME` of `MCCapture` | the same, and: trimming from both ends, written as two loops here and two methods there, leaves the same text (`SameName`); a signature found at an offset or searched for is found alike (`SamePlace`); and a payload that says nothing twice gives the same contact whether messages are listed and then looked through, or folded into a dictionary (`SamePayload`, by least counterexample over prefixes, `UpTo`) |
| `QueuesWhatItHeard` | `Spelled`, about single messages and addresses; TLC evaluates it as an `ASSUME` of `MCCapture` | an inferred name is some slot's, and what a slot says was heard from its address (`IInv` above). That the names found are those carried is `EveryNameDecoded`: an advertisement gives back its message (`ReportedWhole`), a beacon of one or two its transmitter and its messages (`FramedWhole`), and a name its ID (`NamedByMessage`) |
| `DamageNeverSpreads` | | what is on the wire is whole lines but for the first (`AsWritten`). The master is in step if what it has read of the current line is what the wire had before the rest (`InStep`). Then no line is lost without a fault, and when it is out of step the line it reads is lost as well: `LinesAccounted` counts that line (`Astray`), and only a newline brings it back in step |
| `LinkTyped`, `ForwardedInOrderOnce` | | `LinkOrder`: seven places a contact can be in, from the server back to the wire, hold numbers that rise from one to the next (`Sequel`); each action moves contacts one place on, drops them, or adds the newest at the far end. The order within the line is not needed, since a line holds one contact that counts; that within the wire is (`RisingLines`). The types need it as well: a line accepted is one that was sent (`LinkCounts`) |
| `ReportingProofs!Types`, `NoneGoesMissing`, `StampsAreTrue`, `SilenceIsTold` | | `IInv` adds what each task has in hand where it is (`InHand`), that what a task has read of `failed_count` is no more than has been added to it, and all of it until the link task has stored an addition (`Counting`), that what waits was heard since boot, when its `decoded_us` says (`Timely`), that what is packed is stamped so already (`Stamps`), and that the counter is the mark plus what came since, modulo its width: equal only if nothing came, as less than a full turn does between two heartbeats (`Marked`) |
| `BoardSetupProofs!Types`, `RadioFits`, `KeyStays`, `OldNetworkStaysForgotten` | | `IInv` says where Bluetooth can be at each point of `app_main` and for which role, that the claim's key is the flash's once it is ready, and that past provisioning a stored network was sent since the last reset or the restart is due |
| `ClaimProofs!TypeCorrect`, `ClaimedStaysItself` | | `OneIdentity`: all copies the receiver could come to run as (`MayReturn`: in its files, in a temporary beside one, in hand, or what a power cut would bring back) are of one identity, the claimed one if there is one. A new one is generated only where there is none: a claimed identity always leaves a file wherever the receiver looks (`Kept`), even torn, which stops it; what a cut may undo is bounded (`Undoable`); a salvaged temporary meets no rival (`NoRival`) |
| `ClaimedIsOnDisk`, `MigrationMovesAll` | | until a cut only `migrate_state.py` leaves a torn file, and never the only one (`Whole`); how far it has come says which of original and copy is whole (`Moving`, `MovesAll`) |

Only model-checked: every liveness property (`AlertsAreAnswered`,
`EveryRowIsSettled`, `RestartsCease`, `WantedArrives`, `ClaimedReports`, `QueuedIsStored`,
`ComesBack`, `BatchIsStored`, `LinkIsTold`, `FirstIsStored`, `KeyArrives`), which
is out of this prover's reach as is `ENABLED`. Every safety invariant and action
property of a passing run is stated by a theorem.

## 6. Where the code departs from what is said of it

Listed as a finding, with a run that refutes the statement:

* `ContactsLost`: a finaliser that iterates over a shared set or dictionary
  outside the lock dies when a capture thread changes it, and the detection is
  neither logged nor queued.

Further configurations, each statement of which TLC refutes, that are not among
the listed runs. Where a configuration names several, TLC stops at the first one:
leave the others out to see each.

| configuration | module | statements that do not hold |
|---|---|---|
| `ClaimInterrupted` | `ClaimDepartures` | `InterruptedIsFinished`: "an interrupted migration has to be finishable" (`tests/test_state_paths.py:382`, `migrate_state.py:10`): a copy that was cut off is kept by the next run, unverified, which then reports success (`migrate_state.py:175`) |
| `TimeSliceHeld` | `TimeSliceDepartures` | `HeldIsOffTheAir`: "Held, the station stays off the air until released" (`uplink.h:137`): the event handler tests the flag and connects in two steps (`uplink.c:141-143`), and the capture task may hold and disconnect in between |
| `PeerLinkHalf` | `PeerLinkDepartures` | `NeverHalf`: "half a contact is worse than none" (`uplink.c:535`): `snprintf` has written it behind the batch by then, and the next request carries it |
| `ContactsTwoIds` | `ContactsDepartures` | For an aircraft with two IDs. `AddressesAgree`: "later packets from either MAC land on the same entry" (1123); `ForgottenOnlyByException`: a re-key between a finaliser's registration and its read leaves it without a dictionary; `WaitingIsRegistered`: a finaliser pops the registration of another timer (1230), after which the next packet sets a second one; `OncePerCooldown`: both of them write a row (1531), although every thread keeps to `Timing` |
| `ContactsTwice`, and `ContactsTwoTransports` with `INVARIANT OncePerCooldown` | `ContactsDepartures` | `OncePerCooldown`: "a contact is logged once per cooldown" (`radio_tracker.py:1531`): cooldown test, row and mark are not under the lock, so when a finalisation stalls for the alert delay a second one of the contact passes the test before the first has marked it |
| `ContactsTwoTransports`, with `INVARIANT AddressesAgree` | `ContactsDepartures` | "later packets from either MAC land on the same entry" (1123), with one ID: a frame on the second address falls between the pop of the contact's addresses and that of their mappings (1569-1570), and the contact lists an address that leads elsewhere |
| `ContactsStale` | `ContactsDepartures` | `RowOfItsOwnPass`: "each new sighting starts from nothing" (477); `DecodedOnThisPass`: an ID reported as decoded was decoded on this pass (1521); `ReceiveTimeOnRecord`: the stamp falls back to the clock only outside the capture path (1544) |
| `ContactsStalePosition` | `ContactsDepartures` | `PositionTimeMatches`: the position's time is that of the position (1150), on two transports: a contact's dictionary outlives its cooldown until another contact's alert clears it |
| `UpdaterDepartures` | `UpdaterDepartures` | `OwnStatus`: "Only trust a status file this build wrote" (`update.sh:300`), though the old build's last one may be of the same second; `PutBack`: a release that goes badly is put back (`update.sh:3-4`), though a run killed after its checkout is never undone; `WorkingNotRejected`: a crash of its own at the wrong moment rejects a good release; `RunsTheCheckout`: a receiver may crash and restart while an unprepared release is on disk; `RollsBack`: code *and* unit are rolled back (`update.sh:16`), though a checkout back that fails is passed over with a warning (202, 252), and the run ends with the other release checked out |
| `ReportingDepartures` | `ReportingDepartures` | `RelayedWhenHeard`: nothing is reported with a stamp of 1970 (`uplink.h:24-26`), though what the sensor sends before the clock is set is; `DeliveredLater`: "keep capturing, deliver later" (`uplink.c:304-305`), though a batch that is not ready is dropped; `RestIsLeft`: what does not fit is left "to the caller's next pass" (`uplink.c:398-399`), which takes a new batch; `AllCounted`: "count it so the shortfall is never silent" (`uplink.c:421`), though an addition to `failed_count` that overlaps the link task's is lost |
| `BoardSetupDepartures` | `BoardSetupDepartures` | `StrayBytesIgnored`: "stray bytes ... never trip it" (`wifi_reset_console.c:18-19`), though 32 of them before the command do; `ReachableFromTheStart`: `resetwifi` works on a board that cannot find its network as soon as the console listens (`main.c:447-450`), though not before the driver is initialised |
| `Capture`, with a property of `CaptureDepartures` | `CaptureDepartures` | `NamesAgree` (`odid_decode.c:121-126`): Python strips line feeds and the like from the ends of a name, and drops what is not ASCII, before it looks for control bytes; `PacksMeanTheSame` (`odid_decode.c:167-171`): of two Locations in a pack Python keeps all of the later, C what the later leaves out; `LabelsAgree` (`odid_decode.h:114`): "Tethered Powered Aircraft" does not fit the field; `AlwaysEvictsOldest` (`identity_cache.c:38`), without the symmetry: a clock that was stepped back makes the newest look oldest |
| `IdentityCache`, with `INVARIANT InferredIsUnambiguous` | `MCIdentityCache` | "A MAC that has reported two different UAS IDs is not evidence of anything" (`radio_tracker.py:497`): of two finalisers that look up a new address at once the second's `INSERT`, of another ID, is caught and forgotten (531), and the first one's ID is inferred |
| `IdentityCache`, with `INVARIANT QuarantineLifts` | `MCIdentityCache` | an address is quarantined "until it is decoded consistently" (501): nothing ever lifts it |
| `OutboxDelivery`, with `ErrorCap = 1` and `INVARIANT SentIsStored` | `Outbox` | sent means stored, when the server truncates its error list below the batch size |

`NoForgottenContact` is checked for one aircraft on one transport. With two
(`TwoAircraft` of `MCContacts`, a failing CSV and a second pass) it does not hold:
while one contact's finaliser is between `DeleteExpired` and `DropRest` of
another, the other comes back, and the clean-up drops the dictionary that its new
timer will look for. No line of the repository says otherwise, so it has no
configuration. For one aircraft on one transport it is proved
(`LoneNeverForgotten`).

Below the model's grain one more thing can happen, by reading: if a clean-up of a
contact pops its addresses and their mappings between 1183 and 1203 of a re-key to
that very contact, the address is mapped after it was forgotten, and leads to the
contact until it is heard again and cleaned up once more. No property here is about
such a mapping.

Some comments and pairs of implementations differ without consequence for a
property and have no configuration. `peer_link.c:179` says an overlong line is
discarded "to the next newline", while the code drops what it has and reads on;
the rest of the line is then taken for a record and fails its checksum, or is
one. A Wi-Fi contact's `message_count` counts every message of a pack on the
board and only the decoded ones on the Pi. A board's cache counts each decoded
message as a sighting, the Pi's each contact. An empty Basic ID is rejected by
the board and becomes a contact named "N/A" on the Pi. The Pi reads its claim
code from the answer to its status request, the board from that to its
registration, which it sends until it has one, once per start.

## 7. Not modelled, and why

Of the Pi: starting, watching and restarting `hcitool` and `hcidump`, monitor
mode and channel hopping are process and device I/O whose outcomes the models
take as frames heard or not; the reassembly of HCI events and the radiotap header
are parsing of that I/O; `provision.sh` is run once, by hand. `Health`, the
heartbeat's marks, is in the plan. Of a withdrawn claim, `migrate_state.py
--force` and an operator's edits of the updater's files nothing is said.

Of the boards: `uplink_report`, the single report, has no caller; the text of a
contact and of a status is told apart only by whether it fits, and
`receiver_ext` appends nothing in this repository; `derive_identity` hashes the
salt and the address to data that never changes; a static address or compiled-in
credentials are other builds, and the sensor-only uplink is stubs. The counters
of a status line, the log, and signal strength are data nobody decides on.

`PROJECT.json` says so component by component.
