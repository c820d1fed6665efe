# Verification of midea_connect

TLA+ models of the Home Assistant integration in `src/custom_components/midea_connect`,
the TLC runs that check them on small instances, and theorems that TLAPS proves for every
value of the constants. File names without a directory are below
`src/custom_components/midea_connect`; `PROJECT.json` maps every definition to the lines it
models and lists the runs, findings, hazards and theorems.

## 1. The system

The integration controls Midea air conditioners over the LAN and brings new ones there over
Bluetooth. It is one asyncio program: a *step* is the code between two awaits, and everything
that can go wrong comes from what other tasks, the appliance, the network or the cloud do
while a task is suspended.

| component | state | operations | interacts with |
|---|---|---|---|
| Device update coordinator, `coordinator.py` | one lock for commands, refreshes, recovery and the idle listener; the listener task; a count of registered entities per optional group | `apply`, `_async_update_data`, `_async_listen`, `async_shutdown`, (un)registration of entities | every entity calls it; it owns the proxy and the LAN connection; asks the address recovery for help |
| Device proxy, `device_proxy.py` | `_staged`, the changes not yet sent | `__setattr__` stages, `__getattr__` reads through, `apply`, `refresh`, `set_direct` | stands between the entities and the msmart device object |
| Idle LAN reports, `lan_push.py` | the notifying packet queue, the `received` signal, counters | `_connect`, `put_nowait`, `read_available`, `apply_lan_report` | the listener drains it under the coordinator's lock |
| Address recovery, `lan_discovery.py` | one lock, the last scan, its time, a cool-down per entry | `recover` | shared by all entries; called by set-up and by refreshes; updates config entries |
| Entry life cycle, `__init__.py` | the stored options in seven layouts, `hass.data`, update listeners | migration, set-up, reload, unload | creates coordinators; registers the listener that reloads an updated entry |
| Climate, fan, number, select, switch, button entities | none of their own (climate: the last fan speed) | service calls: one or two staged changes, each with an `apply` | coordinator; the display switch and the buttons call the device without its lock |
| Sensors, `sensor.py`, `binary_sensor.py` | none | registration for optional data | coordinator |
| Bluetooth provisioning, `bluetooth_provision.py` | `ProvisioningState`: the progress that survives a retry | `provision_device` and its stages | Bluetooth session, cloud clients and bindings, LAN discovery |
| Bluetooth config flow, `bluetooth_flow.py` | the running task, its error, the Wi-Fi credentials in use and to be saved, the selected account | probe, set-up, finish, confirm, expired and LAN screens | runs the provisioning; the Wi-Fi store |
| Bluetooth session, `bluetooth_transport.py` | frame buffer, two bounded queues, session key, sequence number | handshake, `device_info`, `configure_wifi`, `wait_for_network` | provisioning |
| Accounts, `smarthome_account.py`, `nethome_account.py`, `account_device.py` | access tokens, session keys | login, registration, token retrieval | flows, provisioning |
| Cloud binding, `smarthome_binding.py`, `nethome_binding.py` | the logged-in session | `owned_id`, `wait_for_device`, `bind`, `confirmation_status`, `start_confirmation` | provisioning |
| Account flows, `account_flow.py`, `smarthome_flow.py` | what has been submitted, and whether its outcome is uncertain | registration, e-mail code, activation, login | account clients |
| Stored Wi-Fi credentials, `wifi_credentials.py` | passwords by network, the last one used, one lock | `async_networks`, `async_get`, `async_save` | every Bluetooth flow |
| Config and options flow, `config_flow.py` | form input | discovery, manual entry, restore, reconfiguration, options | entries |
| Discovery, Wi-Fi scan, diagnostics, credential backup | none that lasts | parsing, read-only output, one written file | - |

### What is hard here, and what makes each component correct

* **Coordinator, proxy, reports.** Several entities, the poll timer and the listener compete
  for one connection on which two readers would steal each other's answers; changes are staged
  before the lock is taken and cleared after the exchange, so other calls stage in between;
  the listener's signal is set and cleared by different tasks; a shutdown cancels the listener
  wherever it is. Correct: exchanges never overlap; a staged change is in the next frame; no
  report is stranded; calls and shutdowns return; the known state becomes the real one; a
  closed connection stays closed.
* **Optional data.** A group is asked for exactly while some entity uses it.
* **Address recovery.** Entries share scans up to a minute old; entries are reconfigured,
  removed and reloaded while an address is verified; the set-up stores the coordinator before
  it listens for updates. Correct: what the user saves during a verification stands; scans are
  limited; an updated entry is reloaded; an entry finds its device again.
* **Provisioning and its flow.** Every request over Bluetooth or to the cloud may take effect
  although its answer is lost, and a retry decides from what it remembers and what it can
  read. Correct: credentials are not written, an owned appliance is not bound and a
  confirmation is not started a second time; a pairing that counts as bound is the selected
  account's; retrying is enough to finish; only a password in use is saved.
* **Account flows.** Registrations and mailed codes are requests that must not be repeated, but
  their answers can be lost; dialogs for one address run side by side, and closing one leaves
  its request under way. Correct: a flow that may have registered never does again, and its
  account is saved in the end; one entry, with a password that works, for each account.
* **Bluetooth session.** Notifications arrive in pieces, garbled, repeated or not at all, beside a
  signal that the connection was lost; two bounded queues separate replies from reports; for
  SmartHome two tasks share the session. Correct: an answer belongs to its request; readers get
  the frames in order, and an error before the first frame that follows a loss; nothing but a
  rejection unmarks the write; a bind waits for both tasks; every session ends.
* **Entries and their settings.** Migration runs through up to six steps in one go, and its result
  is saved later; set-up reads the options at three moments and only at its end listens for
  changes. Correct: settings keep their meaning through every layout and crash; a loaded entry
  runs with the settings last chosen, and a change comes into effect in the end.
* **Climate entity.** The appliance's presets are separate flags which a remote control sets as
  well. Correct: what is chosen of what the entity offers is what it shows from then on.
* **Stored Wi-Fi passwords.** Every load and save is inside one lock which all flows share, so
  nothing interleaves there.

## 2. Modules

| module | models | composed from |
|---|---|---|
| `DeviceCoordinator` | `coordinator.py`, `device_proxy.py`, the queue and connection of `lan_push.py`; service calls as scripts of changes | - |
| `DirectCalls` | the display toggle (`switch.py`) and the buttons (`button.py`), which bypass the lock | extends `DeviceCoordinator` |
| `RequestGroups` | registration of entities for optional data | - |
| `AddressRecovery` | `lan_discovery.py` with set-up, refresh and reload of entries | - |
| `Provisioning` | `bluetooth_provision.py` with the screens of `bluetooth_flow.py` | refines `Pairing` |
| `Pairing` | abstract: what a pairing has achieved, and what may happen to it at once | - |
| `BleSession` | `bluetooth_transport.py` with the part of `bluetooth_provision.py` that runs inside a session | refines `FrameChannel` |
| `FrameChannel` | abstract: ordered lanes of frames in which a loss is announced | - |
| `EntryOptions` | the layouts of a stored entry and `async_migrate_entry`, as operators | - |
| `ClimateEntity` | modes, presets and fan speeds of `climate.py`, as operators | - |
| `Entry` | an entry's life (`__init__.py`), the settings form (`config_flow.py`), what `sensor.py` and `climate.py` make of the options | extends `RequestGroups`, `EntryOptions`, `ClimateEntity` |
| `AccountFlow` | `account_flow.py`, `smarthome_flow.py` with the requests of both account clients | - |
| `MC*` | the instances TLC checks | the module of that name |
| `*Proofs` | theorems and proofs | the module of that name |

Operators marked `Slip` in a module are not part of its specification: each is a definition of
the module with a plausible programming mistake in it. Every property of a passing run fails
when the definition is exchanged for the slip `PROJECT.json` pairs with it.

### DeviceCoordinator

| state | code |
|---|---|
| `holder`, `waiters` | `coordinator.lock`, a fair `asyncio.Lock`: the task inside, the tasks in its `acquire()` |
| `pc` | the await each task is suspended at: service calls, `"poll"` (the one refresh that the base class lets run), `"listen"`, `"shutdown"` |
| `staged`, `device`, `frame`, `appliance` | the proxy's `_staged`; the msmart object; the state in the frame under way; the air conditioner |
| `conn`, `queue`, `received` | the transport (closed, connected, authenticated), the protocol's queue and the signal `PushLAN.received` |
| `fate` | history: what became of the change each call made last |

A free lock is taken in one go by the code: here a task queues and is granted with nothing it
could do in between. `Stage` is an entity's method up to the lock, `BeginApply` the code that
copies the staged changes and builds the frame, and `ApplyAnswered`, `ApplyUnanswered` (msmart
marks the device and returns) and `ApplyRaised` (the exception leaves `coordinator.apply`) are
its outcomes. After an apply the call requests a refresh; it waits in `"settling"` if that
starts one, and returns at once if one is running, the debouncer cools down or the entry is
unloaded. A failed refresh keeps the lock while it looks for a new address
(`RecoverAddress`, opaque here; `AddressRecovery` models it). `ListenerCancelled` may happen at
each of the listener's awaits. No service call starts on an unavailable entity or after the
unload began; those that have started go on, as Home Assistant does not cancel them.
Abstracted: notifications, push statistics and time stamps, the decoding of reports (each
carries one attribute), entities' own conversions.

`DirectCalls` adds tasks which use the connection without the lock: a toggle reads the known
display state, and then toggles and requests a refresh; a press only sends. Their refresh reads
back the new state, which favours the code. `turn_off` is `turn_on` with the values exchanged.

### RequestGroups

Entities are added and removed in any order, each in two steps, since the base class is awaited
before the (un)registration; a group the device class lacks is skipped. The model keeps the
coordinator's count of each group and the request flag that `set_direct` writes on the device.

### AddressRecovery

| state | code |
|---|---|
| `saved` | the entry's data: an address, and token and key (`keys`) |
| `life`, `target`, `reload` | how far the set-up is, the address of the device object it built, a reload that is due |
| `rec` | where each recovery is: waiting for the lock, scanning, verifying, answered |
| `original`, `candidate` | its locals: the data it read, the address it verifies |
| `devices`, `scanWait`, `verifyWait` | the last scan, and the two cool-downs, which count down; a minute is `Interval` ticks |
| `missed`, `changed`, `scanAge` | history: an update that no listener heard; what the user did to an entry under verification; the age of the last scan |

A set-up and a poll of the same entry can both ask, also a poll of a coordinator that is being
replaced. A set-up authenticates, queries the capabilities and refreshes; a failure of the first
or the last asks for a recovery and is retried (`SetupFails`, `Return`), one of the query ends
the set-up (`CapabilitiesFail`, life `"failed"`) until something reloads the entry. A scan finds
every device; one that costs a fault lacks one answer or has one that is outdated, conflicting or
false; another kind raises. `Answered` is the last answer of a verification and `Verified` the
code that runs after it. Entries have saved keys, so that verification is by authentication at
the address. A reconfiguration saves an address and keys it has tested, and a forced reload that
changes neither is left out. When a recovery returns, its caller goes on without an await
(`Return`).

### Provisioning

| state | code |
|---|---|
| `screen` | the step of the flow the user sees; `"working"` while the task runs |
| `stage`, `session` | the await of `provision_device` the task is at, and whether it is inside the Bluetooth session |
| `state` | `ProvisioningState`: `write_started`, `bound`, `appliance_code`, `confirmation_started`, `binding_expired` |
| `account`, `wifi`, `toSave`, `force` | `_setup_account_entry_id`, `_ble_wifi`, `_ble_wifi_to_save`, `_ble_force_setup` |
| `told`, `net`, `report`, `proof` | the appliance: credentials it was told and has not tried, its network, what it reports over Bluetooth, whether the cloud saw it with this pairing's random code |
| `owner`, `confirmed` | the cloud: who owns the appliance, and whether that was confirmed at it |
| `given`, `asked` | history: credentials it has and has not failed with; a confirmation that was started |
| `store` | the password in the Wi-Fi store |

A request takes effect when it is sent, or is lost, which costs a fault; its answer is another
step and can be lost too (`Interrupted`, which also is the time limit of the task). `Fail` is
the common end of a failed task: which screen follows, and which credentials are cleared. The
stages of `_link_smarthome` are `OwnershipChecked` to `OwnershipPending`; NetHome's shorter
path shares `Bind` and `BindAccepted`. The user may retry, restart the confirmation or the
pairing, choose another account of the provider, or leave; the vendor's application may link
the appliance elsewhere between two attempts. Left out: serial checks (one appliance),
messages, the trace, form validation, and the saved passwords as input.

**Pairing** is what `Provisioning` implements. It knows which credentials the appliance was
`given` and has not refused, its `owner` in the cloud and whether that was `confirmed`, whether a
confirmation was `asked` for, the account the pairing counts as `linked` to, and whether the
`entry` was created. Giving, linking, asking and creating happen only where they make sense, and
once until a refusal or a new start. Under the mapping in `Provisioning` (`Steps`) every step of the detailed system is one of these or changes
none of them. It brings the four separate promises of `Provisioning` into one picture, and says
in which order they may be used up.

### BleSession and FrameChannel

| state | code |
|---|---|
| `pc`, `result` | the request whose reply the caller awaits, or the wait for both tasks; how the session ended |
| `queue`, `buffer` | `_queue` and `_status_queue`; `FrameBuffer` |
| `sequence` | `_sequence`: it continues from the number in the last reply, any in range |
| `lookup`, `network` | the tasks of `_wait_for_smarthome_device`; for NetHome `network` is the caller's own wait |
| `marked` | `ProvisioningState.write_started` |
| `link`, `air`, `owed`, `wifi` | the connection, units on their way, the request to answer, what became of the credentials |

A frame is two units, a head and a tail; a notification is any number of the units on their way,
so that it can end within a frame, hold several, or join the end of one to the start of the next.
`Receive` is the callback: it sorts whole frames into the queues, or, when the bytes make no
sense or a queue is full, puts one error in place of everything in both. A lost connection adds
an error to each queue with room for it; the attempts of `establish_connection` have the same
callback, so an attempt that failed leaves an error for the session that follows. Binding itself
is `Provisioning`'s, which treats the acknowledgements 0 and 3 (the appliance has Wi-Fi information
already, `bluetooth_transport.py:279-283`) alike, as `provision_device` does but for its trace. Cryptography is reduced to whether a reply can be read (`"junk"`).

`FrameChannel` is the promise to the readers. Its one variable is what a reader will get if
nothing else happens, which the mapping computes from the queue, the buffer and the air. Frames
are appended and taken; a garbled arrival may only put an error in front of the last part; a lost
connection may only cut off the end and put an error there, or nothing if the lane is full.

### EntryOptions, ClimateEntity and Entry

An entry is a record of its layout's version, its data and a function from the options present.
`To12` to `To17` are the steps of `async_migrate_entry`, each guarded by the version as in the
code, and `Migrated` is their chain, which runs without an await. `Meaning` is the reference: what
the options of each version, read by itself, ask of the program. Lines of capability overrides
are members of a set, scales are in tenths.

| state of `Entry` | code |
|---|---|
| `entry`, `disk` | the entry in memory and as last saved; Home Assistant saves with a delay |
| `life` | how far `async_setup_entry` or `async_unload_entry` is; `waiting` for a retry, `broken` after an error that is not turned into one, `refused` for a later major version, `stuck` after an unload that failed |
| `running` | what the objects in use were built with: capabilities, poll interval, workaround, sensor formats |
| `reload` | a task of `async_reload_entry` waits for the lock of the entry |
| `ac` | the device as the proxy shows it to the climate entity |
| `missed` | history: the options changed while the set-up ran |
| `asked` | history: the command given last, if nothing else set the device and no reload began since |
| `phase`, `count`, `enabled` | from `RequestGroups`: the entities, the coordinator's counts and requests |

`Prepare`, `Forward` and the end of the set-up are separated by its awaits. Entities come with the
platforms and leave with them, or when their user disables them (a change in the budget). A crash
loses memory and whatever was not saved. When a platform is not unloaded (`UnloadFails`) the
coordinator stays, entities that are left answer, and Home Assistant, which counts such an entry
as not recoverable, reloads it only after a restart. `Command` is any service call of the climate entity, for
what `ClimateEntity` says it offers at that moment; `Remote` is a refresh that finds the device
changed. How commands reach the device is `DeviceCoordinator`'s and is one step here. The effect
of overrides on capabilities is msmart's: merged with or in place of what was detected, key by key.
A settings form returns the sections it showed, and replaces all other options. A current entry of
an AC without the options of its energy or power sensor, for which `sensor.py:72-75` raises, does
not come from the form or the migration; `Forward` would read it as one without a format.

### AccountFlow

All flows are for one e-mail address. `screen` is the step the user sees; it stands for the
flags `_account_submitted`, `_smarthome_code_sent` and `_smarthome_random_code`, which the code
keeps so that a step entered out of order leads to the right screen. `call` is the request the
flow's handler awaits with what the cloud decided (one at a time: a dialog does not submit
again while it waits, which is assumed of Home Assistant's front end, since NetHome's form sets
`_account_submitted` only after its await), `claimed` the unique id of the flow, `wait` the rest of the 60 seconds
until `_smarthome_next_send`. `mayExist` and `since` are history. A closed dialog keeps its
handler: a SmartHome code is still sent when the address check ends (`Prepared`), while a
registration that ends is not followed by the login (`Registered`), because the address was
forgotten. The checks of `prepare_registration` and the steps of a login are one request each:
they change nothing at the cloud, and losing one is losing the answer. Left out: form
validation, regions, and the form that changes a saved password.

## 3. Runs

| run | instance | question |
|---|---|---|
| `coordinator_one_call` | one call of two applies, two attributes, two values, one each of push, fault and remote control | exclusion, the queue of the lock, no stranded report, calls and shutdown end, the state converges |
| `coordinator_reopened` | as the first | **finding**: a call's second apply reopens the connection after the shutdown |
| `coordinator_lost_change` | two calls of one apply | **finding**: a change staged during an exchange is cleared and never sent |
| `direct_beside` | two calls of one apply, one toggle, one press | pending changes survive the unlocked calls; only those open the connection again after a shutdown |
| `direct_readers` | one call, one press | **finding**: two readers on one connection |
| `entry` | an AC's entry of the first layout, a CC's of 1.5, one of a later major version; three entities of two groups, one unsupported; two changes, a crash, a set-up or unload that fails | types; requests follow the entities; settings keep their meaning and are in effect; a command shows; a change takes effect |
| `address_recovery` | two entries, three hosts, a minute of two ticks, one each of move, fault and user action | what the user saved stands, how often scans run, reloads, reconnection |
| `address_overlap` | one entry, otherwise the same | **finding**: an entry updated before the reload listener exists stays on the old address |
| `provisioning` | three accounts of two providers, a right and a wrong password, two faults, one restart or foreign link | no completed step is repeated; bound means owned; retrying finishes; `Pairing` is implemented |
| `provisioning_saved` | as before | **finding**: a password the appliance never used is saved |
| `ble_session` | one session; queues of two, chunks of up to three units, sequence numbers up to two, two faults, one report | answers and requests, the mark, the bind, `FrameChannel` is implemented, every session ends |
| `account_flow` | two flows, two passwords, a cooldown of two ticks, two faults, accounts that may exist before | registering once, one working entry, codes apart, the account is saved |

**Bounds.** Each property needs few actors to fail: two tasks compete for a lock, a third is
the one that suffers; two entries share a scan; a lost message, then a lost answer. The
environment's events are bounded by `Budget`, everything the program does is not. Two attributes
and two values tell "mine", "the other call's" and "the appliance's" apart. A minute of two
ticks has a middle, so that a scan can be fresh, stale or expired. Two faults allow a lost
request with a failed check after it, and are what the longest recovery paths need. Values,
hosts and networks are not symmetric where liveness is checked, so no symmetry is used.

`entry` starts from the oldest layout of an AC, because it passes every step of the migration, and
from a CC's without options; the theorem `MigrationKeepsMeaning` covers the layouts between. Two
changes are two forms, or a form and an entity that is disabled; the forms differ in each setting
the set-up reads, and one holds overrides that are not accepted. The device of each type has
several presets set, a fan speed without a name (`Numbers`) and, for the AC, smart dry. In `ble_session` queues of two are full after one repeated
answer or report; a chunk of three units ends in the middle of a frame after a whole one; with
two sequence numbers each request is at the wrap for some number in the reply before it.

**Deadlock** is checked in every run but `entry`, where an entry that is refused or stuck rests for good and
one that is loaded waits for its user once the bounds are used up. Elsewhere a system that
legitimately rests has an action that says so (`Stopped` in DeviceCoordinator, `Ended` in
Provisioning and BleSession), enabled only there; in AccountFlow time always passes (`Tick`), and
every open dialog can be closed.

**Fairness.** The event loop runs what can run, msmart and httpx bound each exchange by a
time-out, and `provision_device` by 240 seconds: weak fairness of each task's own steps. The poll
timer fires (`WF(PollStart)`). The appliance tries credentials it was told. `RetryFinishes`
assumes a user who does not give up: retries (weak), confirms at the appliance when asked and
starts again a confirmation that never ends (strong, because both are offered again and again
without staying enabled). `Finishes` assumes that the owner of the address follows the
activation link and that the user, among other passwords, keeps trying the right one (strong:
the form is gone while a wrong one is checked). `Works` assumes that the session's own tasks and
callbacks run, each wait having its time-out, and that an appliance that is in reach answers and
tries what it was told; `Reconnects` that set-up is retried, polls go on and the lock of the
recovery, which wakes its waiters in order, passes over none of them (strong fairness of `Enter`: the
lock is taken and free again); `ChangesTakeEffect` that Home Assistant runs the tasks of set-up, reload and
unload and retries a set-up that was not ready (`Tasks`), and nothing of saves, crashes or users. Nothing is assumed of other users, remote
controls, the network or a shutdown request, and faults are only bounded in number.

### Findings

1. `device_proxy.py:56` clears every staged change after the exchange, also one that another
   entity staged while it was in flight; the second call then reports success.
2. `climate.py:232`: `set_temperature` with a mode applies twice; an unload between the two
   closes a connection which the second apply opens again, for good.
3. `button.py:85`, `switch.py:82` use the connection without the lock, against the comment in
   `lan_push.py:5-6`.
   Two overlapping `display.turn_on` are one consequence: both see the display dark, both
   toggle, and it stays dark (`switch.py:118`).
4. `__init__.py:122`: an address recovered while the platforms are set up updates an entry that
   nobody reloads. `Reconnects` exempts what follows: the entry stays on the old address until its
   next update or restart.
5. `bluetooth_flow.py:116`: an appliance that is on the LAN already gets no new credentials
   because the frame is lost; a retry finds it owned and at its old network, the set-up
   succeeds, and the password it never tried replaces the saved one.

## 4. Proofs

Every safety property, action property and refinement that a passing run checks is a theorem,
for every set of tasks, attributes, entries, hosts, accounts and networks, every size of a queue
and every budget, from the named assumptions on the constants alone (which TLC evaluates in each
run). An invariant is proved from one that is inductive, laid out as the initial case and one
lemma for each action or group of actions.

* `DeviceCoordinatorProofs`: type correctness; `LanExclusive` with `WaitersQueued` (each needs
  the other: a grant is safe because the first in the queue is suspended and the lock free);
  `NoLostWakeup` from `WakeupInv`: the listener clears the signal whenever it gets the lock, so
  one must know what the connection is then: half set up only inside an exchange, without a
  queue when closed; `PendingKept` from `PendingInv`: a change is pending only while its call
  waits for the lock, and carried only while some call's exchange runs; and
  `ClosedAfterShutdown` from `ShutdownInv`: the shutdown is the last in the queue of the lock
  (`ShutdownLast`), so whatever queued before it is over when it is granted.
* `DirectCallsProofs`: the same lemmas, cited for the coordinator's steps, and one more for those
  beside the lock: `PendingKept`, because a toggle stages nothing and clears nothing; and
  `ClosedUnlessDirect`, from `ShutdownLast`: without an exchange beside the lock a step is one of
  the coordinator's, whose argument holds.
* `BleSessionProofs`, in five parts, since each needs other knowledge of the session. *Types*:
  what `Receive` queues was in the buffer or the air, and a queue is never longer than its bound.
  *Frames*: if everything in the queues, the buffer and the air is of a set of frames
  (`Holds(S)`), it still is after a step in which the appliance adds only frames of that set. *The mark*: with `S` the frames
  that say nothing untrue of the appliance (`Allowed`), a rejection or a wrong password is read
  only when the credentials are out of use, so the mark stays as long as they are in use
  (`MarkKept`). *Answers*: `AnswersTheirRequest`, from
  what `_reply` and its callers check of a frame. *The channel*: every step maps to one of
  `FrameChannel` or to a stutter. Its core are the facts about `Of`, which picks the frames of
  one lane out of a sequence of units: where no frame is cut in two, the frames of two parts are those of the
  whole (`OfSplit`), and what `Receive` leaves in the buffer begins the frame that is cut, so that
  a reader's frames are the same before and after it. *The bind*: `BindAlone`, from how far the two tasks are at each place of
  `_wait_for_smarthome_device`.
* `RequestGroupsProofs`: the request flag of a group is set exactly while somebody is
  registered for it, because each count is the cardinality of the registered entities
  (`CountsExact`), of which there are finitely many.
* `EntryProofs`: `MigrationKeepsMeaning`, for every sound entry of every layout, one lemma per step
  of the chain with facts about functions with keys added and removed, and `MigrationSettles`: a
  migrated entry migrates to itself. With them `MeaningKept`; `EntryTypeOK`, from the types of the
  stored entries and the devices; `CommandsShow`, one lemma each for presets, modes and fan
  speeds, for any device and capabilities, and one for what a step may do to them afterwards
  (`EntryShowsStep`); `SettingsInEffect` from an invariant on how much of
  the settings the objects of a set-up under way were built with (`Stage`: none, half, all),
  which holds as long as no change was made meanwhile; and the two properties
  of `RequestGroups`, whose lemmas are cited for the steps of entities: a new coordinator counts
  from zero, which is right because no entity is there (`EntitiesInside`).
* `AddressRecoveryProofs`: type correctness; `UserKept` from `KeptInv`: whatever happened to an entry
  under verification (`changed`) is seen by the comparison at its end (`Meddled`); `ScanLimited`
  from `ScanInv == scanWait + scanAge >= Interval`; and `UpdateReloads`, with
  refreshes that overlap set-ups in any way, from `ReloadsInv`: an entry whose device object has
  an old address is about to be reloaded, its set-up is about to be retried, or it was updated
  beside a set-up (`missed`).
* `ProvisioningProofs`: type correctness and the four safety properties from `IInv`. Its parts:
  a task runs only behind the progress screen (`TaskInv`); the mark of a write covers every
  stage after it and outlives whatever the appliance may do with the credentials (`WriteInv`);
  only an account without the appliance looks it up to bind it (`LookupInv`); a confirmation
  under way is noted (`AskedInv`); and a bound pairing shows no screen that would let the user
  select another account (`BoundInv`). And every step is a step of `Pairing` or a stutter, with
  a second invariant (`PInv`) on what holds while the task is at work: an account was chosen
  (`ChosenInv`), the credentials last until they are written (`WifiInv`), an appliance left as it
  was found was given nothing (`FoundInv`), and what comes after the link knows that it is
  confirmed or bound (`EndInv`).
* `AccountFlowProofs`: type correctness and the four safety properties. A request is awaited
  behind the screen that sent it (`CallInv`), so no other request is on the way when a form is
  left; after a registration that may have worked the flow shows no form again (`OnceInv`); a
  login that succeeded still would, because accounts are only created and activated
  (`LoginInv`); and `since + wait >= Cooldown` (`SendInv`).

**How far the findings reach.** A finding is one trace; a theorem says what every such trace has.

| finding | theorem |
|---|---|
| `coordinator_lost_change` | `LossTakesAnother`: a change is dropped only while its call waits and another call's exchange ends, so no refresh, report, failure or shutdown drops one; `NoLossAlone`: as long as no two service calls overlap (`Apart`) none ever is, however many there are |
| `coordinator_reopened` | `ShutdownCloses`: with scripts of at most one change (`SingleChanges`) a closed connection stays closed; it takes a second apply, which queues behind the shutdown |
| `direct_readers` | `LockKeptBeside`: those who take the lock still exclude each other; `CompetitorIsDirectAlways`: of two readers one is a toggle or a press |
| `address_overlap` | `UpdateReloadsAlways`: a loaded entry that was updated is reloaded, but for an update by a refresh while a set-up was under way |
| `provisioning_saved` | `SavedUnlessLost`: the password saved is the one the appliance was given, and it is on that network or about to try it, unless the write was lost or refused |

**Assumptions.** On constants: sets that must be disjoint or not empty are, bounds are natural
numbers, scripts and budgets have their types; stored entries are such as some version of the
integration wrote, for one of its two types of device (`StoredAssumption`), and devices have the
attributes the climate entities read (`DevicesAssumption`). The named fan speeds an entity offers are such (`SpeedsAssumption`). Two theorems have a
hypothesis besides, `SingleChanges` on the scripts and `[]Apart` on the behaviour, which the code
does not guarantee and which the runs of the findings break.

**Model-checked only.** Liveness (`CallsReturn`, `ShutdownCompletes`, `Converges`, `Reconnects`,
`RetryFinishes`, `Finishes`, `Works`, `ChangesTakeEffect`) is beyond the prover, which has no rules
for fairness. Induction is available for a given set or recursive function but not for an
operator, so the proofs about `Of` state a fact of sequences as the set of those that have it
(`SeqSet`). `BleSession` picks frames with a recursive function because the prover knows
nothing of the library's filter.

## 5. Not modelled, and what is left

`PROJECT.json` gives the status of every component and, under "hazards", what no property
covers and why. The order of the work was: the coordinator, because every entity depends on it;
what bypasses it; recovery, which crosses entries; provisioning, whose retries are the longest
protocol in the program; the account flows; the Bluetooth session; an entry with its settings.

Not modelled, with the reason:

* Fan, number, select and plain switch entities, temperature, humidity and swing: each command
  stages one value and applies it, which is a script of `DeviceCoordinator`; conversions of units
  and names have no state.
* The decoding of idle reports, push statistics and time stamps: a report carries one attribute.
* The connection lifetime, the beep and the temperature step among the options: each is read once
  and handed on, and migration does not touch them. Account entries, which set-up only
  acknowledges.
* Discovery, manual entry, restoring and the change of a saved password: sequences of forms
  that keep nothing but their input.
* The Wi-Fi store: its load, change and save are one step under a lock that every flow shares.
* The clouds' protocols: signatures, routing, session keys, polling intervals. Requests take
  effect or not, and are answered or not.
* Parsing of advertisements and scans, encryption, diagnostics, logging, the credential backup and
  the wording of screens, which keep no state over time.
* msmart, bleak and Home Assistant: assumed as this code uses them, and mapped as external.

Known and left unproved or unstated: a NetHome bind that is repeated after a lost reply, since
whether that cloud accepts it is not in the repository; settings changed while a set-up runs
(`missed`); a change whose apply raised, which stays shown (`Converges` exempts it, `LeftStaged`);
an entry whose capability query raised (`__init__.py:97`) or whose unload failed
(`__init__.py:250`), which nothing retries; presets that stay set in a mode that does not offer them (`climate.py:505`), smart dry,
which is shown as dry but offers no eco preset (`climate.py:528`); a connection opened beside the
lock that is not authenticated when the listener clears the signal (`coordinator.py:82`); a drain
that lasts as long as packets come (`coordinator.py:86`); and the user of a bound appliance that
never appears on the LAN, who can only retry (`bluetooth_flow.py:341`). The models contain all of
these behaviours except the long drain; no line of the repository says that they cannot be.

Possible next steps: the coordinator as a register with atomic commands, which
`DeviceCoordinator` would implement for one call at a time.
