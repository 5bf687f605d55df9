# SmartBox: a verification project in TLA+

SmartBox is a battery-powered parcel box whose lid is moved by two actuators behind a
three-relay H-bridge. An ESP32-C6 runs the lid state machine, protects the lead-acid
battery, takes commands over MQTT, reports telemetry and updates itself over HTTPS. On the
NAS a battery observer watches the telemetry, and a set of operators decides who may
download the firmware and carries out its first installation. This directory models the
firmware and the programs under `ops` (paths are relative to the repository, `SBC` is
`src/SmartBoxController.cpp`), checks the models with TLC and proves the most important
results with TLAPS.

## 1. Inventory

### Tasks and shared state

| Task | Runs | Serialised by |
|---|---|---|
| loopTask | `SmartBoxController::update()`, `WifiManager::update`, `PowerManager::update`; during an update only `servicePowerDuringOta` | `dataMutex` (recursive) for the whole `update()`, contact delays, state callback, NVS writes and event publication included |
| NetworkTask | `AutoOtaManager::update` and the blocking `runOtaProcess`, `TelemetryManager::update`, `MqttManager::update` | `requestMutex`, never held while `dataMutex` is taken |
| MQTT event task | `onMqttMessage`, `handleCommand`: every command | `dataMutex` per command, `m_ownerRequestMutex` for owner requests |

The programs on the NAS are processes of their own. They share files (`state.json` and
`events.json` of the observer; the nginx includes, the gateway's configuration and the
session directory of the OTA operators), nginx and systemd, and any of them can be killed
between two system calls.

### Components

| Component | State | Operations | Hard behaviour | What makes it correct |
|---|---|---|---|---|
| Lid state machine (`SBC`) | `currentState`, timers, stall counters, maintenance and deadlock flags | `update`, `forceOpen`, `forceClose`, `resetEmergency`, maintenance, charging close, OTA reservation | commands between two updates; a latch in the middle of a stroke; resets | motors only in supervised strokes of bounded length; protection takes over at once; every stroke and wait ends |
| H-bridge driver (`SBC:526-599`) | three pins, cached direction, isolation flag | `setRelayStates`, `forceAllRelaysOff`, `init` | late contacts, reset between two pin writes | no direction contact made under power, never both under power; the cache agrees with the pins |
| Battery policy (`BatteryPolicy.cpp`) | latch, grade, qualification timers | `sample`, `restoreProtection`, `snapshot` | gaps, failed measurements, latch and release | latch and readiness only after sustained evidence |
| Owner requests (`OwnerRequestGate`, `MqttManager::admitOwnerCommand`) | watermark, eight ids, NVS expiry | `accept`, `acceptStoredOwnerRequest` | duplicate, late and reordered messages; failed write; reset in between | each request at most once, newest first, durable before it acts |
| Markers (`main.cpp`, `ConfigManager`) | NVS `power_hold`, `lid_open` | state callback, boot selection | reset at any moment, Preferences that do not open | a latched protection and an open lid survive a reset |
| OTA coordination (`AutoOtaManager`) | request record, `otaInProgress`, state and error | `startOtaUpdate`, `claimAutomaticRequest`, `runOtaProcess` | three tasks, expiry, re-checks around flashing | one update at a time, always either rebooted or finished |
| Daily reboot (`PowerManager`) | `reboot_day` in NVS | `update` | check and restart are 500 ms apart | never while an update is active |
| MQTT session (`MqttManager`) | connection, debug window, reboot timer | connect, command dispatch, events, discovery | reconnection, retained messages | a command acts once |
| Telemetry (`TelemetryManager`) | event ring of 30, flush flags | sampling, batch dispatch | a lost link during a stroke | no batch lost silently or sent twice |
| WiFi portal (`WifiManager`) | mode, portal timer, credentials | reconnect, save | events from another task | comes back by itself |
| Configuration (`ConfigManager::loadConfig`) | NVS values | load with self-healing, save | corrupt or extreme values | values in the range the controller assumes |
| Battery observer (`ops/power_monitor.py`) | `state.json`, `events.json`, the cycle's own copy | `fetch`, `parse_flux`, `evaluate`, `advance`, `notify_owner`, save | dies between two files; DSM answers late; the queue is cut | no alarm without proof, no alarm lost, the last word is true |
| Observer operators (`install_`, `update_power_monitor.py`) | program, unit, checkpoint | apply with undo, upgrade with rollback | a step or an undoing fails; the NAS restarts | a reported failure is undone; the checkpoint is whole |
| OTA origin policy (`install_ota_origin_guard`, `update_`, `install_authenticated_ota`, `repair_ota_static_origin`) | geo and guard includes, `htpasswd`, the gateway's digests, what nginx has loaded | validate, write, test and reload, local checks, rebind; handlers; `restore` | others write and reload meanwhile; handlers fail | the image stays closed, the box is served, a run is done or undone |
| OTA origin sessions (`observe_ota_origin`, `bootstrap_authenticated_ota`) | runtime files, report file, worker, watchdog | fork, wait, activate, prove, observe, repair, close, clean | the owner writes over the report; worker, watchdog and operators remove and reload the same files | an opening ends with its window; nothing of a session stays |
| First transition (`first_battery_transition.py`) | reservation on the disk, publication | `admit`, `trigger_once`, `accept_boot` | power lost between writing, syncing and publishing; old rows | one command at most; the accepted boot is the new firmware |
| Diagnostic fault (`ota_diagnostic_fault.py`) | the rendered fault, three snapshots | render, fixture, `acceptance` | the box restarts and retries when it likes | an accepted observation tells what the box was answered |

`PROJECT.json` lists them all with their status, and every hazard at its line.

## 2. The plan

Modules in the order of their importance, with what each composes:

1. `PowerGate`, `Bridge`: the contracts of the battery policy and the relay driver.
2. `LidController` (EXTENDS both), `LidStroke`: the core. *Done; invariants proved.*
3. `RelayDriver` (refines `HBridge`, realises `Bridge`). *Done; proved.*
4. `BatteryPolicy` (refines `PowerGate`). *Done; proved.*
5. `OwnerRequests`. *Done; proved.*
   `OtaHost` (what an update may assume of the controller; `LidController` refines it) and
   `OtaCoordination` (EXTENDS both): the three tasks around an update. *Done; proved.*
6. `PowerMonitor`, `MonitorDeployment` (EXTENDS it): the observer and its operators.
   *Done; invariants proved.*
7. `OriginAccess` (pure), `OriginPolicy`, `OriginSession` (each EXTENDS the one before):
   what nginx answers, who changes it, and the sessions on top. *Done; proved, but for
   liveness.*
8. `DeviceEvidence`: the first transition and the diagnostic fault. *Done; proved.*
9. Every safety property of the runs is proved. What TLC alone says is liveness
   (section 5).

The rest of the firmware (MQTT session, telemetry ring, configuration healing) is left to
section 7, which says why.

## 3. The modules

**PowerGate** is what the controller may assume of the battery: a latch, the last
reading in five kinds (`fault`, `over`, `critical`, `weak`, `strong`) and what is known
of the voltage for the admission of a motor. Timers are ages: `Idle` when the flag of
the code is false, otherwise the difference the code computes, up to its limit.

**Bridge** gives the effect of a complete `setRelayStates`, `forceAllRelaysOff` or
`init` on the pins, the cached direction and `relaysIsolated`. `Drive(b)` is what the
motors see.

**LidController** has one action per handler of `update()` (after the part of
`servicePower` that ran before it), one per command and one per OTA call. `dataMutex` is
held for a whole call, so a call is one action. `Enter` is `transitionTo` with the state
callback of `main.cpp`, i.e. with both NVS markers. `NvsFaults` lets the Preferences
fail: a save is lost, `lid_open` reads closed, `power_hold` reads held. `PowerLoss`
may happen in any state; `Boot` is `setup()` and `init()`.

| Code | Definition |
|---|---|
| `update` SBC:70-314 | `Update`: `Service*` and `Update*` |
| `servicePower` SBC:429-479 | `SamplePower`, `ServiceCharging`, `ServiceProtected`, `ServiceRecovered`, `ServiceBlocked`, guard `Runs` |
| `transitionTo` and the callback | `Enter`, `SavedHold`, `SavedOpen`, `Saved` |
| `requestChargingClose` SBC:676-690 | `RequestChargingClose` (`ChargingRefused`, `ChargingTaken`) |
| `tryBeginOta`, `finishOtaWithoutReboot` | `TryBeginOta`, `FinishOtaWithoutReboot` |
| `isMotorRunning` | `Moving` |
| `AutoOtaManager::startOtaUpdate` | `Asks`, `Queues`, `MayQueue` |
| `takeManualRequest`, `claimAutomaticRequest` | `TakesManualRequest`, `ClaimsAutomaticRequest` |
| `runOtaProcess` | `Begins` ... `EndsAttempt`, `MayContinue`, `StillWanted` |

Abstractions: one unit of time is 200 ms, the sampling period while moving, and
`update()` runs at least once per unit. The delays inside `setRelayStates` take no time,
but for the second measurement of a charging close, which is a unit later. The filtered
distance is a free input of four kinds (beyond, exactly at and within the threshold, and
at most 2 cm, which IDLE ignores). Whether a sample follows a gap, and whether the 30 s
of OTA qualification have passed, is left open. The cutoff does not change at run time
(`set_config` does not reach it); the lid takes it to be at least the default of 11.0 V,
while `ConfigManager` keeps a stored one from 5 V on, below which only the charging close
would be stricter than the latch (`SBC:668`). The path of `STATE_STARTUP_OPEN`,
the calibration phase and the both-directions branch of `setRelayStates` are unreachable
from `main.cpp` and left out.

**LidStroke** adds a history variable: how long the bridge has driven in one direction
without a break. The timers of the code start again at every transition, the motors do
not.

**RelayDriver** has one action per pin write and wait. A contact follows its coil at any
later time; the code's 100 ms waits end only when the contacts have settled. `Reset` may
fall between any two statements and leaves the output registers arbitrary. Assumed of
the hardware: contacts move within 100 ms and faster than the board boots
(`delay(500)` in `setup()`). `expected` carries the bridge as module `Bridge` predicts
it, and `BridgeIsView` compares the two at every return.

**HBridge** is the abstract promise: a direction contact is made only without power,
power is never applied to both directions. A direction may be let go under power, as
`forceAllRelaysOff` does.

**BatteryPolicy** is `BatteryPolicy.cpp` field by field, voltages in tenths of a volt.
The history `brokenFor` tells how long samples have really stayed in a band, the two beyond
the margins of SAVING and WARNING included, and `gradeFor` how long the grade has lasted,
apart from any flag of the code. A failed measurement is 0 V, which the code treats alike.

**OwnerRequests** splits `admitOwnerCommand` into the in-memory acceptance, the NVS
write, the second comparison with the clock and the hand-over, with a reset between any
two. Any request may arrive at any time, so lost, late, repeated and reordered messages
are included. An NVS write is atomic, and an expiry that was stored is read back; a
namespace that cannot be opened rejects and changes nothing.

**OtaHost** is the contract between an update and the controller: which kinds it admits in
which state, that nothing but the update or a reset ends a reservation, and that one
maintenance update per boot is reserved. `LidController` implements it for the mapping
`HostMode` of its states (`ServesOta`).

**OtaCoordination** puts `AutoOtaManager` between its callers. Where the code takes
`requestMutex` or `dataMutex` and lets it go, the action ends, so that the other tasks run
between any two looks of one function: `startOtaUpdate` asks the controller, then takes the
mutex (`Asks`, `Queues`); `close_for_charging` looks for an update, then starts
(`LooksForUpdate`, `RequestsCharging`); `update()` asks whether the box is ready and claims
with that old answer (`LooksReady`, `TakesManualRequest`, `ClaimsAutomaticRequest`);
`runOtaProcess` looks at the request without any lock and then asks for the controller,
which may take its time (`LooksAtRequest`, then `Begins`; the same pair, in the order of the
code, before the preparation and at both re-checks), and goes to `EndsAttempt` with a way out
at every check. A restart,
the daily one included, may fall anywhere: `PowerManager` looks half a second before it
restarts. The histories are the order behind a forced update (`order`; the code keeps no id),
the time `handleCommand` spent waiting (`late`) and the expiry of the last forced update
begun (`forced`). Left open: whether the battery qualifies, WiFi, and when the schedule asks
for an update. The state, phase and codes an update reports are left out.

**PowerMonitor** is `power_monitor.py`. An answer of the database is known by how it ended
and by the age and value of each field's newest row; `Parsed` and `Status` are `parse_flux`
and `evaluate` over it, check by check. `cycle` is one action per write: `Observe` (read,
judge, `advance`), `SaveEvents`, `SaveState`, the call of DSM with its three outcomes
(`Accepted`, `Refused`, `AcceptedLate`: taken, but after the five seconds of the call) and
`SavePopped`. `Crash` may fall between any two. A queue is the set of its events, their
number is the position; `uuid4` is the next number.

**MonitorDeployment** adds systemd and both operators, step by step: every file they create,
every call of `systemctl`, the wait for the first result, each handler, and what a failing
step may have done all the same (`InstallFails`, `UpgradeFails`, `HandlerFails`). Of the
superseded program only the files it leaves are known (`OldFiles`).

**OriginAccess** has no state. It says what nginx answers to a request under each rendered
policy (`GuardAnswer`, `Realm` with `AuthAnswer`, `FaultAnswer`), and holds the cases the
operators' private fixtures try, so that a policy that would not pass its fixture cannot be
installed in the model either. nginx itself is modelled from how it is used: normalised
paths, `limit_except` before `auth_basic`, a configuration that loads or does not (`Loads`).

**OriginPolicy** has one action per file, reload, local check and rebinding of the four
operators and `restore`, the handlers included. A file is known by its contents: what an
operator renders, or foreign. `ForeignReload` and `ForeignWrite` are the other software of
the NAS.

**OriginSession** adds worker and watchdog of both sessions. `worker[k]` follows the code
from the fork to the last report, `dog[k]` sleeps until `Alarm`. Removal is one unlink at a
time by whoever calls `remove_exact`; `dropped` is the local variable that decides whether
that call reloads. The report file is the command channel: `response`. Time is a counter;
`InTime` says which stages the code bounds by a deadline. Worker and watchdog may be at the
same file: the one whose `exists()` lies before the other's unlink and whose `stat()` or
`read_bytes()` lies after it raises `FileNotFoundError` (`missed`, `RaisesLate`), the one that
has come as far as its own unlink goes on (`GoesOn`). `gaveUp` and `stranded` remember which of
the two has left files, or a reload, to nobody.

| Code | Definition |
|---|---|
| `parse_flux`, `evaluate`, `advance` | `Parsed`, `Status`, `Owed` |
| `cycle` | `Observe`, `SaveEvents`, `SaveState`, `Accepted`/`Refused`/`AcceptedLate`, `SavePopped` |
| `apply_candidate` | `BeginInstall` ... `UndoFiles` |
| `upgrade` | `BeginUpgrade` ... `BackStart` |
| `activate` and its handler | `AuthWrites`, `TestAndReload`, `LocalHeads`, `Rebind`, `AuthUndoes`, `UndoReload`, `DropPassword` |
| `remove_exact` | `Unlinks`, `GoesOn`, `RemovesReload`, `RaisesLate`, `RemovalFails`, `Removed` |
| `start_trace`, `start_session` | `Forks` ... `EndsClean` |
| `trigger_once`, `accept_boot` | `Admit`, `Reserve`, `Sync`, `Publish`, `AcceptBoot` |
| `acceptance` | `Snapshot`, `Acceptance` |

**DeviceEvidence** puts the two programs that conclude something from telemetry next to a
box that reports, restarts and retries when it likes. Rows arrive late or not at all, a
status arrives live, or retained and of either firmware, and a loss of power
(`OperatorStops`) takes what was not synced. `boots` and `lives` are histories: in which boot
a row was sent, and when the new firmware really went online.

Definitions introduced by a comment starting `Fault:` are plausible bugs, used to show
that a property can fail; the specifications do not use them.

## 4. The runs

| Run | Module, cfg | Question |
|---|---|---|
| `lid_commands` | LidController, LidCommands.cfg | are motors, latch, update and admission safe against every command, reset and NVS fault? |
| `lid_strokes` | LidStroke, LidStrokes.cfg | how long are motors driven, what does the charging close keep, what is in NVS, and does the controller keep what `OtaHost` promises? |
| `lid_liveness` | LidController, LidLiveness.cfg | do strokes, waits and the charging close end? |
| `relay_driver` | RelayDriver, RelayDriver.cfg | is the interlock kept, and does `Bridge` describe the driver? |
| `battery_policy` | BatteryPolicy, BatteryPolicy.cfg | does the policy implement `PowerGate`, are its signals qualified, does its grade keep to time and margin? |
| `ota_coordination` | MCOtaCoordination, OtaCoordination.cfg | is a request admitted at most once, in order, in time, durably; is an update alone with the controller; does a forced one begin for one request only, and fetch its image before that expires? |
| `power_monitor` | MCPowerMonitor, PowerMonitor.cfg | does the owner hear of a low battery, of nothing that is not proven, and are the operators' failures undone? |
| `origin` | OriginSession, OriginSession.cfg | is the image closed and the box served in every configuration nginx runs with, do the files load at every instant, is a failed run undone, and is what a session created gone in the end? |
| `device_evidence` | DeviceEvidence, DeviceEvidence.cfg | one command at most, and conclusions from telemetry that are true? |
| `lid_closing` | LidController, LidClosing.cfg | *violated*: a close between an emergency reset and the next update drives nothing |
| `lid_reversed` | LidStroke, LidReversed.cfg | *violated*: two commands extend a stroke |
| `lid_ota_latch` | LidController, LidOtaLatch.cfg | *violated*: a latch during an update is not persisted |

The lid is checked in two halves, as one run with every command is too large: the
charging close is in `lid_strokes`, `force_close` (which makes `StrokeBounded` fail, run
`lid_reversed`) in `lid_commands`. The theorems of section 5 hold for all commands
together, but for `StrokesBounded`, which excludes what `lid_reversed` shows.

### Bounds

Time limits are 1 to 3 units. What matters is their order, and that the interesting
coincidences happen: `LatchTime` is shorter than a stroke, so that a battery collapses
during one; `RecoveryTime` is longer than a charging close, as 300 s is longer than
3.8 s (`LidAssumption`); `WaitTime` is less than `MaxHoldTime`, so both ways out of HOLD
are taken. Two ages of each timer, below and at its limit, are all the code can tell
apart. Times to live of 1, 2 and 4 units make the charging close expire at the
contacts, in the stroke and not at all. The battery run has voltages on both sides of
every threshold and hysteresis margin, and limits ordered as in the code. The relay
driver needs no bound. Owner requests and updates: three ids for a
gate of two and a window of 2 in a horizon of 3, so that the gate fills, ids return, requests
are too far ahead, and one expires in the queue, in a waiting command and in a running update;
`Horizon` is where the clock of the model stops. Ids are symmetric, as the code only compares
them, and the run checks no liveness.

The observer has a queue of two and a history of four (16 and 50 in the code).
`QueueSound` needs the history to hold two queues and one event more for each crash and each
run of an operator (section 5): 50 is enough for eighteen of them. With four events and
few enough changes to make, the run stays within what its history holds; with three it does
not. Three readings (low, falling, torn frame) with two changes
between them raise, end and raise an alarm again; every other way through `parse_flux` and
`evaluate` is compared with `ProvenLow` over 3840 combinations by the assumption
`EvaluateIsExact`. One mishap and one run of an operator put a failure at every step.

The origin run starts bare, with the guard, and authenticated, and has one run of an
operator, one session and three events (a failing step, a kill, a restart, a foreign write or
the session itself; one less from the authenticated start): a trace, and a bootstrap that
follows an installation, meet two mishaps, and the race of worker and watchdog as well, which
counts as none. So both can give up, and `SessionsEnd` needs its exception. `Wait`, `Window` and `Slack` of 1, 2 and 1 keep the order of
600, 300 and 90 s with a step inside each. Foreign writes and a killed operator are tried
without a session, and an operator beside a session meets no failure of its own; the
operator inside a worker does. The theorems of section 5 need no number of runs, events or
steps of time, but keep these three restrictions, which are guards of the model: one session
in a behaviour, foreign writes and kills of an operator without one, and no failure of an
operator beside it. The evidence run has windows and gaps on both sides of every
comparison, three checks and one restart; its theorems hold without bounds.

The `TimerCap`, `DriveCap` and
`HistoryCap` are where ages stop counting.

`power_loss` is a member of `Commands` so that a run can leave it out: `lid_liveness`
does, since strokes end trivially when the power fails. Deadlock is checked in every
run of the firmware; the runs of the NAS really may stop (an uninstalled observer, an
operator that is done, a clock at its end).

### Fairness

`FairSpec` asks weak fairness of `Boot`, `Tick`, `Update` and `FinishOtaWithoutReboot`:
loopTask is subscribed to the task watchdog and runs `update()` in every `loop()`; time
passes; `runOtaProcess` (its stages are in `OtaCoordination`) uses timeouts on every transfer and ends in a reboot or in
`finishOtaWithoutReboot` on every path. No command, measurement or sensor outcome is
assumed to occur.

`DeploySpec` asks weak fairness of the observer's loop and of `Restart=on-failure`, and
strong fairness of DSM's acceptance, which may be refused in between but not for ever. No
operator is assumed to start or to finish. `OriginSpec` asks only that some process which
can go on, or time, does go on (`Progress`); sessions end because each of their steps uses
something up.

`SessionsEnd` excepts `stranded`: when the reload after the last unlink fails, no later call
repeats it; and `gaveUp`: worker and watchdog each try the removal once, and when both have
failed or died nobody is left to (section 6). `DeployedQueueSound` excepts `restored`: a rolled back upgrade puts
an older `state.json` beside the newer `events.json`.

`WaitsEnd` excepts a battery that is known to be denied: a HOLD whose voltage was once
measured too low, and whose sensor then fails, is neither latched nor allowed to close
(`SBC:477`), and stays open until a measurement succeeds.

## 5. What is proved

| Module | Theorems | For |
|---|---|---|
| LidControllerProofs | `TypeCorrect` | all time limits, readings, commands; NVS faults or none |
| LidSafetyProofs | `HeldShutsDown`, `DrivenInStroke`, `OpeningOpens`, `OtaIsIsolated`, `ChargingKeepsProtection`, `ProtectionPersists`, `OpenLidIsRemembered`, `MarkersAreKept`, `StartsAdmitted`, `FailsOpenOnlyOnce`, `OtaServed` (refinement of OtaHost) | the same |
| LidSafetyProofs | `StrokesBounded` | the same, for commands that do not turn a lid both ways (`TurnsOneWay`) |
| RelayDriverProofs | `DriverInvariant`, `InterlockHolds` (refinement of HBridge), `BridgeDescribesDriver` | every interleaving of pin writes, contacts and resets |
| BatteryPolicyProofs | `PolicyTyped`, `SignalsAreSustained`, `WarningIsKept`, `StateShowsLatch`, `GradesDwell`, `PolicyServesController` (refinement of PowerGate) | all voltages, cutoffs and times, with a recovery time above 0 |
| MonitorProofs | `DeployedTypes`, `AlarmsAreProven`, `UpgradesRecoverable`, `FailuresUndone`, `LastWordSound` | all readings, queues and programs at the start; any number of runs, crashes and failing steps |
| MonitorProofs | `QueueStaysInHistory` | the same, as long as `HistoryMax` is at least two queues and one event for every crash and run so far |
| DeviceEvidenceProofs | `EvidenceIsSound`, `AcceptanceIsTrue` | all windows, gaps and tolerances, any number of restarts and lost powers |
| OriginProofs | `SessionsTyped`, `DiskAlwaysLoads`, `AccessIsSound`, `RunsEndWhole` | all starts, waits, windows and slacks; any number of runs, failures, kills, reloads and restarts, with one session |
| OtaCoordinationProofs | `WatermarkDurable`, `AdmitsNewestOnly`, `AdmitsIdOnce`, `AdmitsInTime` (of OwnerRequests) | all ids, windows, gate sizes and horizons |
| OtaCoordinationProofs | `CoordTyped`, `ExclusiveController`, `ForcedUpdatesAreOwned`, `ForcedTransfersInTime`, `GateKept` (refinement of OwnerRequests), `HostKept` (refinement of OtaHost) | the same, with a window above 0 |

*Lid.* The safety properties are not inductive by themselves. That a latched protection
excludes a stroke needs to know where `held` can be set (`ServiceProtected`, which takes
the state over in the same step) and that the charging close keeps it. That OPENING
really drives open needs `CacheInv`: when the cached direction is "open" and the
isolation flag is clear, the pins are driven. It fails for "close", which is the finding
of `lid_closing`: closing strokes are the only ones that end in an emergency stop, whose
reset clears the flag alone. `LidInv` collects `HeldMeansShutdown`, `FailOpenInv`,
`ChargingInv`, `CacheInv`, `DriveInv`, `OtaInv` and `MarkersInv`; one lemma per action
preserves it. `RecoveryTime > ChargingTime` is the one assumption on the time limits
that matters: the latch is not released during a charging close.

*Strokes.* The timers of the code start again at every transition, the motors do not, so
`StrokeBounded` needs to know in every state which timer bounds the drive: `StrokeInv` says
that `driveAge` is at most the age of the stroke, of the charging close, or, for the
fail-open stroke, of both strokes together, and that `update()` has looked at that age since
it last grew (`Watched`). A command that turns a moving lid enters a start state with the
old drive still on; the next `update()` reverses the contacts. Only a second command before
that update can restart the timer under the same drive, and `TurnsOneWay` is exactly its
absence: the run `lid_reversed` has both commands and violates the property.

*Relays.* `InterlockInv` divides the statements into a cold stretch, in which Main's
contact is open and direction contacts may move, and the rest, in which every energised
direction coil already holds its contact. `BridgeDescribesDriver` needs what a call in its
middle still owes to `expected`: `ViewInv` says, for each statement of `setRelayStates`,
`forceAllRelaysOff` and `init`, which pins have their final level, which are written next,
and that cache and flag are assigned where the code assigns them.

*Battery.* `PolicyInv` relates every flag and age of the code to the history of the samples:
a qualification runs no longer than the voltage has stayed in its band (`SignalInv`), the
warning starts at most one sampling gap after the voltage fell (`WarnInv`), a running
recovery means the state RECOVERING, so that no release starts from PROTECTED (`LatchInv`),
and a pending change of grade is no older than the grade, nor than the time the samples have
stayed beyond its margin (`GradeInv`). The latch is released by a measurement
that qualifies and never by time alone, which is what `PowerGate` promises the lid; a
recovery time of 0 would release it on the first strong reading (`RecoveryPositive`; 300 s
in the code).

*Owner requests.* `OwnerInv`: NVS is ahead of everything admitted, a request in work is
newer than that, and its id is in the gate.

*Updates.* `CoordInv` adds to `OwnerInv` and the types: `ControllerExclusive`; what the MQTT
task knows while it is between two looks (`CallInv`); and what a queued or claimed request
still is (`TaskInv`). A forced update begins once for a request because the gate admits only
newer ones: the request in work is newer than every order that was queued, and a queued one
newer than `forced`. Its deadline is the one it was queued with because nothing is queued
while an update is in progress. It may begin after that deadline: the relays are isolated and
`otaRecoveryUsed` is spent, for NetworkTask has looked at the request before it waited for the
controller. No image is fetched then, as the last look before the transfer, which nothing
waits behind, comes after that wait (`ForcedTransfersInTime`; `wiki/ina219_regression.md:26`
promises no more than that look). A charging close that has looked stays safe although it looks
before it acts: the MQTT task that would queue an update is the one that is closing, an
automatic update reserves an idle controller only, and a protection is not idle.

*Observer.* `AlarmsAreProven` needs that the frame checks of `evaluate` add up to a proof
(`WarningProven`), that what waits in the cycle's memory was filtered by the reading it
holds (`Waiting`), and that the head of a queue is a member of it (`OldestIn`, by
well-foundedness of the numbers). `UpgradesRecoverable` and `FailuresUndone` share
`ControlInv`: an installation never meets an old program or a checkpoint, a checkpoint
implies an enrolled service, the old program stays in place until both parts of the
checkpoint are written, and what a handler has undone stays undone until the report.

*Queue.* Two files are written one after the other, so what waits may be in `state.json` and
not yet, or no longer, in `events.json`. `ProgramsInv` says which program can be running
beside which files. `WordsInv` says that numbers are given in order, that a low battery waits
only while the alarm is raised, and that the newest event tells of the alarm, in `state.json`
and in the memory of a cycle between its writes; it gives `LastWordSound` for every length of
queue and history. `CountsInv` counts: while an event
waits, the events made since then wait beside it except every second one, which the next
event took back, and those a crash made twice (`Lost`, at most one for every mishap and
run). So a waiting event is at most `2 * PendingMax + mishaps + runs` events old. TLC finds
the bound tight without mishaps (queue of two: a history of four is enough, three is not).

*Origin.* `OriginInv` has three parts. Of the policy (`OperatorInv`), one conjunct for each
operator says what the disk, nginx and the password file can hold at the step it is at,
foreign writes allowed: a handler that has passed `undo_guard` has no guard of its own left,
a password this run made is dropped only where no loaded policy asks for it. `RunInv` says
more of a run that nobody wrote into: exactly which files it has replaced and that nginx runs
with what is there or with what it ran with before; each way a run ends then gives
`RunsAreWhole` (`EndsWhole`). Of what a bootstrap remembers while it may still be told to
restore (`MemoryInv`): that puts back the legacy policy if it activated one, and drops only a password that was made. Of the
files (`FilesInv`): what uses a file comes after it and goes before it (`CreationLaw`,
`RemovalLaw`, about the sequences of the code); the peer's file is there only with consent,
and an opening that counts as closed has left disk and nginx (`PeerInv`). That last part
rests on time: a watchdog may remove the peer's file under a worker that is still opening,
which would then report an opening closed that nginx still has, were its alarm not later
than the longest wait and window together (`TimeInv`, `DogIsLate`; the 90 seconds).

*Evidence.* `EvidenceInv`: the reservation is durable before anything is published and no
failure removes it; since each snapshot the box has not counted an attempt, or has restarted
without an answer, or has one of the answers recorded for it. For `AcceptanceTrue`, rows are in
the order of their time and tell the uptime and the boot they were sent in (`Dated`), and a
live status tells of a boot of that firmware (`Heard`): of two rows whose uptimes grow as the
time between them, the second is of the same boot unless the first was sent within the
tolerance of its own. Nothing is assumed of the constants but that they are numbers.

Only model-checked: liveness (`StrokesEnd`, `WaitsEnd`, `ChargingEnds`, `AlarmReachesOwner`,
`SessionsEnd`), as the prover has no ENABLED. `EvaluateIsExact` is a finite comparison; `WarningProven` is its one direction for every
reading.

## 6. Findings

The runs that expect a violation, and the disagreements between code and documents met
on the way, are under `findings` in `PROJECT.json`. The three shown by runs:

- `resetEmergency` (`SBC:348`) and the automatic recovery (`SBC:279`) clear the isolation
  flag while the pins stay INPUT and the cached direction stays "close". A close commanded
  before the next `update()` energises Main and moves nothing, then reports the lid closed.
  The window is short: that update, in IDLE, calls `setRelayStates(false,false,false)`
  (`SBC:103`), which clears the cached direction (`SBC:569`), and a later close drives.
- `force_close` and `force_open` between two updates restart `stateTimer` although the
  motors have not stopped.
- a protection latched during an update is saved by nobody until the update ends.

Met in the firmware, without a run: the daily reboot (`src/PowerManager.cpp:50`) looks whether
an update is in progress and restarts half a second later, whatever has begun meanwhile. An
ordinary `trigger_ota` that was queued, and that the box can no longer take because its
battery has latched, also stays queued until a restart or a maintenance request replaces it,
and refuses charging closes (`src/MqttManager.cpp:200`) and automatic updates until then.

Met while modelling the programs of the NAS, without a run of their own (the properties
name them as exceptions):

- `remove_exact` (`ops/observe_ota_origin.py:171`) reloads only if this very call unlinked a
  file: after a failed reload nginx keeps a session's configuration until somebody else
  reloads it.
- worker and watchdog of a session each remove its files once (`ops/observe_ota_origin.py:348`,
  `ops/bootstrap_authenticated_ota.py:146`): when the worker dies or its removal fails, and the
  watchdog's fails too, the files stay until the NAS restarts. Of two that remove at the same
  time, one may raise for being late; it reports `trace_cleaned` false, and the other goes on.
- `accept_boot` (`ops/first_battery_transition.py:79`) does not notice a restart between its two
  rows if the first was sent within five seconds of its own boot.
- `acceptance` (`ops/ota_diagnostic_fault.py:94`) reports that the box did not reboot from
  snapshots that a box which did can produce.
- the worker's second report (`ops/observe_ota_origin.py:285`) overwrites an `activate` the
  owner has written meanwhile.
- an `OSError` inside `activate`'s handler (`ops/install_authenticated_ota.py:267`) drops
  `htpasswd` under a policy that still asks for it.
- a file that fails half way is not undone by `ops/install_power_monitor.py:115`, whose
  report says `rolled_back`.

- `restore` (`ops/install_authenticated_ota.py:257`) reloads nginx only if the installation
  had activated the policy: after the rollback of a bootstrap that found it active, nginx
  still runs with what an earlier operator, killed in its handler, had loaded. The proof of
  `RunsAreWhole` met this case, which needs two runs of an operator; the property leaves it to
  the next reload.

Smaller things a maintainer may want to know: an upgrade that dies after stopping the
observer leaves it stopped, and `BACKUP.mkdir` (`ops/update_power_monitor.py:76`) refuses the
next run; `observe()` fails at once when there is no `state.json`; a `systemctl` that times
out inside a handler ends that handler; after a restart of the NAS in mid-trace the two
loaders stay and make later traces refuse; `repair_ota_static_origin` does not compare the
geo file's digest.

## 7. Not modelled

- **Of OTA coordination**: the state, phase and codes it reports, the version comparison and
  the transfer itself (their outcomes are free), and the hour and day of the schedule and of
  the daily reboot (an automatic update or a restart may come at any time).
- **MQTT session**: what its commands do to the lid, the gate and an update is in the modules
  of those; the connection, the debug window and the discovery messages are timers and strings
  around library calls.
- **Telemetry**: a ring that drops its oldest points by design. What its readers may conclude
  from missing, torn and old frames is in `PowerMonitor` and `DeviceEvidence`.
- **WiFi portal, remote logger, INA219 registers, board support**: library calls, HTML,
  formatting and registers; their outcomes are free inputs of the other modules.
- **Configuration self-healing**: a comparison of each value with its range at boot; the
  models take any value the range admits.
- **Build, release, documentation and serial scripts, external verification**: straight-line
  programs without a state that outlives them.
- In the modelled programs: owners, modes, links, sizes and digests of files where the model
  has no state the check could fail on; the private copies of the nginx tree; more than one
  session or operator at a time; a file created half-way, or some of several files removed,
  by a step that fails; somebody else's write between a comparison and the replacement that
  follows it.
- The 32-bit wrap of `millis()`: ages stand for differences.
