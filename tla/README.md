# A verification project for the TC002 runtime

The repository replaces the application of an Ulanzi TC002 pixel clock by a
runtime of its own (`src/runtime`, Zig), and holds what is used around it: a console
page with a local server and a stand-in device, scripts that draw on a device, and
tools that find clocks and patch the stock application (Python). This directory holds
TLA+ models of their concurrent and failing parts, TLC configurations that check them,
and TLAPS proofs about them. Paths below are relative to `src/runtime/src` unless they
begin with `src/`.

1. [The system](#the-system)
2. [The modules and what they translate](#the-modules-and-what-they-translate)
3. [The runs](#the-runs)
4. [Fairness](#fairness)
5. [What is proved](#what-is-proved)
6. [Disagreements between the code and what is said of it](#disagreements-between-the-code-and-what-is-said-of-it)
7. [What is only model-checked, and what is not modelled](#what-is-only-model-checked-and-what-is-not-modelled)
8. [Plan](#plan)

## The system

A few processes on one small Linux device, each (but for netd's TLS worker) a
single-threaded poll loop:

| process | source | keeps | talks to |
|---|---|---|---|
| supervisor (root) | `supervisor_main.zig`, `supervisor/*` | the lifecycle of the renderer, the epoch, the table of relays, settings, tokens, script and sound state, the clock | every other process, by one `SOCK_SEQPACKET` pair each |
| renderer `tc002d` | `tc002d_main.zig`, `scene/*`, `panel/*`, `input/*`, `ipc/dedup.zig` | the scene (arbiter), the transition under way, the window of completed request ids | supervisor; the panel over SPI; evdev |
| network daemon `tc002-netd` | `netd_main.zig`, `net/*` | http connections, event streams, the MQTT session, mDNS, the token digests | supervisor; the network |
| `tc002-ntfy` | `ntfy_main.zig`, `ntfy/*` | one subscription | supervisor; an ntfy server |
| `tc002-berryd` | `berryd_main.zig`, `berry/*` | scripts and their requests | supervisor |
| `tc002-audiod` | `audiod_main.zig`, `sound/*` | clips, what plays | supervisor; the vendor's sound library |

Around the device:

| program | source | keeps | talks to |
|---|---|---|---|
| console page | `src/panel-v2/index.html`, `sim-wasm.js`, `wasm_main.zig` | a replica of the arbiter, compiled to WebAssembly, that follows the device's event stream | the local server |
| local server | `src/panel-v2/serve.py`, a thread for every request | which clocks were seen, the tokens it read | `tc002-devices.py`; a device |
| stand-in device | `src/panel-v2/mock-device.py`, a thread for every request | the whole device behind the api, in one object under one lock | console and tests |
| clock lister | `src/tc002-devices.py` | rows of clocks | adb, http, udp broadcasts, mDNS |
| ntp patch tool | `src/tc002-ntp-patch.py` | nothing: the state is on the device | a device with the stock application, over adb |
| drawing scripts | `src/runtime/tools/tc002demo.py`, `tc002-demo-*.py`, `tc002-canvas-docs.py` | what the panel showed when they began | a device, over the api |
| command line | `src/runtime/tools/tc002ctl.py`, `src/api-client-v2` (Go) | a place in the log | a device |
| lock script | `src/runtime/tools/tc002-lock.sh` | a file of lines | those who work on one device |

Every packet socket is written with `MSG_DONTWAIT`: **a send to a full socket
loses the packet**. Whoever waits for an answer has a time-out, every process may
die between two packets, and the supervisor starts it again. That is where the
hard behaviour is.

### Inventory

For each component: state, operations, interactions, what is hard, and what makes
it correct. `PROJECT.json` lists the hazards with their lines.

* **Renderer lifecycle** (`supervisor/child.zig`, with `spawn`, `reap`,
  `drainSignals`, `drainIpc`, `pollLifecycle` of the supervisor).
  State: one of seven lifecycle states, a deadline, the restart attempt, a ring of
  the last three failures, the slot (candidate or embedded). Operations: spawn,
  ready, heartbeat, poll, request stop, exit. Hard: a renderer that hangs before or
  after it was ready, that ignores a stop message or never got it; a second
  shutdown request; failures spread over the window; a panel lock kept by
  somebody else. Correct: one renderer at a time; crash loops go down a level and
  end in recovery; everything that was asked to end, ends.
* **Scene arbiter** (`scene/arbiter.zig`, `scene/notification.zig`, and the loop of
  `tc002d_main.zig`). State: base scene, generator, style, power, one overlay slot
  (notification, raw frame, stream armed) with a deadline, the queue behind a
  notification, its document, a revision, the statement last recorded, a wanted
  transition and the layer it leaves. Operations: the commands of `applyInner`,
  `tick`/`expireOverlay`, `takeTransition`, redraw. Hard: what takes the slot
  must take the queue with it; expiry happens inside a redraw; transitions start
  over running ones; several commands in one packet. Correct: the queue is first in
  first out, everybody has their full turn, every revision is announced once.
* **Command path** (`netd_main.zig` relay/onResult/tick, `supervisor_main.zig`
  drainNetd/drainNtfy/drainIpc/expireRelays/reap/reapNetd, `tc002d_main.zig`
  handlePacket, `ipc/dedup.zig`). State: connections that wait for an id, the
  supervisor's 32 relays, the renderer's window of 128 completed ids, four sockets,
  the epoch. Hard: everything may be lost, late, or answered by the next
  process. Correct: a retry is not a second application, an answer is the answer of
  that command, a command written for one renderer is not applied by the next, no
  slot leaks.
* **Event stream and console replica** (`net/sse.zig`, `netd_main.zig`,
  `wasm_main.zig`). Statements are broadcast with their revision; the console runs
  the same arbiter and asks for the whole state when it sees a gap. Hard: a
  resync racing new statements; statements dropped at each of three hops. Correct:
  the replica shows what the device showed at its revision, and ends where the device is.
* **Settings** (`supervisor/config.zig`). A file written by replacement, patches
  with a revision as precondition, a reload for every renderer that becomes ready.
  Correct: a patch is applied to what its author saw, or refused.
* **Tokens** (`net/clients.zig`, `net/credfile.zig`, supervisor and netd). The
  supervisor owns the table and its file and pushes digests to netd packet by
  packet. Hard: a save that fails, a set of which a packet is lost. Correct: netd
  authenticates with the table, whole.
* **Maintenance gesture** (`supervisor/maintenance.zig`): a chord of keys opens a
  property for a while. Correct: it is closed again.
* **Time and night** (`supervisor/sntp.zig`, `night.zig`, `sys/solar.zig`): samples,
  the step of the clock, the level at night; the first step waits for a fade.
* **Power and MCU** (`supervisor/power.zig`, `battery_notice.zig`, `mcu.zig`):
  a serial request with a time-out, the shutdown at a low battery with its notice.
* **MQTT** (`net/mqtt.zig`, `tls_link.zig`, `ha.zig`): a session with retained
  publications and a worker thread that owns the TLS stream. Hard: the only threads
  of the runtime.
* **mDNS** (`net/mdns.zig`, `mdns_owner.zig`): probing, conflict, announcement.
* **Http api** (`net/api.zig`, `http.zig`, `json.zig`, `out.zig`): parsing and
  routing, one request at a time.
* **Log ring** (`supervisor/logring.zig`): paging over a ring that is overwritten.
* **Panel** (`panel/*`): a double-buffered latch, a power fade, transitions of
  pixels.
* **Menu** (`scene/menu.zig`, `input/actions.zig`): dial and buttons, previews, a
  time-out.
* **Sound, scripts, ntfy**: bounded stores with uploads in parts, pending requests
  with time-outs, a stream with reconnects.
* **Agent lock** (`src/runtime/tools/tc002-lock.sh`): an append-only file of ACQUIRE and
  RELEASE lines. Hard: anything may happen between a read and the append it leads
  to. Correct: one holder.
* **Drawing scripts** (`src/runtime/tools/tc002demo.py` and those that use or repeat
  its shape). State: the base, document and sprites they found, and where they are.
  Operations: save, upload, show, play, put back. Hard: any request may be refused, lost
  or arrive unanswered; `/status` lags behind the panel; ctrl-c. Correct: the panel is
  as it was found, and nobody sees it being tidied.
* **Stand-in device** (`src/panel-v2/mock-device.py`). State: settings with a revision
  and the revision saved, the scene, overlay, canvas, tokens, scripts, a ring of log
  lines, an epoch. Operations: one per route. Hard: threads read bodies inside and
  outside the lock; operations write before they have checked everything; saves fail;
  restarts begin the revisions anew. Correct: revisions and epochs name states, a
  refusal leaves what clients rely on, a reader of the log misses no line that is
  still there, and three tables of who may do what agree.
* **Local server** (`src/panel-v2/serve.py`). State: clocks seen with the time they were
  seen, the last list, the tokens kept for a host with the mtime of their file. Hard:
  threads share these without a lock, the file is written while it is read, pages and
  devices vanish from under a stream. Correct: no list older than it says, no old token
  for good, no stream held for good.
* **Clock lister** (`src/tc002-devices.py`). State: rows of clocks by mac, address or
  name. Operations: four probes that run beside one another, a merge, `--one`. Hard: rows
  of one clock in any order, lost packets and withheld answers, quiet times, a clock that
  changes while it is looked for. Correct: one printed address means one clock, and a
  clock that could be heard is.
* **Ntp patch tool** (`src/tc002-ntp-patch.py`). State: a file in `/tmp`, bind mounts over
  the application's library, which library the running application has mapped. Operations:
  apply, revert, status. Hard: every step is an adb call that may fail, or seem to and
  be made twice; init starts the application behind its back; a reboot takes all away.
  Correct: what a command claims is so.

## The modules and what they translate

| module | models | lines it stands for |
|---|---|---|
| `RestartPolicy` | the promise: three failures in a window cost a level | RUNTIME.md, "renderer lifecycle" |
| `RendererLifecycle` | lifecycle and supervisor loop against a renderer that may do anything | `child.zig`, `supervisor_main.zig` |
| `RendererLifecycleProofs` | theorems about it | |
| `ArbiterOps` | the arbiter as functions of its state | `scene/arbiter.zig` |
| `Arbiter` | the renderer's loop around it | `tc002d_main.zig` |
| `NotificationQueue` | the promise: one bounded queue | |
| `ArbiterProofs` | theorems about `Arbiter`, the refinement of `NotificationQueue` among them | |
| `CommandRelay` | a command from client to renderer and back | `netd_main.zig`, `supervisor_main.zig`, `tc002d_main.zig`, `ipc/dedup.zig` |
| `CommandRelayProofs` | theorems about it | |
| `Mirror` | the device, its event stream and the console page that follows it | `netd_main.zig`, `src/panel-v2/index.html`, `src/panel-v2/sim-wasm.js`, `wasm_main.zig` |
| `AgentLock` | the lock script | `src/runtime/tools/tc002-lock.sh` |
| `PanelScripts` | the drawing scripts, run by agents of `AgentLock` on one device (extends it) | `tc002demo.py`, `tc002-canvas-docs.py`, `tc002-demo-transitions.py`, `tc002-demo-images.py` |
| `PanelScriptsProofs` | theorems about the scripts and the lock they take | |
| `Routes` | who may do what: the tables of stand-in, local server and command line | `src/panel-v2/mock-device.py`, `serve.py`, `tc002ctl.py` |
| `DeviceOps` | the stand-in's operations as functions of its state (extends `Routes`) | `mock-device.py`, `Device` |
| `MockDevice` | the threads around it | `mock-device.py`, `Handler` |
| `MockDeviceProofs` | theorems about the stand-in, its operations and its tables | |
| `ConsoleProxy` | the local server | `serve.py` |
| `ConsoleProofs` | theorems about `ConsoleProxy` (token store, streams, list of clocks) and `Mirror` (the page keeps in step) | |
| `NtpPatch` | the ntp patch tool and the device under it | `src/tc002-ntp-patch.py` |
| `NtpPatchProofs` | theorems about status and about what commands claim | |
| `Discovery` | the clock lister: its probes, their rows, the merge | `src/tc002-devices.py` |
| `ProbeWaits` | the clock lister: how long its listener and its query wait | `src/tc002-devices.py` |
| `DiscoveryProofs` | theorems about both: how long it listens and asks, and what it merges | |
| `MC*` | small instances | |

### RendererLifecycle

| code | model |
|---|---|
| `Lifecycle` fields | `state, slot, deadline, age, confirmed, attempt, killSent, requested, failures, failureCount` |
| `poll` answering `spawn`, and `spawn` with `onSpawned` | `Spawn`, refused while `lockHeld` |
| `poll` answering `request_stop` / `kill` / a confirmation | `RequestStopOnTimeout` / `Kill` / `Confirm` |
| `drainIpc`: `ready`, `heartbeat` | `ReadPacket` |
| `reap` and `onExit`, `recordFailure` | `Reap`, `Failed`, `Recorded`, `ThirdInWindow` |
| `drainSignals`, `pollNoNetworkHandback` with `requestStop` | `Shutdown` |
| the process and its socket | `child, term, mail`, `ChildReady`, `ChildBeats`, `ChildHangs`, `ChildExits` |

The code compares one monotonic clock with stored instants. The model stores
*distances*: a deadline counts down to 0, the age of a past instant counts up to the
only bound it is compared with. `Tick` moves all of them. Nothing else has a
horizon, so liveness is checked on infinite behaviours with finitely many states.

### ArbiterOps and Arbiter

`ArbiterOps` has one operator per command of `applyInner` and one for
`expireOverlay`, on a record that keeps what the properties tell apart: which base,
generator and style; the overlay's kind; the notification (name, document or text,
held or not, duration), the queue, the deadline as distance, the revision, the dirty
flag, and of a transition whether one is wanted and whether the old layer is kept.
Pixels, texts and effects are gone. It is separate because the console's replica
runs the same code.

`Arbiter` is the loop: a packet applies its commands and publishes the statement
recorded last (`Apply`, `ScenePacket`, `StreamPacket`), a correction makes dirty
(`Correct`), `Redraw` is `tick` + `takeTransition` + fader, `Pass` is the clock.

### CommandRelay

One variable per piece of state a command meets: the connection waiting in netd,
netd's counter, the lifecycle as far as the relay asks it, the epoch, the
supervisor's own counters, the relay table, the renderer's window, four bounded
sockets. Sends append when there is room and otherwise lose the packet (`Sent`,
`HasRoom`). Every handler is an action: `Submit` (dispatch and relay), `NetdReads`,
`GivesUp` (504), `Relay` (drainNetd), `RelayNtfy`, `ReadRenderer` (drainIpc),
`ExpireRelay`, `Handle` (handlePacket), `Forget` (sweep), and the deaths and starts
of netd and the renderer. `told` and `done` are history: what clients were told, and
what renderers decided.

Ids are pairs of a half of the 64-bit space and a number, because the properties
depend on which counters share a half: netd's and ntfy's both start at
`0x8000000000000000`, the supervisor's own at 1.

`Forget` carries the one assumption about clients and time: an id is forgotten
(60 s) when its client has stopped retrying and no packet with it is left. The
time-outs at both hops are far shorter than the window.

### Mirror

Two records of `ArbiterOps`: the device's arbiter and the page's replica, which is
the same code compiled to WebAssembly. Between them the stream of statements, and
`/status` by two ways (the poll of every second, and a resync).

| code | model |
|---|---|
| `handlePacket` with `sendApplied`, the supervisor's and netd's relaying of it | `DeviceHandles`, `DeviceExpires`, `Publish` |
| `heartbeat`, `onHeartbeat` | `Heartbeat`: `snapshot` is what `/status` answers |
| `beginStream`, `streamWrite` dropping a subscriber | `Subscribe`, `Dropped` |
| `onopen`, `onmessage`, `onerror` | `Open`, `Message`, `Retry` |
| `refreshStatus`, `resyncFromState`, split where they await | `PollAnswered`, `PollReturns`; `ResyncAnswered`, `ResyncReturns`, `ResyncEnds`, `ResyncFails` |
| `draw`: `drainEvents`, `compose`, `setRevision` | `Draw(n, expires)`: `Drained`, `Placed`, `Stamped` |

A frame plays the first `n` queued statements (how many are due is the clock's
choice), puts a snapshot in unless the page follows, and may end an overlay by the
page's own clock (`expires`). Three facts of timing are in the guards: a statement is
played 750 ms after it was made, so heartbeats, 250 ms apart, have told the supervisor
(`InTime`); an overlay the replica ends by its clock has ended on the device, and all
that the device did before has been played (`OnTime`); and, unless `"delays"` is among
the adversities, a snapshot that is due goes in within those 750 ms. What may go wrong
is a constant, `Adversity`, so that each run names what it needs. `said` (the device at
each revision, and which statement told of it) and `unbroken` are history.

### AgentLock and PanelScripts

The lock file is a sequence of lines; `at` is each agent's place in the script. A read
and the append that follows it are two actions. Notes, malformed lines, the thirty minutes
after which an ACQUIRE counts as stale, and the waiter's time-out are left out.

`PanelScripts` adds the device (base, document, sprites), the base that `/status` tells
(of the last `Heartbeat`), and the script an agent runs: its `Stages`, those of its `try`
and of its `finally`. A request is one step, `Request`; `Fault` is one that is refused,
lost, or arrives and loses its answer, or ctrl-c between two of them; where the script
goes on after it is `Raise`. That the scripts run under the lock is what the repository
asks of its users (`src/RUNTIME.md:2481`), not what the scripts do.

### Routes, DeviceOps and MockDevice

| code | model |
|---|---|
| `ROUTES`, `route_lookup` | `Table`, `RouteLookup` |
| `token_for`, `rewrite` of serve.py | `TokenFor`, `Rewrites` |
| the commands of tc002ctl.py, `load_token` | `CtlRequests`, `CtlToken` |
| `Device` fields | the record `NewDevice` |
| methods of `Device`, branches of `_handle` | one operator each: device and request to an outcome (device after it, what the client is told), in the order in which the code checks and writes |
| `_handle`: the token, the body, `with d.lock` | `TurnedAway`, `Arrive`; `SendBody`, `ReadBefore`; `TakeLock`, `Finish`, `Answer` |
| `tc002ctl.py logs -f` | `Follow` |

A body comes whole, cut off, or not at all; `_json_body` takes the last for no fields. A
handler that dies of an exception answers nothing, and what it has written stays.
Fields that differ only in their check share the flag `valid`.

### ConsoleProxy

A thread's place and locals are `pc` and `loc`; the steps end where another thread may
get in between (the lister's call, the iteration over the shared dictionary, each of the two
stores of a list and of the two reads of it, the look at the mtime, the read of the file, every chunk of a stream). Time is ticks; `Pending` names
what the code does at once, and time waits for it. The writer of the token file
(`StartWrite`, `EndWrite`), the pages and the device are the environment. A token pair is
the number of the write that brought it. Its formulas are `ServerInit`, `ServerNext` and
`ServerSpec`, so that one module of proofs can extend it and `Mirror`.

### NtpPatch

`flash`, `file`, `mounts`, `app` are the device: the library in flash, the one pushed, what is
mounted over it, and the inode of the library the application runs on; `same` says that it
is still the process whose number the tool has read. `pc` is the adb call the tool is at. An
action is one adb call with what the tool makes of the answer, and the device may do anything
between two of them. Calls made with `check=False` may bring nothing (`Mapped`, `FileInode`).
`Die` is any end for want of adb, or the operator's; `Push` may be cut off, `Mount` may happen
twice; `Reboot`, `Crash` and `Respawn` are the device's own. A library is its build and the three
constants patched.

### Discovery

`main` submits the mDNS probe and the listener before it asks adb, and takes their results
after the sweep's. So there are three processes: `listener` and `mdns`, which fill `heard` and
`named` from the start (`Hear`, `Browse`, `Answer`), and main (`pc`), which asks adb, then the
sweep's addresses (`http`; beside one another, so in any order), then puts in what the other two
have found. `rows` are the rows in the order of main's dict. Any probe may find less than there
is and end at any time; a sweep may get no mac from a stock clock, whose row then lacks it. A
clock may change its firmware either way while they run, so that it may have a row of each kind,
in any order. `MergeRows` and `One` are functions of the rows at the end.

### ProbeWaits

`listen_broadcasts` and `mdns_query`, one at a time, by tenths of a second, with their real
constants. `due` says when a clock's packet arrives; `at` is what the probe is doing. A broadcast
may be lost (`lost`), and a question may be left unanswered (`missed`): because packet or answer is
lost, because somebody else was answered within the last second, or because the daemon that
shares the port reads it. Packets nobody asked for arrive too, of the clocks and of others. An
`OSError` of the socket, a bind or a send finds nothing, and one of `recvfrom` ends the probe
with what it has (`ProbeFails`). Clocks come, go and change (`Turn`); `steady` are those that
did not.

## The runs

| run | question | bounds, and why they suffice |
|---|---|---|
| `lifecycle` | Is there one renderer at a time, does every crash loop count, does everything asked to end, end, and is it the documented policy? | time-outs of 1–3 ticks: every order of two deadlines occurs; two signals: one, and one during a stop |
| `arbiter` | Do slot, queue, document, layer and statements agree in every interleaving of commands, time and redraws? | a queue of two waiting (one full, one not), three notifications (text, named document, held), durations of 1 and 2, four revisions, a stream frame |
| `relay` | With overload everywhere, is a retry harmless and an answer true? | every socket, the table and the window with room for one: full in most states; a client with an own id delivering twice, one without, ntfy once, one push |
| `relay_restarts` | The same over a restart of the renderer and one of netd, with an epoch named by the client | two renderers, one netd restart; a third would repeat the second |
| `relay_netd` | Does what is said of minted ids hold? (no) | one netd restart |
| `mirror` | Does the page, while it says it follows, show what the device showed at that revision? | three revisions, packets of one and two, any statement lost, any number before the stream opens; base and style, so that a half-played packet shows |
| `mirror_overlays` | Do replica and device end and promote the same notifications, with streams dropped and resyncs failing in between? | three revisions: one shown, one queued, one end |
| `agents_panel` | Does the lock exclude two agents, and do the scripts they run put the panel back? | five lines in the lock file: two holders in turn and one who backs off; two faults in a script (one in its body, one in its cleanup); two own sprites on a device with two slots, so that an upload may find it full; two changes of scene in a pass of the transitions |
| `device` | Do revisions, epochs, the log and the tables of tokens mean what clients take them for? | two threads; three requests in a behaviour, of 39 kinds, with late, cut and empty bodies: a property is broken by one that writes, one that comes between, one that reads; a log of two lines read by one |
| `proxy` | Are lists, tokens and streams what they should be, with threads that share them? | two threads, six ticks: longer than probe, memory and cache added; two writes of the token file; one kind of session at a time, since the three share nothing |
| `ntp_patch` | Is what a command claims so, and does it end? | four commands (apply, one that fails, one after it, status), two crashes, one reboot, the code's five attempts to unmount, three slots for two servers |
| `discover` | Does --one name the one clock, and is a row of the merge what its clock is, in whatever order the rows came? Are the waits long enough? | two clocks. Rows: all four probes; each clock on both adb transports, stock or runtime, with or without its binaries (what a probe or a transport misses is as if it were not there); one change of firmware: rows of both kinds in both orders. Waits: the code's time-outs in tenths of a second; broadcasts every 0.9 or 1.1 s, answers after 0.1 or 0.2 s; one clock that comes, goes or changes; eight packets of others, the most with which the second question is still asked in time: a ninth violates the property. A behaviour looks at rows or at waits, which share nothing |

The type invariants of `Arbiter`, `CommandRelay` and `Mirror` are stated in their modules; the
first two are theorems, the third holds in these instances, and no run is spent on them. The bound of the queue, the one thing in
them that could go wrong, is also `QueueSpec`'s.

`relay` and `relay_restarts` are two runs since together their bounds do not
fit into minutes; each has what the other lacks.

What each property means is said beside it in its module. Every one has a
mutation of the code, listed in `PROJECT.json`, that a plausible edit would make and
that breaks it: the mutants are the operators commented `mutant:`.

Deadlock is not checked. The lifecycle never deadlocks (time passes); the others
stop where a bound on inputs is used up, and the lock file when its lines are. `device`
does check it: `Served` is a step of a device that has answered all it was asked, so any
other state without a step, such as two threads waiting on the lock, would be reported.

## Fairness

* `RendererLifecycle`: `Tick` (the clock advances), and the supervisor's own steps
  `Spawn`, `RequestStopOnTimeout`, `Kill`, `Reap`, which its loop takes at every turn
  (it is woken by a timer and by SIGCHLD), and `ChildObeys`: a renderer that is not
  hung and has received a stop or SIGTERM leaves, which is its `beginStop`. Nothing is
  assumed about health, about the lock, about whether a stop message arrives, or when
  a shutdown is asked for. `Restarts` says "unless the lock is kept" in its formula.
* `Arbiter`: `Pass` (the clock), `Redraw` (the loop wakes at `nextExpiryNs` and every
  frame while an effect runs), and strong fairness of the redraw that ends an effect:
  effects have a duration, and nothing the model leaves in can extend one for ever.
* `Mirror`: heartbeats and the poll (timers), the stream's progress (EventSource
  retries on its own), the answers a resync waits for, and the frame that plays what is
  due. Nothing is assumed about when the device changes. The page is taken to be in view:
  browsers stop frames of hidden pages.
* `NtpPatch`: the tool goes on, since every adb call returns: `_run` tries a call again for
  90 s and then gives up. (A single call has no time-out of its own: that adb itself comes
  back is an assumption.) Nothing is assumed of the device.
* The other modules state no fairness: only safety is claimed of them. That waits are long
  enough (`ProbesHear`), and that a stream's slot is free in time (`SlotFreed`), is stated by
  the clock.

## What is proved

All theorems hold for every value of the constants that satisfies the modules'
`ASSUME`s. Where a theorem needs more than those it says so with an `ASSUME` of its own,
and the hypothesis is named below. Every safety property that a passing run checks is
stated by a theorem; what is left to TLC is liveness (see "What is only model-checked").

**RendererLifecycleProofs**: `TypeCorrect`, `AtMostOneRenderer`,
`CrashLoopAnswered`. The invariant is `TypeOK /\ OneRenderer /\
NoUnansweredCrashLoop`. It is inductive because `OneRenderer` says more than its
name: besides "there is a process exactly in the states that wait for one" it ties
the shutdown flag to the states from which nothing is spawned. That a crash loop is
answered follows from `Recorded` being the ring that `ThirdInWindow` looks at, and
from ages that only grow.

`ImplementsPolicy`: every behaviour is one of `RestartPolicy`, for every window and delay.
The mapping takes from the ring the failures that are inside the window. That a reap maps to a
policy step rests on the ring's order (the oldest is overwritten first; `Ordered`), so that
"the slot about to be overwritten holds an age inside the window" is "three failures inside
the window". Lemmas count the ring's members as the policy does.

**ArbiterProofs**, for any length of the queue, any names, durations and commands:

* `TypeCorrect`; `SlotIsConsistent` (what waits, the document, and the kind of overlay agree);
  `LayerIsHeld` (the layer a transition leaves is there as long as it is needed, and no longer);
  `RevisionAnnounced` (no change without its statement);
* the action property `NotificationsHaveTheirTurn`;
* `ImplementsQueue`: overlay slot and ring together are one bounded queue, step by step.

The invariant is about the arbiter's record (`Sound`: its types, with the bound of
the ring; `Slot`, which is the property of any such record; and that the time a notification
has been up and the time it has left make at least its whole duration), the layer, and the
statement sent last. Each command has a lemma that says what it
does to the record, since a packet applies several and each must leave `Sound` to the next.

**CommandRelayProofs**: `Invariance`, and from it

* `DecidedAtMostOnce` — a renderer decides a command with an id of its client's at
  most once, for any number of clients, retries, packets lost and netd restarts;
* `EpochFences` — a command that names an epoch is decided by that renderer or none;
* `RelaysHaveEnds` — a relay in flight has a renderer to wait for and a netd to answer.

`AtMostOnce` is not inductive: nothing in it says why a second delivery is harmless.
The strengthening says what packets and window hold:

* `CarriesOwnId`, `CarriesNamed`: a packet under way has its client's id, and the
  epoch its client named, or, past the supervisor, one that the name allows;
* `UntriedUnknown`: nothing is under way or decided for a command not yet sent (so
  a client may still choose the epoch it names);
* `NothingFromTheFuture`: no decision carries a later epoch (so the next renderer,
  whose window is empty, has decided nothing);
* `DecidedRemembered`: **what the running renderer decided it remembers, or no
  delivery of it is left.** This is the heart. It holds since the renderer applies
  nothing it cannot remember (`Cache.available` is asked first), and forgets only what
  nobody will deliver again (the assumption in `Forget`).

There is one lemma per kind of step; `QuietStep` covers those that decide nothing
and put nothing of a client's in a socket.

* `AnswersAreTrue` — what a client is told was decided about its command, by the renderer of
  the epoch named with it. `AInv` follows a result back: what the window, the socket from the
  renderer and the socket to netd say under a client's id is `Backed` by a decision; and a
  client's id is on its command and its connection alone (`OwnIdsOwn`). Results cross no
  restart: a renderer is started only after the last one's socket was emptied (`NobodyLeft`).

* `TypeCorrect` — sockets, relay table and window stay within their sizes, and hold what their
  readers take it for. The one step that is not immediate is `reap`, which answers all relays in
  flight in the order of their slots: `NthInFlight` shows that there is an i-th for each i, since
  the rank of a slot is an injection between sets of the same size.

`AnswersAreTrue` has two hypotheses. `DifferentIds`: clients choose ids that differ from one
another's, in the half of the id space left to them ("minted ids have the top bit set, a range
reserved for the device"). `KeepApart`, of the behaviour: no client has chosen a number that
the supervisor has come to in numbering its own commands. Nothing in the code sees to the
second, and without it the property is violated: disagreement 4 below.

**PanelScriptsProofs**: `HolderIsSeen`, for any number of agents: whoever was granted the
device is a holder by the lock file. For at most two agents (`AtMostTwo`; three may both get in,
disagreement 6):

* `OneHoldsTheDevice` — while one holds the device and a rival appends or looks, the holder
  has the earliest claim of the file (`HolderFirst`): the rival's line comes behind it, and the
  rival looks only after its own line is in;
* `PanelIsPutBack` — whatever faults fell into the try of a script, and wherever, base, document
  and sprites are as found, but sprites named like its own. Per job the invariant (`JobOk`) says
  how far the panel may be from what was found, at each stage of the `try` and of the `finally`;
  the lock is part of it (`Alone`), because two scripts at once would take each other's scene
  for the one they found;
* `TidiedBehindTheBase` — the action property of the order in the `finally`.

**MockDeviceProofs**, for any threads, requests, sizes of ring and page, documents and names:

* `AppliedOnce` — no two commands are answered as applied with one epoch and revision: answers
  given are behind the renderer (`Answers`), whose epoch and revision only go up;
* `OneContentPerRevision` — `DocumentsShown`: a revision shown is at most the present one, and
  if it is the present one its content is the present content;
* `SavedIsCurrent`, itself inductive;
* `PagingLosesNothing` — `Ring`: the lines are in order, and neither they nor the cursor of
  a client that pages are beyond the count; so "the first line after the cursor" is the first
  the client has not seen;
* `RefusalsKeepOut` — the action property: who is refused, or dies, has kept to the panel;
* `NoButtonIsRefused` — for every method and path, also of scripts and tokens nobody has
  stored, the authority that server and command line pick is enough for the device's table.

Every operation is shown to be `Sound` by a lemma of its own: what it may do to revision,
epoch, settings, flash and log.

**ConsoleProofs**, the server: `TokensFresh` — the token store never keeps a pair under the mtime of
another, for any number of threads, writes and ticks. The strengthening, `TokenInv`, is about a
thread that is between its look at the mtime and its store (`InHand`): what it holds is no
newer than the file; if the mtime is still the file's, the file is whole and the pair its.
It assumes what the model says of the file: two writes do not get one mtime.

`SlotsComeFree` follows from `StreamInv`, which bounds for each stream when the device spoke last
and when the page left. `ListsAreRecent` follows from `PickerInv`: at each place of
`discover_clocks`, between any two of which other threads run, what was seen is no older than the
caches allow; and the list that is kept is no older than its time and a probe's, though its time may
be another thread's, except while a thread is between its two stores (`Storing`;
disagreement 2 shows what a reader gets then). It needs `ProbeTimeout <= Remember` (8 s and 120 s in the code):
a probe that outlasts the memory of clocks could list one that is forgotten meanwhile.

**ConsoleProofs**, the page, for any packets, names, durations, length of queue and number of
revisions. (The two are in one file because one module extends both; they share no state.)

* `OverlaysStayInStep` — as long as nothing was lost, refused or reset, an up-to-date replica has
  the device's overlay. No hypothesis beyond the module's assumptions.
* `StaysInStep` — a page that says it follows and has replayed a revision shows the base,
  generator and style that the device showed at it, under `Orderly`: the stream may open late and
  any statements may be lost, but it is not opened a second time, and no answer is late or fails;
  no packet has a raw frame; and, if statements may be lost, none has a notification or arms the
  stream, so that there is no overlay to cover the scene. Each of these is needed: "How far
  `InStep` reaches" has the counterexample for what is left out. The run `mirror` meets `Orderly`.

Neither is inductive. What makes them so is a history and how the page's copies relate to it:

* `Historic`: revision by revision, what the device showed and which statement told of it
  (`said`); every statement on its way tells of the one step to its revision (`Tells`), every
  picture is of a revision the device had (`ShownIs`). A packet that makes several changes has
  one statement, so a revision's `told` may be a later one: a statement that lands on the replica
  is then the one right after what it has (`LandsInStep`).
* `Faithful`, for the overlays: whatever the device did after the replica's revision is told by
  a statement still to be played (`Covered`), so the replica's own expiry and the device's
  coincide: where the replica may expire, no statement of another end is outstanding.
* `Settled`, for the scene: `Unframed` (nothing covers what is below), `Connected` (nothing is
  queued before the stream opens, and a replica that starts over has been pushed nothing: `applyStatus`
  then skips no field), `Complete` (if nothing is lost, what is behind a statement tells the
  rest), and the scene of the replica unless a reset or a resync is due.

The lemmas under them say that a command's effect on scene and overlay depends on no more than
these (`Handle` on the device and `Replayed` on the page, which has a notification's summary
instead of its content), and that a whole packet is the same as its parts one after another.

**NtpPatchProofs**: `StatusRight` — when status has read the file's inode and the one the
application has mapped, what it says of them is so, after any number of commands, crashes, reboots
and adb calls made twice, before it and between its own calls. (When it has not read them it says
"stock" all the same: disagreement 3.) The strengthening says that all mounts
are of the file that is there now (`MountsOfFile`), that a file is pushed or removed only with
nothing mounted (`NothingMounted`), and therefore that the application runs on that file or the
one in flash (`AppOnFile`).

`SuccessIsSo` — what apply and revert say when they succeed is so. `Claims` follows the tool
through its steps, whatever the application and init do in between: apply patches the library in
flash, since it pulls with nothing mounted, and what it starts the application on is the file it
pushed, or the file is gone; revert knows of the file it has to remove, and starts the
application with no file and no mounts; the inode status has read is the file's as long as there is
one.

**DiscoveryProofs**: `WaitsLongEnough` — the invariant `ProbesHear` of `ProbeWaits`, for any
clocks and durations: a stock clock not yet heard, none of whose broadcasts was lost, sends before
the quiet is over (`AllSend`); and until somebody answers the query, every clock has an answer on
its way that comes in time, or has left each question so far unanswered, the second of which is
asked in time (`AllAsked`). The hypothesis `QueryOutlasts` says how long the query must be for the
second question to help: a packet of another responder puts it off by a whole time-out, so
`RecvTimeout * (MaxChatter + 1)` and an answer's delay have to fit into `QueryFor`.

`OneIsTheOne` — the invariant `OneMeansOne`, for any clocks, transports and firmware, whichever
probes fail and in whatever order their rows come. The strengthening, `RowsInv`: every row is about
one clock, which some probe saw; every clock seen has a row, or is among those that listener and
mDNS probe have found and main has yet to put in; a clock that answered as a runtime has such a
row at its address, or is named; and rows are replaced only by adb, before main puts in any other.
`MergeRowsIs` says what the merge keeps of this: a merged row for each clock and for nothing
else; one at an address with a runtime's row is a runtime, and one at an address with a mac has
that mac. It assumes (`Identities`) that
addresses are neither empty nor the serial of a usb transport, so that `merge_rows`' keys do not mix.

Folds. What a page replays (`Handle`, `Drained`), and what rows merge to (`MergeRows`), is computed
along a sequence. They are written as recursive functions, and nothing about them is proved by
the library's induction theorems, which no installed prover can instantiate. The least
number that breaks a claim takes their place: `Least` finds it from `WFMin`, `Climb` makes
of it "first and next, hence all", and `Fold` proves from that that there is a function which
satisfies the recursion, so that `CHOOSE` picks one.

Proving corrected the model in places. `Mirror.OnTime` asked whether the statement after the
replica's revision has come by comparing revisions; of a packet with several changes only the
last has a statement, so the model's replica expired an overlay that the device had not. TLC
confirms: `OverlayInStep` was violated with packets of two changes. It asks now whether the
statement that told of the replica's next revision is still to be played. `Discovery.PutByMac` appended a
replaced row; a dictionary's key keeps its place. `CommandRelay.TypeOK` said that nothing is
tried more than `MaxTries` times, which is wrong of a command without an id if that bound is 0. Two cases of `PanelScripts.Heard` overlapped;
`RestartPolicy.Pass`, `AgentLock.Earliest`, `DeviceOps.Page` and the supervisor's answers in
`CommandRelay.AnsweredByReap` are stated by what they select instead of by a recursive
`SelectSeq`; and conditions that the code's constants meet became `ASSUME`s
(`Durations` of `ConsoleProxy` and `ProbeWaits`, `Identities`, `MirrorAssumption`,
`SpritesAssumption`, `FlipsAssumption`, `LogAssumption`, `RequestsAssumption`).

## Disagreements between the code and what is said of it

The first is a run with an expected violation, and quoted in `PROJECT.json`. The others are
reproduced by the configuration named with the change given; for want of room they are no
runs of their own.

1. `relay_netd`: ids minted by netd begin anew when netd restarts, while the
   renderer remembers the old ones: a fresh command without `request_id` is answered
   with the result of an earlier one, and not applied. (Notifications from ntfy are
   numbered in the same half of the id space from the same start, with the same effect:
   `MaxNtfy = 1` and `MaxNetd = 0` in `MCCommandRelayNetd.cfg` show it.)
2. `MCConsoleProxy.cfg` with `GivenRecently`: `discover_clocks` stores the time of the new list
   before the list (`src/panel-v2/serve.py:96`), and other threads read the two at lines 66-67
   without a lock. A request between the stores is given the old list, however old, as a fresh
   one (line 52: "how long a clock stays listed after the last probe that saw it").
3. `MCNtpPatch.cfg` with `StatusKnows` and `MaxCommands = 2`: `status` makes one adb call after
   another. When one of them fails, or the application dies and is started again between two of
   them, it compares nothing and says "running the stock library" of an application that runs the
   patched one (`src/tc002-ntp-patch.py:387-390`; `src/DEVICE.md:172`: "`status` says which library
   the running app has mapped").
4. `MCCommandRelay.cfg` with `OwnId <- NearId`: the supervisor's own commands are numbered
   2, 3, ... in the half of the id space left to clients. A client whose `request_id` is such
   a number is told "applied" for a command the renderer never saw (`TrueAnswer`), though
   `src/RUNTIME.md:1642` says that they cannot collide.
5. `MCArbiter.cfg` with `NoGaps`: a `set_base` packet that changes several things makes
   several revisions and one statement, so a reader of `/events` sees a gap with nothing
   missed in between (`src/RUNTIME.md:1797`: "a gap means it missed one").
6. `MCPanelScripts.cfg` with `Agents <- Three`: the RELEASE of an agent that backs off moves
   the line from which the earliest ACQUIRE is counted, so that a third agent may be admitted
   beside the holder (`MutualExclusion`). Two agents are safe.
7. `MCMirror.cfg` with `Packets <- Bursts`, `Adversity = {}` and the property `CatchesUp`: two
   changes close together, the first of which makes a gap (see 5): the gap's resync throws the
   second one's statement away, and `/status` does not have it yet. Nothing is put in from
   `/status` while the stream is live, so the page shows the old scene until the next statement.
8. `MCConsoleProxy.cfg` with `PickerAnswers`: two requests for the list of clocks at once may
   change the dictionary while the other goes through it, or delete the same clock; one of them
   dies without an answer, where `discover_clocks` says "every failure is an empty list".
9. `MCMockDevice.cfg` with `RefusedLeavesAlone`: a patch whose `ip_mode` is good and whose
   parameters are not, or a scene with a bad ip block, is refused after the panel has changed
   (`src/panel-v2/test_serve.py:1034`: "a rejected patch changes nothing").
10. `MCNtpPatch.cfg` with `RevertRestores`: revert asks once whether the application runs, and one
   that has just crashed is then not started: init has been told to stop the service, so it stays
   away, and revert ends with the advice to start it by hand. "`revert` does so now" (restore stock
   behaviour, `src/tc002-ntp-patch.py:465`) holds only of an application that was found running.

Met while modelling, and stated by no property:

* tc002-devices.py: the address the sweep found is never put in adb's row (`setdefault` on a
  field that is there, empty); `--one` prints ":5555" for one clock on usb without an address;
  a packet of another responder at least every 0.2 s, nine of them in its two seconds, keep
  `mdns_query` from asking again in time, though it means to "ask twice" (line 282); with one clock
  answering, its 0.3 s of quiet may end before the second query is answered; a query may find
  nobody with two clocks there, as its docstring (lines 159-164) and
  `src/test_tc002_devices.py:208-212` say was measured: answers that are lost, or withheld because
  somebody else was given one within the second, defeat both questions, and `ProbesHear` says only
  what holds then; that rule is said to be "every responder"'s, while this runtime's own
  (`mdnsReadable` in `netd_main.zig`) keeps no such time; a clock whose adb address is
  unknown is listed twice, so `--one` refuses.
* mock-device.py: the token of a named client kills the handler (line 1114: the client has no
  "role"); a save whose body was lost saves without its precondition; reading a script asks for
  control, while serve.py's comment says the device asks for scripts.
* tc002-ntp-patch.py: status looks for a known build in the override file, which is patched
  and so never has a known build's checksum: its description (line 401) is not reached.
* tc002-demo-transitions.py: ctrl-c in the first pass leaves the panel on another scene, since the
  base is known outside only when `play` returns. tc002-canvas-docs.py reads `/status` without
  waiting, and uploads and shows outside its `try`. None of the scripts puts the canvas's `persist`
  flag back, and a sprite of the user's with a name of the script's is deleted.

### How far InStep reaches

`InStep` holds with statements lost at any hop (`mirror`). It does not hold when the
page meets what follows; each line is `MCMirror.cfg` with the constants given and
`InStep` as its only property.

| constants | what TLC shows |
|---|---|
| `Packets <- Single`, `Adversity = {"reconnects"}` | while the stream is down, `applyStatus` skips a field of `/status` equal to the one it pushed last, though a statement changed it since; the revision is stamped all the same |
| `Packets <- Framed`, `Adversity = {}` | a snapshot that is due while a raw frame shows does not go in (`compose` returns early), yet counts as in |
| `Packets <- Masked`, `Adversity = {"lost statements"}` | the revision of the replica's own expiry stands for that of a lost statement, so the gap that should cause a resync does not appear; so it is with an armed stream in place of the notification |
| `Packets <- Changing`, `Adversity = {"failed answers"}` | a statement behind a gap is played all the same, and counted as the next revision; the resync it causes fails, and the replica stays as it is |
| `Packets <- Changing`, `Adversity = {"delays"}`, `MaxRevision = 4` | while a resync waits for `/config` longer than 750 ms, a statement that does not land is dropped without another reset |

`AtMostOnce`, likewise, is about one renderer: the window of ids dies with it, and a
command that names no epoch goes to whichever renderer runs, so a retry after a crash is
applied by the successor too.

## What is only model-checked, and what is not modelled

* Liveness (`ShutdownEnds`, `HangEnds`, `Restarts`, `OverlaysEnd`, `CommandEnds`): under fairness
  it is beyond TLAPS's reach.
* The full `TypeOK` of `Mirror`, whose bounds come from `Arbiter`; its proofs carry the types they need.

### What is not modelled

* By choice: codecs, parsers and pixel drawing (pure functions with large inputs, which
  the repository tests against vectors and golden images), floating-point astronomy, vendored
  libraries, generators of code and fonts, test fixtures, and the bootstrap that runs once.
* Not reached: the processes' further state machines that the plan lists under "left".
* Within what is modelled: the arbiter's menu, brightness ramp and canvas; the page's own
  notifications; agents that die with the lock; the stand-in's event stream (it has none) and
  routes that only format; what the scripts draw; the Go client.

`PROJECT.json` gives the status of each component.

## Plan

Done, in this order: `RendererLifecycle` refining `RestartPolicy`, with proofs; `ArbiterOps`
and `Arbiter` refining `NotificationQueue`; `CommandRelay`, with proofs; `AgentLock`; `Mirror`;
`ConsoleProxy` and `NtpPatch`, with proofs; `Discovery` and `ProbeWaits`; `Routes`, `DeviceOps` and `MockDevice`;
`PanelScripts` over `AgentLock`.

Left, each a module with its instance and properties:

1. `Tokens`: the table, its file and netd's copy: adds, rotations and removals over
   saves that fail, packets lost and restarts of both. Property: netd holds whole
   generations of the table, and in the end the present one.
2. `Settings` of the real device, with `DeviceOps` as its abstract specification.
3. `Maintenance`, `NightAndTime`, `Power`: timed state machines in the manner of
   `RendererLifecycle`.
4. `MqttSession` with the TLS worker's handover; `MdnsOwner`.
5. `Presenter`, `Menu`, `LogRing`, `SoundUpload`, `BerryRequests`.
6. For `Mirror`: the page's own notifications and its menu, seeds and brightness, the canvas
   document, and the two-subscriber limit.
7. Proofs: `InStep` under reconnects, once `applyStatus` forgets what a statement changed.
