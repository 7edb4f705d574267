# PatrolSystem: TLA+ models, checks and proofs

PatrolSystem is the on-board program of a patrol robot: it captures MJPEG
frames from a USB camera through V4L2 and sends them over TCP to LongLook, the
monitoring front end, which sends commands back. This directory holds TLA+
models of that program, the TLC configurations that check them, and TLAPS
proofs. Paths below are relative to the repository's root.

Everything is checked with

    tlc -config Camera.cfg CameraManager.tla        # and so on, see "Runs"
    tlapm CameraManager_proofs.tla                  # and the other *_proofs modules

## 1. Inventory

| Component | State | Operations | Status |
|---|---|---|---|
| `CameraManager` (`src/modules/camera`) | handle `fd_`, mapped `buffers_`, `streaming_`, `lastIndex_` | `open`, `startStreaming`, `grabFrame`, `stopStreaming`, `close` | `CameraManager.tla` |
| `Application` (`src/app`) | `running_`, place in `run`/`serveClient`, `grabFailCnt`, `rxBuf` | `run`, `serveClient`, `interruptibleSleep`, `requestStop` | `Application.tla` |
| `TcpServer` (`src/modules/network`) | `listenFd_`; the client's socket belongs to `run` | `listen`, `acceptClient`, `sendAll/Frame/Text`, `pollCommands`, `closeClient` | `Application.tla`, `CommandChannel.tla` |
| `FrameProtocol` (`include/modules/network`) and LongLook's parser (`test/frame_parser_check.py`) | none | `buildHeader`, `buildFrame`, `packSensor`, the two parsers | `FrameProtocol.tla`, `SensorClock.tla` |
| `main` | `g_app`, the options | `onSignal`, both passes over the command line | `Startup.tla`, `Application.tla` |
| `ConfigManager`, `JsonHelper` | the three sections, the file | `load`, `save`, accessors, `json::parse` | `ConfigManager.tla`, `JsonHelper.tla` |
| `SerialManager`, `Protocol.h` | `fd_`, `rxBuf_` | `open`, `close`, `sendCmd`, `poll` | `SerialProtocol.tla`, `SerialLink.tla` |
| `core/TaskScheduler` | `tasks_`, `nextId_`, a mutex | `addTask`, `removeTask`, `tick` | `TaskScheduler.tla` |
| `core/EventBus` | `subs_`, `nextId_`, a mutex | `subscribe`, `unsubscribe`, `publish` | `EventBus.tla` |
| `core/StateMachine` | `cur_`, a mutex | `process`, `current` | `StateMachine.tla`, `AtomicMachine.tla` |
| `core/Timer` | `interval_`, `repeat_`, `running_`, `last_` | setters, `start`, `stop`, `reset`, `check` | `Timer.tla` |
| `TcpClient` | `fd_` | `connect`, `sendAll`, `recv`, `close` | `TcpClient.tla` |
| deployment (`deploy/`) | unit states, retry counters | the Wi-Fi script, restart after exit | `PatrolService.tla` |
| `business/` controllers; `Logger`, time, version; kernel modules; build and install scripts | - | - | not modelled, see section 5 |

`PROJECT.json` lists the same components with their files. The serial link,
`TcpClient` and the `core/` utilities are in the repository for its second stage
(CMakeLists.txt:51); nothing of the first stage calls them yet, so they are modelled on their own, under every use their interfaces allow.

**How they interact.** systemd starts the program when the Wi-Fi script has
ended, and again after every exit. `main` reads the command line for the
configuration file, the file, and the command line again. From then on the
program is one thread. `run` opens the camera,
retrying every 3 s, listens, and then serves one client at a time: start the
stream, send a greeting, and in a loop grab a frame, send it, send a sensor
frame once a second, and poll for commands. Three parties act concurrently
with that thread:

- the **V4L2 driver** writes into every buffer that was queued to it, and the
  camera may be unplugged (and plugged in again) between any two system calls;
- **LongLook and the network** read, stall, close, reset, and cut the byte
  streams anywhere;
- the **signal handler** clears `running_`.

There is no lock between the thread and any of them. What keeps them apart is a
protocol: a frame pointer is valid until the next `grabFrame`
(`CameraManager.h:17`), so the send of a frame must be over before the next
grab.

**What is hard.** A frame is in driver memory while a blocking `send()` may be
stuck on it for minutes; `open` and `startStreaming` are sequences of ioctls
that can fail after any step; `serveClient` has an early return and three
breaks; a camera that disappears leaves an open handle that can never work
again; a stop request or the client's close can arrive in every one of those
places; the command stream is cut and resynchronised at byte level by two
independently written parsers. The "hazards" list of `PROJECT.json` gives each
of these with its line and the property that covers it, or the reason why none
does. The second stage's parts add callbacks that call back in, mutexes held
while strangers' code runs, a clock that wraps, and a file that may end
anywhere.

**What correctness means**, per component:

- camera: a returned frame is mapped and never in the driver's hands; no buffer
  is lost; capture never starves; a failed `open` leaves nothing half open;
- main program: frames reach LongLook whole and in order, the greeting first;
  nothing of a client survives it; each way out closes what was opened; a stop
  request, a departed client and a lost camera are all noticed;
- serial link: no good frame is lost, repeated or passed over, whatever noise is
  around it; a confirmed command can be received, and where it cannot, it is known what
  is in its way;
- scheduler and timer: a timer does not fire early, no task runs more often than its
  interval allows or is left behind, what a callback does to its own timer holds;
- event bus and state machine: one `publish` is one round of the handlers there
  were, whatever they do; a `process` is one step to everybody else;
- configuration: a file sets what it names and nothing else, a damaged one never
  half a section, the command line beats it;
- telemetry: its layout is the reader's, and it keeps coming across the wrap;
- deployment: nothing at boot, and no crash, keeps the program down for good;
- command direction: chunking does not matter, no command is lost, duplicated
  or invented, both parsers agree, the buffer is bounded.

## 2. Modules

    VideoLink                 what LongLook is promised (abstract)
        ^ implemented by
    Application  -- extends -->  CameraManager     run(), serveClient(), TcpServer's sending side
        ^                            ^
    Application_proofs           CameraManager_proofs

    FrameProtocol                byte format and the two parsers
        ^ extended by
    CommandChannel               pollCommands called again and again over a cut stream
        ^
    CommandChannel_proofs  -- extends -->  FrameProtocol_proofs

    SerialProtocol               frames and parser of the serial line, CRC-8
        ^ extended by
    SerialLink                   SerialManager on a bad line
        ^
    SerialLink_proofs            uses the sequence lemmas of FrameProtocol_proofs

    JsonHelper  <- ConfigManager  <- Startup       the file, its readers and writers, main()
                                        ^
                                     Startup_proofs

    AtomicMachine                what users of a StateMachine rely on (abstract)
        ^ implemented by
    StateMachine    EventBus    Timer    TaskScheduler    TcpClient    PatrolService
    SensorClock (extends FrameProtocol)
        ^
    Core_proofs (StateMachine, Timer, TaskScheduler, EventBus)
    Network_proofs (TcpClient, SensorClock, PatrolService)

    MCApplication, MCCommandChannel, MCSerialLink, MCStartup
                                 the values TLC gives to the constants
    MCParts                      these seven modules in one run

### CameraManager

`isOpen`, `nbuf`, `mapped`, `streaming`, `lastIndex` are `fd_ >= 0`,
`buffers_.size()`, how many of those are mapped, `streaming_` and `lastIndex_`.
`queued` and `done` are the driver's two queues; a buffer in neither belongs to
the process. `op` is the call in progress, so that the driver can act in the
middle of `open` (between negotiation and each `mmap`) and of `grabFrame`
(while it waits in `select`). `present` and `alive` separate the device node
from the device behind the open handle: after an unplug and a replug the node
opens again, the old handle stays dead.

Every ioctl may fail at any time, whatever the device's state, with one
exception: `VIDIOC_STREAMOFF` on a live device succeeds. `VIDIOC_QBUF` of a
buffer the driver already has always fails, as V4L2 defines. Resolution, frame
rate and pixel format are data nothing here depends on.

### Application

`pc` is the place the thread has reached; a place exists wherever the thread
may wait or another party's step would make a difference. Each action is one
stretch of code between two places, and calls the camera by conjoining
CameraManager's action (`Start` contains `StartSucceeds` or `StartFails`, `Check`
contains `GrabBegin`, `Stop` contains `StopStreaming`; `NoListen`, `CloseCamera` and
`DestroyCamera` contain `Close`).

Each return of `run` is a way of its own to the place `returned`: the two of the boot phase
(`StopSeen`) close nothing, a failed `listen` closes the camera by hand (`NoListen`), the
end of the accept loop closes the camera and then the listening socket (`CloseCamera`,
`CloseServer`). Behind `returned` the destructors of the server and of the camera close what
is still open (`DestroyServer`, `DestroyCamera`). `RunCleansUp` is about `returned`, before the
destructors: a way out that leaves its cleaning up to them is seen.

A frame is a sequence of units, its header first. `chan` is everything between
`send()` and LongLook's `recv()`, at most `Cap` units, so `send()` really
blocks. `conn` is the connection as the program's kernel knows it: `up`, `fin`
(the peer closed its side) or `reset`. Abstractions, all towards more
behaviour than the program has unless noted:

- time is left out: whether the second between two sensor frames has passed is
  a choice (SensorClock has the clock), `select` may time out at once;
- an accepted client may already have closed or reset;
- a socket error is permanent: `send()` fails only after a reset. (TCP socket
  errors are sticky; this is what makes it harmless that `serveClient` does not
  look at the result of the greeting.)
- the connection is followed until `closeClient`; what TCP still delivers
  afterwards is not.
- `healthCheck` only logs; the statistics counters only log.

### VideoLink

The promise, in four actions: connect, one greeting, whole frames afterwards
delivered in order, disconnect at any time. `Application` maps to it by
counting frames from their last unit (`Link` at the end of `Application.tla`).

### FrameProtocol and CommandChannel

`Scan` is the parser of `pollCommands`, `ParseStream` the one of
`frame_parser_check.py`; both work on real bytes and return the frames, the commands
among them and what is kept. Each is a loop, and is written as one: a turn (`ScanTurn`,
`ParseTurn`) looks at the bytes from the current offset on and drops some, takes a frame
or stops; the parser is the recursive function that takes turns until one stops. The
offset into the buffer is the only thing abstracted: what is behind it is the argument of
the function. `CommandChannel` runs `pollCommands` as the code does: the `recv` loop
until there is nothing more, an early return when the peer closed or was lost,
then one parse of the whole buffer. What LongLook writes is a `script` of
pieces, which the network delivers in chunks of any size.

Both parsers test LEN against a limit of 16 MiB on 32 bits, each against its own:
`LL_MAX_PAYLOAD` of the header file (`TooLong`) and the number written in the Python
script (`TooLongForLongLook`). The models look at the
highest byte first, because TLC's integers are 32 bits wide; theorem
`TooLongIsComparison` shows that this is the code's comparison.

### SerialProtocol and SerialLink

`SerialScan` is the loop of `SerialManager::poll` with the real checksum, a recursive function
over the offset: one turn (`SerialTurn`) ends the loop, moves on by a byte, or takes a frame.
A frame carries its place in the stream, so `SerialScan` is told where in it the buffer
begins. Bytes are xor-ed as sets of bits, `Crc8` goes bit by bit like the code; the
reference for the checksum (`Remainder`) divides polynomials, given as sets of exponents.
`SerialLink` opens and closes the port (`rxBuf_` survives a close, as in
the code; what arrives in between is lost), reads any amount that has arrived up
to the size of the local array, and sends commands of which the port may take any
part. `received` is a history variable: everything `read()` ever returned; the
properties compare the many polls with one pass over it. The callback is opaque and
does not call `poll` again. The motor controller at the other end is not in
the repository; where a property needs a receiver it is one that parses like
`poll`, since both directions have one format. `sendCmd` tells its caller only whether the
port took the whole command; `confirmed` records what it said so of, and where on the line it is.
What the port took a part of is a *stray* in front of what comes next: `FoundOrHidden` says
that a confirmed command is found unless a stray is before it and the receiver still
waits for more of that, or took a frame nobody sent around the command; `CommandsLossless`
that without strays the receiver gets what was confirmed, in that order, and nothing else.

### TaskScheduler

`tick` samples the clock (`TickBegin`), takes the mutex (`TickLock`), and runs the due
tasks one by one (`TickTask`); the clock advances at any time. `Callers` says
whether `addTask`/`removeTask` are called by the ticking thread only or by others
too. Clock differences are taken modulo `Modulus`, as the cast to `uint32_t` does.
`since` records for each task the time at which it was added or really last ran, which may be
later than the tick's sample of the clock: the task before it took its time, with the mutex
held. The code keeps the sample (`t.last = now`), so two runs may be closer to each
other than the interval, and no property says otherwise. `claimed` is the time a task was
added plus an interval for each of its runs; that it never gets ahead of the clock is
what "periodic" still means (`NeverTooOften`).

### SensorClock

The expression `t - lastSensorMs >= 1000` on a 32-bit counter that starts and
wraps anywhere, with turns of the loop of any length up to `MaxTurn`, and the
payload `packSensor` makes of the placeholder values. The other one-second clock
of `serveClient` works the same way and only logs.

### JsonHelper, ConfigManager and Startup

`JsonHelper` is the parser on a sequence of characters, with its result or the exception: the
three parse functions that call each other are one recursive function of what is parsed and
the position (`Parse`). A fraction is cut to an integer, because `int_or` is all that is ever
asked of it. `ConfigManager` has the running configuration, the
file, and who wrote it last: `save`, a `save` cut at any character, or a user
(the history variable `origin`). A word nobody looks into, such as a device path,
is one character; `save`'s indentation is left out. An unreadable file is an empty
one, for `load` refuses both. `Startup` adds `main` up to `app.run()`: the first pass
for `-V` and `-c`, `load`, the second pass, the log file. Each pass is a loop, one turn of which
is an operator (`ScanTurn`, `OptionTurn`). A command line is given as words, an option with its
value if it takes one; any arguments can be split like that (`StartAssumption`). An argument
is a string, `Numbers` stands for `atoi`. `conf` is only read by `main` after `load`; the one-file
bound (no other path than the default names a file) keeps the file one variable.
Numbers have no width except the port, which is cast to 16 bits twice, once from
the file and once from the command line.

### EventBus, StateMachine and Timer

Each models the mutex, if it has one, and callbacks as steps of their own, so that
other threads, and the callback itself, can act while it runs. In `EventBus` each
thread has a stack of `publish` calls; `owed` is recorded when a call begins and
compared with `called` when it ends. In `StateMachine` the mutex is held from `Lock`
to `Return`; guards may refuse, every callback may throw (which unwinds the lock
guard); callbacks do not call the machine, which would be a wait of the thread for
itself, and which nothing in `src/` does. `AtomicMachine` is the promise: the state moves
in one step along a transition, and `current` returns it; `state` is mapped to the
state before the call while one is in progress. In `Timer` a callback may call
every function of its timer, `check` too, except `setCallback`: replacing the
`std::function` that is running would destroy it, and nothing does that.

### TcpClient

The sockets the process has open, against the one `fd_` names; `O_NONBLOCK` is on
from `socket` until the connection is there. A user may call anything again after any
failure. `send` fails when the connection is dead, or when it is full and the socket
does not block. `recv` changes nothing of the object and has no action.

### PatrolService

`setup_network.sh` as a sequence of steps with the time each may take, killed when the
sum passes `TimeoutStartSec`; and `patrol.service`, which requires the script's unit,
is started again `RestartSec` after each exit and given up by systemd at the start
limit (its defaults, which the units do not change). `window` is systemd's rate limit as it
keeps it: the number of starts since the window opened, which the first start after the
last window's end opens anew. `LookupTime` is how long the lookup of
`PING_HOST` takes without a network: 20 s, the resolver's two servers, twice, five seconds
each. `systemctl stop`, `ip`, `iw` and `wpa_cli` calls count as instantaneous. The
program inside is a box that may end at any time with any status; what it does is
`Application`. An error of `accept` ends it with status 0, which `Restart=on-failure` would
take for an orderly end; `Restart=always` does not.

## 3. Runs

| Run | Question | States | Result |
|---|---|---|---|
| `camera` | In every order of calls, with any ioctl failing and the camera coming and going, are buffers ever lost, shared, unmapped while in use? | 520 | holds |
| `camera_restart` | After a failed start, can the stream be started again? | | **violated** |
| `serve` | Is what LongLook reads well formed, is nothing left between clients, does every return of `run` close what was opened, is `VideoLink` implemented, are a stop request, a departed client and a lost camera always noticed? | 77,220 | holds |
| `camera_loss` | Does the loss of the camera end the program, as the service unit says? | | **violated** |
| `commands` | Over streams of up to three pieces cut in every way, does `pollCommands` find exactly the right commands? | 1.6 million | holds |
| `last_commands` | Are commands delivered that come together with the close? | | **violated** |
| `serial` | On a noisy line that is cut, closed and reopened anywhere, does `poll` find every good frame once, is `crc8` the CRC of the protocol, and can a confirmed command be received? | 239,071 | holds |
| `serial_empty` | Is the length the callback is given the payload's? | | **violated** |
| `parts` | Each of the seven parts on its own: see "What the parts promise" | 816,548 | holds |
| `scheduler_threads` | Does no task run more often than its interval allows when tasks are added by another thread? | | **violated** |
| `config` | What do files that were saved, cut short or written by hand set, and does the command line beat them? | 31,781 | holds |
| `config_cut` | Is a file refused that was not written to its end? | | **violated** |

Each property of a passing run has a mutant in `PROJECT.json`: a definition
placed just before the one it alters (a dropped requeue, a
return that forgets the camera, a full socket taken for a finished frame, resynchronising by a
header, ...) under which the same run finds that property violated.

### What the parts promise

The seven parts share nothing, so they share a run: `part` says whose behaviour it
is, and the other variables stay as they were. That costs no interleavings, and a
state of one part is never multiplied by those of another.

- `EventBus`: a `publish` calls exactly the handlers subscribed when it began, each
  once, in the order of their ids (`PublishIsOneRound`: the list of calls is ascending and
  its elements are the subscriptions). A handler may be called after its
  `unsubscribe` returned, by a `publish` that began before.
- `StateMachine`: enter and exit callbacks alternate (`EnterExitBalanced`, until a callback
  throws: then the exit has run and the enter has not); others see a call happen in one step (`ImplementsAtomicMachine`).
- `Timer`: what the callback did to its timer holds (`CallbackHasLastWord`); it
  never fires early (`FiresNotEarly`).
- `TaskScheduler`, used from one thread: no task has run more often than its interval has
  passed since it was added (`NeverTooOften`), and a tick forgets none (`NothingDueAfterTick`:
  when it ends every task ran since it began, or had waited less than its interval then, or
  the tick came a whole wrap of the clock after the task's last one).
- Telemetry: it comes within a second and one turn of the loop, wherever the
  counter wraps (`TelemetryKeepsComing`), and is laid out as LongLook reads it
  (`TelemetryReadable`).
- `TcpClient`: no socket is left behind (`NoSocketLeak`), and a peer gets whole
  messages and at most one cut one, the last (`OnlyLastCut`).
- Services: the script's worst case fits its time limit (40 s for the card, 86 s for two
  rounds, 18 s for DHCP, 26 s for the pings: 170 of 180), and three seconds between
  starts stay below five starts in ten seconds (`NeverGivenUp`); the program is always
  started again (`ProgramOfServiceComesBack`).

### What the violations show

1. **A start that fails half way is permanent.** `startStreaming` returns
   without `VIDIOC_STREAMOFF` when a `VIDIOC_QBUF` or the `VIDIOC_STREAMON`
   fails; the buffers already queued stay with the driver, `streaming_` is
   false, so `stopStreaming` does nothing either, and every later start fails at
   its first `VIDIOC_QBUF`. The device is never closed while the program runs.
2. **Losing the camera does not end the program.** `patrol.service:16` counts on
   an exit to restart it. `serveClient` drops the client after five failed
   grabs, `run` returns to `acceptClient`, and each later client is dropped at
   once because the handle is dead; `open` is only called at boot.
3. **Last commands are dropped.** When `recv` returns 0 in the same call in
   which it returned data, `pollCommands` returns -1 before parsing. A client
   that sends an emergency stop and closes may have it ignored.
4. **An empty serial frame has a huge payload.** `AA 55 00 00` passes the checksum; its
   payload length is computed as `size_t(0) - 1`.
5. **A task added during a tick may run at once.** `tick` reads the clock before it takes
   the mutex; a task added by another thread meanwhile has a later time stamp, and
   the negative difference wraps to almost 2^32 ms. From the ticking thread alone
   (run `parts`) this cannot happen.
6. **A configuration file cut short can be accepted.** `save` truncates the file and looks at no
   result of writing it; the loops of `parseObject` and `parseArray` stop without an
   error where the text ends, so that a file that ends behind a comma or an opening
   brace is loaded and `load` returns true. `SectionsWhole` says what saves the day: the
   sections that are there are whole or untouched, never half of one.

### Bounds, and why they are enough

- `GrantCounts`: `camera` uses 0 to 4 (0 and 1 are refused by `open`, 4 is what
  the code asks for, more behaves like 4); `serve` 1 to 3 (one refused,
  two the least that can stream); `camera_loss` 2, the least. The proofs
  cover every count.
- `Cap` 2 and a video frame of 3 units: sending a video frame always blocks at
  least once, so the camera, the signal and the network get their turn in the
  middle of a frame; text and sensor frames have a header and one unit and can
  also be split.
- `SleepTicks` 2 or 1 for 30 ticks of 100 ms: a tick looks at `running_` first
  and they are all alike; a first and a last one are needed.
- `GrabFailLimit` 2 for 5: a failure below the limit, one at it, and the reset
  by a success all occur.
- `RecvMax` 5 for 512: `recv` needs several turns for one frame of 8 or 9
  bytes. `last_commands` uses the real 512: the violation does not depend on it.
- Scripts: up to three pieces of eight kinds: two commands (one with a SOF byte
  in its payload), a COMMAND frame too short to be one, a frame of another
  type that contains a SOF, a stray SOF, a stray byte, a header with
  `LEN = LL_MAX_PAYLOAD + 1`, and one whose LEN is huge because its highest byte
  is a SOF. Three is enough for noise before, between and after frames.
- Serial line: every two pieces out of three reports (one with a frame start in
  its payload) and five kinds of noise (stray start byte, lost beginning, lost end,
  changed byte, LEN 0), and every noise between two reports; two opens, so that one
  close falls inside a frame; `ReadMax` 4 for 256, less than the shortest frame.
  Three sends, so that a confirmed command has up to two halves before it. Of the four payloads
  the longest begins with a byte chosen so that half of another command in front of it passes
  the checksum: both ways to hide a confirmed command occur.
- Scheduler: three tasks, intervals 0 and 2, a clock up to 5: a task can be due
  twice, be added and removed between ticks, and be held up by the one before it. `Modulus` is 4, so
  ticks that come later than the wrap occur. `scheduler_threads`: intervals 1 and 3, a clock
  up to 6, `Modulus` 16, above it: the violation does not need a late tick.
- Event bus: two threads, three subscriptions, `publish` nested twice. State machine: two
  threads, two states, one transition from a state to itself. Timer: intervals 0, 1
  and 3, a clock up to 5 that wraps at 4, callbacks nested twice.
- Telemetry clock: a counter of 16 with a second of 4 and turns of up to 6, from every start
  value: turns shorter and longer than a second, before, on and behind the wrap. Only
  the assumption "a second and the longest turn are below the wrap" matters.
- `TcpClient`: three sockets, messages of two pieces, a connection that holds three.
- `PatrolService`: the real times. Steps that may take any time take their shortest or
  longest; the association takes every number of seconds.
- Configuration: two configurations to save, one with a port above 32767, cut at
  every character; 67 hand-written files with five texts for `bind` (an escape, `\u`, an
  array with an object in it, a Boolean) and six for `port` (negative, above 16 bits,
  with fraction and exponent, of the wrong type) in one section behind a comment, or
  `port` twice. A manager loads once, as `main` does; it may be replaced at any time.
  Command lines: none, or one of six words and one of fifteen behind it, which
  makes every pair of a settings option, `-c`, `-h`, `-V`, an unknown option, an option
  without its value, an empty value and one that reads like `-V`. What option values do to each
  other does not need a third.

`CHECK_DEADLOCK FALSE` stands only in the configurations of CommandChannel and
SerialLink (the script is finite, and a connection that ended, or a closed port
with no opens left, has no more steps), of the parts (sockets, tasks and time are
bounded) and of Startup (the program was started). The main
program always has a step: even after `run()` returned the camera can be
plugged and unplugged, and before that some action of its own is enabled or
another party's is.

### Fairness

- `ProcessFair`, weak fairness of the thread's steps together: the kernel
  schedules the process, `select` has timeouts (500 ms, 1 s), `sleep_for`
  returns. A blocked `send()` is a step that is not enabled, so nothing is
  assumed about it.
- `NetworkFair`: data in the connection is read in the end, or the connection is
  lost. The second half is TCP's retransmission limit. It excludes one real
  environment: a client host that stays alive, acknowledges window probes and
  never reads. Against such a client a blocked `send()` lasts for ever and a stop
  request is not answered; the code sets no send timeout.
- No fairness is assumed of the camera, of LongLook's closing or of the signal.
- `PartsFairness`: the Wi-Fi script, systemd's start and its timers go on. That the script goes on rests on each of its waits being bounded, which is why
  each step carries its longest time.
- Only the runs `serve`, `camera_loss` and `parts` assume fairness.

## 4. Proofs

The theorems hold for every value of the constants under these named assumptions, which
TLC evaluates in the runs: `GrantAssumption` (buffer counts are natural numbers),
`AppAssumption` (`Cap`, the frame lengths and `GrabFailLimit` are positive, `SleepTicks` is
natural), `ChannelAssumption` (a read takes at least a byte; a script is made of pieces, and
one without noise is what `buildFrame` makes), `MachineAssumption` and `BusAssumption`
(the mark for "nobody" is no thread, the one for "none" no event), `SerialAssumption` (like
`ChannelAssumption`; payloads are sequences of at most 255 bytes, for `payloadLen` is a byte; a
report's has less, for LEN is one byte and counts CMD too), `StartAssumption` (a command line is
made of words), `SchedulerAssumption`,
`TimerAssumption`, `ClientAssumption`, `LookupAssumption` (types), `ClockAssumption` (a
second and one turn of the loop together are shorter than the wrap). Bounds such as
`MaxClock` or `MaxNesting` are any natural number. Two theorems
have a hypothesis of their own, which they state: `NoTaskRunsTooOften`, that one thread uses the
scheduler, and `ServiceIsNeverGivenUp`, that a lookup takes at most 30 seconds.

**CameraManager_proofs.** `TypeOK` and the buffer properties are not inductive.
The inductive invariant `IInv` adds: a closed camera holds nothing
(`ClosedIsEmpty`); what each call in progress has settled so far (`OpProgress`,
in particular that waiting for a frame means holding none, and that an open,
idle camera has at least two buffers, all mapped); no buffer is in two hands
(`OneOwner`); the driver streams only for a process that asked (`StreamAgrees`).
One lemma per group of calls shows that it is kept (`NextKeeps` combines them).
From it: `TypeCorrect`, `FrameContract` (`HeldFrameIntact`), `BuffersAccounted`
(`NoBufferLost`), `CaptureGoesOn` (`CaptureNeverStalls`: at most one of the buffers is
with the program, and there are two because of the test `req.count < 2` of `open`),
`OpenIsComplete` (`NoHalfOpen`).

**Application_proofs.** Three invariants, each resting on the one before.

1. `AppInv` is `IInv` with `Agreement`: which call of the camera is in progress in each
   place (`OpAgrees`), where the camera is open and streaming (`CameraAgrees`), which
   sockets are open (`SocketsAgree`), and that a video frame being sent comes from a
   held buffer (`OutAgrees`). The key lemma, `StepIsCameraStep`, says that every step of the
   program is a step CameraManager allows or leaves the camera alone; hence
   `UsesCameraCorrectly` (`AppSpec => CameraSpec`), and everything proved of the camera
   alone holds inside the program. From it: `SentFrameIsStable` (`FrameStableWhileSent`),
   `NothingLeftBetweenClients` (`BetweenClients`), and `RunLeavesNothing` (`RunCleansUp`):
   `CameraAgrees` and `SocketsAgree` follow each way out place by place.
2. `TypeInv`: `AppTypeOK`, and failed grabs stay below their limit (`AppTypeCorrect`).
3. `WireInv`. `StreamWellFormed` speaks of the wire between its ends and is not inductive:
   whether the next unit fits depends on what was sent last, which LongLook may have
   read already. So the wire includes the last unit read, and `WireAgrees` says how
   it ends in every place of the program: inside the frame being sent, at the unit
   `out.sent`, or behind a whole frame. `StreamIsWellFormed` follows.

`ProgramIsVideoLink` is the refinement. VideoLink's queue of frames is read off the wire
by `Ends`, a recursive function over the units in the connection; `EndsAppend` and `EndsTail`
say what one unit more at the end or one less at the beginning makes of it. Then a unit
that completes a frame is a `Push` of VideoLink, or its `Greet`, any other unit a stutter
(`SendUnitIsLinkStep`); a unit read is a `Deliver` or a stutter (`PeerReadIsLinkStep`);
`LastTells` gives the one fact both need, whether the greeting was sent already.

**FrameProtocol_proofs.** `HeaderRoundTrip`: the four length bytes are read back as the
length for every 32-bit length. `TooLongIsComparison`: the parser models' test
of LEN is the code's; `LimitsAgree`: the two parsers' limits are one. `TelemetryLayout`: a telemetry payload has forty bytes and each of its
twenty fields is read back at its offset, a negative one as its two's complement, for
all values of the fields' types.

The rest is about the two parsers, for all sequences of bytes: `ScanOfConcat` (parsing in
two parts is parsing at once), `ParsersFindTheSame`, `FrameRoundTrip`. The parsers are
recursive functions over the buffer. The library's induction rules take an operator as a
parameter, which no installed prover can instantiate; the proofs use a smallest
counterexample instead, which is a set: `LeastNat` (a nonempty set of naturals has a least
element, from `NatLessThanWellFounded` and `WFMin`), and on it `Shortest`, for sequences. That a recursive
function exists at all, without which its equation says nothing, is proved in the same way
(`LoopDefined` for the parsers, `Accumulates` for what is added up along a sequence). A
parser's turn looks only at a beginning of its buffer (`MoreBytes`), so a shorter counterexample
is left when the turn is done.

**CommandChannel_proofs.** `ChannelInv`: what was delivered, followed by what one parse
finds in the buffer, is what one parse finds in all the bytes taken, and the same bytes
remain. A `recv` keeps it by `ScanOfConcat`. From it, for every script, cut and receive size:
`CutsDoNotMatter` (`ChunkingIrrelevant`), `BufferHoldsOneFrame` (`LeftoverIsOneFrameStart`),
`BothParsersAgree` (`ParsersAgree`), and with `FrameRoundTrip`, piece by piece of
the script, `EveryCommandArrives` (`CleanStreamLossless`).

**SerialLink_proofs.** The same argument for the other protocol, with two differences. The loop of
`poll` is a function over offsets, so the counterexample taken is the one at the last offset
(`LastPosition`), and a scan has to be moved along the stream: `ScanOfPast` says that what is
found behind an offset is what is found in a buffer that begins there. `SerialInv` says that
frames and rest are those of one pass over everything read; a read keeps it by
`SerialScanOfConcat`. Nothing is assumed of the noise, of the sizes of the reads or of when
the port is closed. From it `ReadsDoNotMatter` (`PollsAddUp`), `BufferHoldsOneFrameStart`
(`SerialRestIsFrameStart`), `GoodFramesAreHandedOver` (`NoFrameSkipped`: a
good frame starts where a turn takes it, or inside one that a turn takes), and with
`SerialRoundTrip` and the fact that nothing read is missing while `received` is as long as `taken`
(`NothingLost`), `EveryReportArrives` (`ReportsLossless`). These proofs do not
expand the checksum: they hold for any function of the bytes, which also says that none of
these properties rests on the checksum being a good one.

What the checksum is, is proved apart. A byte is the sum of its bits (`SumOfDigits`, `NumberOfBits`),
so xor and shift of numbers are set operations on the exponents (`XorBits`, `ShiftBits`). The loop
over the bytes and the one over a byte's bits are unfolded to one step after the other
(`Crc8Unfolds`, `CrcOfByteUnfolds`), and so is the long division (`RemainderUnfolds`). One turn of
the inner loop is one step of the division on the highest exponents that are left
(`DivisionTurn`), eight of them do away with a byte (`ByteDivided`), and counting along the
message (`Counting`, an induction over the elements of a set) gives `Crc8IsRemainder` for
every sequence of bytes; `ChecksumIsCrc` (`CrcIsRemainder`) is that, along `SerialInv`.

`SenderInv` is about the other end of the line. Confirmed commands are on it whole, one behind
the other, each at the place recorded (`Placed`); one that has no stray before it is found by the
receiver (`FoundUnlessStray`); and while there are no strays at all, the receiver has found all
of them and waits for nothing (`FoundAll`). A send keeps it (`WholeIsSent`, `PartIsSent`):
`SerialScanOfConcat` says that more bytes leave what was found (`StaysFound`) and that a whole
frame behind a receiver that waits for nothing is found (`WholeIsFound`). From it
`CommandsArrive` (`CommandsLossless`).
For a command behind strays, `GoodFramesAreFound` says that its frame starts where the receiver
takes it, or inside a frame taken, or in what is left, and `WhatIsFound` which frames can be
taken; so `ConfirmedAreReceivable` (`ConfirmedIsReceivable`) holds for all payloads below 255
bytes. `LongestCommandIsLost` is the case left: `LEN` counts the CMD byte in a `uint8_t`, so a
payload of 255 bytes has LEN 0, and a command `sendCmd` confirms is never found.

**Startup_proofs.** `StartingAsTold` (`StartsAsTold`), for any file, any numbers and all
command lines. `WordsBegin` says where each word of the command line is among the arguments
that `FlattenSeq` makes of them, `ScanUnfolds` and `OptionUnfolds` that the two passes are their
turns one after the other. The invariant of the first pass (`Scanned`): the next argument begins
a word, or is the value of the word before, and the path is the one the last `-c` so far gave.
That of the second (`Passed`): every word so far was understood, the next argument begins a word,
and each setting is what the last option that sets it says (`FieldAt`), or some word was not
understood and the program ends. At the end of both, the last use so far is `Max` of all
uses (`LastIsMax`). The parser is not expanded: `TakeOver` may be any function of the file
and the configuration.

**Core_proofs.** *StateMachine*: `MachineInv` says that the mutex is held exactly by the thread
inside `process` (`MutexHeld`), that thread's call goes along a transition that was set up
(`CallOnTrack`), and the machine is inside its state but for the stretch between exit and
enter (`InsideOnTrack`). From it `CallbacksBalanced` (`EnterExitBalanced`) and, step by step,
`ProcessIsAtomic` (`ImplementsAtomicMachine`). *Timer*: `TimerInv` says that the two history variables are what the timer
itself keeps; `LastWord` (`CallbackHasLastWord`), `NeverFiresEarly` (`FiresNotEarly`).
*TaskScheduler*: `SchedulerInv` has the tasks in the order of their ids with time stamps not ahead
of the clock, the tasks the tick has passed not due any more (`PassedAreNotDue`: kept because the
tick holds the mutex while it walks along the list), and, with one thread only, no time
stamp ahead of the tick's clock reading (`NothingFromTheFuture`: an unsigned difference would
wrap). A wrapped difference is at most the real one, so a run of a task moves its time stamp on by
its interval or more; with `ClaimedBeforeLast` (what its runs add up to is behind its
time stamp) that gives `NoTaskRunsTooOften` (`NeverTooOften`). `RunsBehindLast` (a task really ran
at its time stamp or later) gives `TickLeavesNothingDue` (`NothingDueAfterTick`), for any
threads and with the wrap. *EventBus*: `BusInv` says that each event's list is the ascending list of
its subscribers, and that each call's copy is the ascending list of those there were
when it began, called so far in that order (`OnCourse`); `PublishCallsItsRound`
(`PublishIsOneRound`).

**Network_proofs.** *TcpClient*: `SocketIsFd` (the one open socket is `fd_`'s, and it blocks
except while connecting) and `WholeWhileAlive` (a cut message is the one being
sent, or the connection is gone) give `ClientLeaksNothing` (`NoSocketLeak`) and
`PeerGetsWholeMessages` (`OnlyLastCut`). *SensorClock*: the real silence is the difference of the two
wrapping counters, plus at most one turn (`SilenceIsShown`), so `TelemetryIsInTime`
(`TelemetryKeepsComing`) for every wrap; `TelemetryIsRead` (`TelemetryReadable`) from
`TelemetryLayout`. *PatrolService*: `ScriptInv` bounds the time spent by the `Longest` time to
the place the script has reached; `WindowInv` bounds the starts in systemd's window by its age
over `RestartSec`. `ServiceIsNeverGivenUp` (`NeverGivenUp`).

**Only model-checked**: the liveness properties (`StopLeadsToExit`, `GoneClientReleased`,
`CameraLossDropsClient`, `ProgramOfServiceComesBack`), because temporal properties under
fairness are outside the prover's reach here; and what the JSON parser makes of a
file (`SectionsWhole`, `SavedIsLoaded`, `SetsWhatItNames`). The first and the last of these are about
every prefix of a text and about texts written by hand, so they would need the whole
grammar as an induction over the data. Every invariant that a passing run checks is a theorem.

## 5. Not modelled

- `MissionManager`, `PatrolController`, `RobotController`: skeletons that nothing calls.
  Each operation sets a status, logs and calls back; scheduling the missions and moving
  the robot are TODOs, and no document or test says what the statuses promise, so a
  model would have nothing to be compared with.
- `Logger`, `TimeUtil`, `version.h`: output only; nothing reads it back.
  `FileUtil::writeFile` has no caller.
- `kernel-modules/`: vendored kernel code. `scripts/build.sh`, CMake files,
  `install.sh`: linear build and copy scripts. `start.sh` and `health_check.sh`: a bounded wait
  for the camera's device node, and a report; neither changes what follows.
- `link_test.cpp`: a linear sender built from the same TcpServer calls.
- `healthCheck` of `Application`: logging only.
- What a command line means on which a value reads like `-c` or `-V` to the first pass of
  `main`, which does not know which options take a value: the model runs it as the code does,
  `StartsAsTold` leaves it out (`Misread`). A string with a quote in a configuration that is saved, which `save` does not
  escape.
- `buildFrame` of the serial protocol with a null pointer and a length above 0, for which it makes a LEN with no payload
  behind it (`Protocol.h:66`): no caller can have a reason to do so.
- Callbacks that wait for themselves: a guard or callback of a `StateMachine` that calls its
  machine, a task that calls its `TaskScheduler`, would lock a mutex its thread has;
  nothing in the repository does. `Timer::setCallback` from the timer's own callback.

## 6. Plan

The models cover what the code does today, and every invariant of a passing run is proved. What
is left to prove is `SavedIsLoaded`, for all configurations whose strings need no escapes: the
text of `save` has a fixed shape, so the parser can be followed along it, once it is shown
that its recursive function exists.
