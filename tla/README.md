# BoardGhost in TLA+

BoardGhost builds an Arduino/ESP32 sketch for the desktop and runs it there: the
sketch is compiled against a runtime that replaces the board (display, touch,
audio, serial ports, Wi-Fi, HTTP, WebSocket, MQTT, mDNS, OTA, files, EEPROM), a
command line tool `boardghost` builds and runs it, and a desktop launcher drives
the tool. This directory holds models of the parts of it in which several actors
meet or long sequences of calls matter, the TLC runs that check them, and proofs
that TLAPS checks.

Read it with the repository at hand: every definition that stands for code has an
entry in `PROJECT.json` under `map`, with the file, the lines and the symbol it
translates.

## 1. Inventory

### Processes and threads

| actor | where | what it does |
|---|---|---|
| launcher page | `ProjectDetail.svelte` | buttons Run, Stop, Screenshot; one flag `running` |
| launcher commands | `commands.rs`, `runner.rs`, `state.rs` | async tasks that share a Child slot and a process id |
| CLI | `main.rs`, `build.rs`, `run.rs`, `ota.rs` | build pipeline, run with optional screenshot thread, `uart inject`, `ota push` |
| sketch main thread | `sim_main.cpp`, `sim_runtime.cpp` | `setup()`, `loop()`, event pump, shutdown |
| screenshot watcher | `sim_runtime.cpp` 70-100 | detached thread, served by SIGUSR1 |
| SDL audio callback | `sim_audio.cpp` | real-time producer of samples |
| devtools and mirror server threads and their pools | `sim_devtools.cpp`, `sim_mirror.cpp` | HTTP pages, MJPEG and PCM streams, injected taps and scans |
| async web server thread and its pool | `sim_asyncwebserver.cpp` | the sketch's own pages, one pool thread per event stream |
| synchronous web server thread and its pool | `sim_webserver.cpp` | the sketch's `WebServer` |
| WebSocket reader | `sim_websockets.cpp` | blocks in the library's `read()` |
| FreeRTOS tasks | `shims/freertos/task.h` | detached threads of the sketch |
| advertising children | `sim_mdns.cpp`, `sim_mirror_mdns.cpp` | `avahi-publish` processes |

### Components

| component | state | operations | what makes it correct | module |
|---|---|---|---|---|
| audio sample ring | slots, two atomic indices | push, drain, size | a bounded FIFO without locks | `SpscRing`, `BoundedQueue` |
| LEDC tones | channel, device, marks of the attempt to open it | attach, set, open, callback | what was set last is what is played | `Tone` |
| UART port with scanner | FIFO, receive buffer, staged scan, armed flag, write history, queue file | open, available, read, write, stage, inject | ACK before scan, one ACK per trigger, each scan once | `UartPort` |
| touch panel | one pending tap, two scripts, calibration, rotation, mouse | post, read | a tap is one click where it was aimed | `Touch` |
| Wi-Fi and sockets, TLS | mode, scan rows, descriptors, sessions | begin, scan, connect, copy, stop | a session never outlives its socket | `NetClient` |
| HTTP client | URL, headers, body, status | begin, addHeader, request, stream, end | an answer is that of the last request | `HttpClient` |
| file system | FILEs and iterators a File owns, paths | open, openNextFile, move, close, mkdir, remove | one owner each; right names | `Files` |
| event source | registry of clients, a queue and a condition variable each, shutdown flag | begin, send, end, connect, disconnect | no lost wake-up, order, the latest frame arrives, `end()` returns | `EventSource` |
| web servers, both classes | routes, request and reply under way, mutex, thread-local flag | begin, handle, send, onNotFound, stop | a reply is its own request's | `WebRequests` |
| devtools and mirror life cycle | server object, thread, flag; panel | start, lazy start, stop, shutdown | idempotent, no use after close, exit ends | `HttpSurfaces` |
| WebSocket client | connection, event queue, two flags | connect, close, poll, reader | the reader never outlives its socket; order; every end reported | `WsBridge` |
| MQTT client over TCP | session state, keepalive, partial packets, socket | connect, disconnect, publish, subscribe, loop | no false connection; messages in order and once; calls return; a lost broker is noticed | `MqttSession` |
| run and screenshot | CLI flags, sketch life cycle, signals, PNG | wait, settle, signal, capture, grace, reap | no request lost; the run ends | `SketchRun` |
| launcher | page flag, Child slot, pid, CLI and sketch processes | run, stop, screenshot | the records agree; one CLI; stop stops | `Launcher` |
| mDNS | list of children, mirror's child | begin, addService, end, mirror's start and stop | signals only its own; nothing outlives the sketch | `Mdns` |
| Update | session, file, digest | begin, write, writeStream, end, abort, setMD5 | a true `end()` is a verified file | `UpdateSession` |
| OTA push and receiver | datagrams, challenge, TCP connection | push; handle | an accepted push is installed, nothing partial is left | `OtaPush` |
| EEPROM and seed | memory images, live file, seed file | begin, write, commit, end, save, restore, launch | what was committed survives | `Eeprom`, `Project` |
| build pipeline, codemod, mirrors, library resolution | source files, mirror, mounts, executable | the stages of `run_build` | the executable and the mounts are those of the current sketch; the sketch directory is left alone | `SketchBuild`, `Project` |
| shims, displays, logging, pins, launcher projects, CLI front end | thin wrappers | — | — | section 6 |

### How they interact

* launcher → CLI: spawn, SIGTERM to the CLI, SIGUSR1 to the CLI (commands.rs).
* CLI → sketch: spawn, SIGUSR1 and SIGTERM (run.rs); the queue file and the FIFO
  (main.rs 90-172); UDP and TCP for OTA (ota.rs).
* browser → mirror/devtools: HTTP; their handlers touch the panel, the audio ring,
  the touch slot and the queue file from pool threads.
* browser → sketch: HTTP to the two server classes; handlers run on pool threads
  beside `loop()`, and may stop the server or restart the board.
* sketch → runtime: plain calls from `loop()`, and from detached tasks.
* runtime → sketch: callbacks, in `poll()`, `handle()`, and on HTTP pool threads.
* sketch → publishers: fork, SIGTERM, waitpid; death signal the other way round.

### What is hard in it

Lock-free sharing with a real-time thread; condition variables with a shutdown flag;
threads that block in a library and must be joined; a process tree in which a signal
reaches the wrong process, or the right one too early; files that two processes write
without a lock; datagrams; sessions bound to descriptor numbers that are reused; state
kept in members or thread-locals that another request sees; hand-written moves; sessions
that survive a failed call; caches of earlier builds; files replaced in two steps by
processes that are killed. The list with the source line of each is `hazards` in
`PROJECT.json`.

## 2. Modules

A step of every model is what an actor does between two points where another actor can
observe or disturb it: an atomic access, taking or leaving a mutex, a wait, an await, a
system call. Payloads are numbers or model values.

### SpscRing, BoundedQueue (`spsc_ring.h`, `sim_audio.cpp`, `sim_mirror.cpp`)

One producer (`push()` called by the audio callback) and a set of consumers (`drain()` by
streaming requests; the run has one, see section 3). `w`, `r`, `buf` are the members;
`ppc`/`cpc` say between which two accesses a thread is, and `cr`, `cw`, `cmax`, `dst` are
the locals of `drain()`. The relaxed load of an index by its only writer needs no step.
`accepted`, `out` and `dropped` are history. The C++ memory order is not modelled beyond
what acquire/release guarantee here (an index read implies the slots written before it);
`NoSlotRace` is the property that makes this reading sound for the plain slots.

`BoundedQueue` is the contract in the header of `spsc_ring.h`: a FIFO of at most `Limit`
samples that drops the new one exactly when it is full. The ring implements it with
`q <- Contents`, the slots from `r` to `w`, and `Limit <- Cap - 1`.

### Tone (`sim_audio.cpp`)

One LEDC channel. Threads of the sketch queue the settings of their call (`ledcSetup()` is
two locked ones) and carry them out one by one; the first that asks marks the attempt,
opens the device with the mutex released, and leaves the outcome. The callback copies the
channel, mixes, and writes the phase back. `asked` is history: what was set last.

### UartPort (`sim_uart.cpp`, `sim_devtools.cpp` 455-486, `main.rs` 90-172)

One port with the GM861S behind it. A command frame is three tokens, so that a frame can
be cut over two `write()` calls and the history trimmed inside it; an acknowledgement and
a scan are one unit each. `write()` is four steps (match, read of the queue file,
truncation, return) because the queue file is shared with processes that do not take the
port's mutex; every other method is one step. Injectors truncate and write in two steps.
`TriggersIn` is the reference definition for the matching: how many trigger frames the
whole stream holds, read at once.

### Touch (`sim_touch_inject.cpp`, `Panel_sdl_bg.hpp`, `Touch_sdl.hpp`)

What `lcd.getTouch()` returns. Time is in ticks of 40 ms and wraps. The HTTP thread posts
taps; the sketch reads, and a read looks at the posted tap, then the panel's script, then
the driver's script, the corners of the automatic calibration, and the mouse, in the order
of the code. Points go through the inverse of the display's rotation, the calibration
matrix and the rotation. `Patience` is how long the sketch goes without a read.

### NetClient (`sim_wifi.cpp`, `sim_wifi_secure.cpp`, `sim_net.cpp`)

Wi-Fi status and scan rows; plain clients, which may be copies of one another and then
share a socket, and one secure client, whose TLS session `tls` keeps the number of the
descriptor it was made on. A connect fails at any of its stages. The kernel gives a new
socket the lowest free descriptor, so that numbers come back. `talk` records between which
connection's handshake and which peer a byte went.

### HttpClient (`sim_http.cpp`, `HTTPClient.h`)

One client that is used again and again, in fake, failing and real mode; libcurl delivers
a body in pieces and may fail after some of them. A body is the sequence of the requests
its pieces came from.

### Files (`sim_fs.cpp`, `FS.h`)

The sketch's File variables, what each owns (`fp` or `iter`) and reports (`path`), and the
files there are. `held` are the FILEs and iterators that exist. Values get into a variable
by construction or assignment, whose hand-written moves differ; whether the compiler moves
the local variable that a function returns is a choice made at the start (`inPlace`).
`FilesMC` has the tree of paths.

### EventSource (`sim_asyncwebserver.cpp`)

The server's life cycle and one event source: `send()` and `shutdown()` visit clients one
at a time under `clients_mutex_`, a pool thread per client waits on its condition
variable, pops a frame, writes it with the mutex released, and unregisters at the end. A
wake-up is explicit: a thread that is asleep moves only when notified.

### WebRequests (`sim_webserver.cpp`, `sim_asyncwebserver.cpp`, `sim_misc.cpp`)

Requests to either class of server, from `begin()` to `stop()`. `where` is the place of a
pool thread between two points another can see. `WebServer` keeps the request (`slot`) and
the reply (`res`) in members behind `request_mutex_` (`lock`); `AsyncWebServer` keeps them
per request, and `handled` is its thread-local flag. A route answers, denies, throws, says
nothing, stops the server or restarts the board. The library calls the error handler
before a reply of 400 or more; a reply records its status, who made it, from which request
and with which headers.

### HttpSurfaces (`sim_devtools.cpp`, `sim_mirror.cpp`, `sim_mirror_mdns.cpp`, `sim_runtime.cpp`)

`g_srv`, `g_running` and `g_thread` of the devtools server are unlocked globals, so each
access is a step of its own. Tasks and the main thread may start the server lazily by
writing UART1; ports may be taken; viewers read the panel. `fault` records what would be
`std::terminate` (overwriting or destroying a joinable thread) or the use of a destroyed
server. The library's `stop()` has no effect before the accept loop.

### WsBridge (`sim_websockets.cpp`)

The sketch thread (connect, close, poll, callbacks that connect and close) and the reader
thread over the library's client. The library is external: a `read()` that times out
closes the connection and fails; `close()` may unblock a read.

### MqttSession (`sim_mqtt.cpp`, `sim_wifi.cpp` 267-362)

The client of one sketch thread over a TCP stream. A packet is up to three units (type,
length, body) that the stream delivers when it likes, so a call may run out of its time
budget between any two. `at` is where in `connect()` or `loop()` the thread is, `caller`
which of them reads; `cut` records that the client gave a packet up half read. The broker
answers, refuses, is late, publishes or closes; `WiFiClient` is real, fake or refused. The
remaining budget of a read is computed in unsigned arithmetic, so the model has the
wrapped budget: it is spent before a read, and the next one waits for ever.

### SketchRun (`run.rs`, `sim_runtime.cpp`, `sim_main.cpp`, `sim_screenshot.cpp`)

`boardghost run --screenshot`: the CLI's main thread and screenshot thread, the sketch's
main thread and its watcher, and anyone else who sends signals. Deadlines may pass at any
moment. `stuck` is a sketch whose `loop()` never returns. `servers` says whether the threads
of the mirror and the devtools have come to their accept loops; a sketch that exits before
is "hung" in the join of its shutdown, where SDL's handler takes a SIGTERM for an event that
nobody pumps any more, and only the default action of SIGTERM, or SIGKILL, ends it.

### Launcher (`ProjectDetail.svelte`, `commands.rs`, `runner.rs`, `state.rs`)

Each command is a task; its program counter names the statement before the next await or
lock. A run is a CLI process and its sketch. A Run's last statement saves the list of recent
projects, which may fail (`unsaved`): the run is on then, and the page takes its flag back. A
CLI that was sent SIGTERM or SIGUSR1 is "dying" until the signal is delivered, for which a
suspended process may take any time; Stop waits two seconds and sends SIGKILL then.

### Mdns (`sim_mdns.cpp`, `sim_mirror_mdns.cpp`)

Processes are numbered as they are forked. `children` is the list of `sim_mdns.cpp`,
`mirror` the pid of `sim_mirror_mdns.cpp`; `kid` is how far a process is: forked, past
`prctl()`, publishing, dying, a zombie, or reaped, after which its number may be another
program's. `end()` signals all, waits for each with a time-out and forgets them. The
mirror's process is started at most once, in `sim_runtime_init()`, and stopped by the shutdown
alone, after which the destructor's `end()` and the process's end follow. The sketch may also
crash or be killed between any two steps.

### UpdateSession (`sim_update.cpp`, `Update.h`)

The members of `UpdateClass` and the file. A disk may refuse to open the file, fail to write
it or write short, fail to read it back for the digest, and fail to remove it; `fault` records
the last two. A digest is represented by the image it belongs to, so distinct images have
distinct digests. `last` records the last call and its result; `armed` that the digest
belongs to this session.

### OtaPush (`sim_ota.cpp`, `ota.rs`)

EXTENDS `UpdateSession` and adds the datagrams, the challenge, the TCP connection and the
pushers; or else a sketch that calls `Update` itself. The receiver calls `Begin`,
`SetMD5`, `Write`, `End` and `Abort` of `UpdateSession`, so a failing disk is part of every
push. Datagrams may be lost; pushers time out or die at any point. A challenge's digest is
the challenge's number and whether the password was right.

### SketchBuild (`build.rs`, `discover.rs`, `lgfx_codemod.rs`, `sketch_mirror.rs`, `spiffs_mirror.rs`, `include_scan.rs`, `lib_resolve.rs`, `preprocess.rs`, `codegen.rs`, `compile.rs`)

`disk` is a partial function from paths to contents; a path names the tree (the project,
or the mirror of a sketch directory), the directory and one of four kinds of file. `b`
holds the locals of `run_build()` and the stage it is at: one action per stage, in the
order of the code, each able to fail, or to be cut short with its files half done. The
user may change anything between two stages. arduino-cli and CMake are external: the first
returns the sketch's text, the second compiles every file it was given or fails.

### Eeprom (`sim_eeprom.cpp`, `eeprom_seed.rs`)

The live file, the seed, a memory image per running sketch. Every replacement of a file
is two steps, truncation and write, and a kill or a full disk leaves any part of the
image. `owed`, `seedOwed` and `meant` are what the files and memories should hold,
computed without looking at the files.

### Project (`main.rs`, `sim_fs.cpp`)

EXTENDS `SketchBuild` and `Eeprom`: `boardghost build` and `run`, which launches only what
it built and restores a missing EEPROM first, and sketches that write to their SPIFFS and
LittleFS mounts while later builds wipe and fill them. `Bound` is the budget of outside
events that both share.

### MC modules and sums

`SpscRingMC`, `WsBridgeMC`, `MqttSessionMC` and `ProjectMC` extend one module and give its
constants their values. `DevicesMC`, `WebServersMC` and `ProcessesMC` put several
independent components into one run as a sum: a variable `part`, chosen at the start,
says which component a behaviour is about, and the others keep their initial values. The
states add up instead of multiplying, and every invariant is about its own part. No
interaction is lost: components that share state are composed inside a module (`OtaPush`
with `UpdateSession`; `Project` with `SketchBuild` and `Eeprom`).

## 3. Runs

| run | parts and bounds | states | shows |
|---|---|---|---|
| `ring` | 4 slots, 1 consumer, 2 sample values, 5 pushes | 186k | invariant with order of delivery, no slot race, refinement of `BoundedQueue`, everything published is delivered |
| `devices` | UART: 2 injectors, 6 tokens, history of 3, 2 scans, 1 FIFO injection. Touch: 2 posted and 2 scripted taps, 8 set-ups, 9 ticks. Tone: 2 threads, 4 calls. Sockets: 2 plain clients and a secure one, 4 descriptors, 2 connections. HTTP: 3 begins, 3 requests, 2 pieces. Files: 2 variables, 5 calls | 836k | ACK before scan and one per trigger; taps are clicks where they were aimed; settings kept; sessions on their sockets; answers of their own request; one owner per FILE; a drained scan is handed over |
| `web` | Events: 2 browsers, queue of 1, 2 frames, 2 begins. Requests: 2 threads, 2 requests, 2 begins. Surfaces: 1 task, 2 viewers, 3 server objects | 363k | no lost wake-up, order, the latest frame arrives, `end()` and `stop()` return; replies do not mix; sequential use of the runtime's servers is safe and exit ends once they listen |
| `ws` | 2 connections, 2 frames | 342k | the reader owns its client, order, ends reported, `close()` returns |
| `processes` | Run: 2 foreign SIGUSR1. Launcher: 4 commands, 2 in flight, 2 runs. mDNS: 2 forks. OTA: 3 pushes, images up to 2 blocks, failing disk, or a sketch's own calls | 211k | no screenshot request lost, the run ends; one CLI at a time and records that agree, commands return whatever the CLI does with a signal; only own children are signalled and none outlives the sketch; accepted means installed and verified, what is left on disk is whole if it could be removed otherwise, `handle()` returns |
| `mqtt` | 2 connections, 2 attempts, 2 messages, 1 other packet | 454k | no false connection, messages in order, calls return, a lost broker is noticed |
| `project` | 4 events, 1 of them a change by the user; 2 sketches, images of 1 or 2 bytes, 2 libraries | 1.2M | executable and mounts are current; the sketch directory is left alone; a committed image is kept |
| `launcher_stop` | 2 commands, one at a time, 2 runs | violation | Stop leaves the sketch alive |
| `surfaces_exit` | no task or viewer, 2 server objects | violation | an early exit hangs |
| `restart` | 2 threads, 2 requests, 1 begin | violation | `ESP.restart()` in a handler hangs |
| `mdns_end` | 2 forks | violation | `end()` right after a service does not withdraw it |
| `file_paths` | 2 variables, 5 calls | violation | `path()` of a listed entry is not one the sketch can open |

States are distinct states found by TLC. Each violation run checks one sentence of the
repository, quoted with its place under `findings`.

Several conjuncts make up one invariant, because they are about one component:
`AckPrecedesScan`, `AckAndScanApart` and `ScanNotReplayed` in `UartInv`;
`NobodySleepsOnWork` and `FramesInOrder` in `EventSourceInv`; `ReaderOwnsClient` and
`StreamInOrder` in `WsInv`; `RequestKept` in `RunInv`; `OneRunInSlot` and `RecordsAgree` in
`LauncherInv`;
`LeftFileComplete` and `OnlyKnownPeers` in `OtaInv`; `SequentialUseIsSafe` and
`HandlersGoneBeforePanel` in `SurfacesInv`; `MessagesInOrder` and `ConnectedIsAccepted` in
`MqttInv`; `OneOwner` and `NamesRight` in `FilesInv`; `PostedTapsAreClicks` and
`ScriptedTapsRead` in `TapsAreClicks`.

### Why the bounds are enough

* The ring has 4 slots, so that it is full, empty and wrapped around within few pushes;
  batches of 1 leave a rest behind, batches of 3 take all there is.
* 6 tokens are two whole triggers, or a trigger with a cut one; a history of one frame is
  trimmed at every step at which the real one of 32 bytes could be.
* Two taps meet in every way (in one window, at its edge, apart, either beside a scripted
  one); one set-up starts six ticks before the clock wraps, so that a tap's window
  ends just before it or across it, and every rotation is in one.
* Two threads and a callback contain every overlap of an open, a setting and a write-back.
* Four descriptors are one more than there are clients, so a failed connect can give one
  back to another client; two connections are the least at which a stale session can
  reach the wrong peer.
* Three requests: one that leaves a body, one that fails half way, one that must show
  neither. Two Files and a directory within a directory contain each move (constructed,
  assigned over an open one, onto itself by way of the other).
* A queue of one frame overflows with the second; two browsers are the smallest number at
  which one is served while the other is slow; two begins are a restart. Two pool threads
  are the smallest number whose requests can mix, and one of them serves two requests in a
  row.
* Two connections and two frames: a frame and an end of the old connection can meet the
  opening of the new one.
* Two runs, and two commands in flight at a time out of four, contain every pair of
  commands that overlap, before and after a completed run. Two forks are a renewed
  service, or a service and the mirror's.
* Two MQTT connections are a retry on the socket of an attempt that timed out; two
  messages and one other packet can be out of order and out of step.
* One change between two builds is what can leave something stale behind; with two
  launches of sketches, a commit and a begin it takes four events to lose an image. A
  second change (3.9M states) shows nothing new. The EEPROM's steps are taken outside the
  stages of a build, with which they commute.
* Three pushes: one in transfer, one waiting for its challenge, one whose invite is stale.
  Images of two blocks can be cut in the middle.

Where a theorem of section 4 states the property, the bounds do not matter for it.

### Fairness

Every fair specification asks only for what the code or the system schedules, and almost
always for weak fairness; requests, calls and signals are bounded, so a mutex that others
take and leave comes free for good.

* ring: a streaming client drains every 20 ms (sim_mirror.cpp 327-335), strongly fair
  because its thread does other things in between; the audio callback owes nothing.
* UART: the sketch keeps polling, and a `write()` that began returns. The other devices
  have safety properties only.
* event source, requests, surfaces: every thread that can run runs, and a `send()`,
  `stop()` or shutdown that was called goes on. What the sketch chooses (to call, to end,
  to connect) is not fair. In the sum, the start of the surfaces is enabled at once, so
  its fairness has the guard `part = "surfaces"`.
* WebSocket: the library's time-outs expire; strong fairness of the two steps that wait
  for a mutex.
* run: threads run, deadlines pass; a main loop that sees `g_should_quit` ends, and so does
  the shutdown of a sketch whose servers accept. One that hangs never goes on by itself.
* launcher: the async runtime polls every task, and its two seconds end. No process is
  obliged to end by itself, or to take a signal other than SIGKILL.
* mDNS: a forked process goes on, and avahi ends on a SIGTERM; the joins of a shutdown return
  (`surfaces_exit` is about those that do not).
* OTA: `loop()` calls `handle()`, and every wait has a time-out.
* MQTT: the sketch keeps calling `loop()`, callbacks return, what is on the wire arrives
  (or its time budget ends); the broker owes nothing.

Deadlock is not checked: every one of these systems may stop. A sketch ends, and the bound
on pushes, commands, messages or events is used up.

### Preconditions in properties

Some properties exclude a situation in which the code does not keep them; each is
behaviour of the code that the model has:

* `AckAndScanApart`: without a second trigger or FIFO traffic between the trigger and the
  release. With it, one read can return both (sim_uart.cpp 210-224).
* `TapsAreClicks`: for a posted tap alone in its window and a clock that does not wrap
  before the first read after it. A second tap within 120 ms replaces the first without
  a release; a wrap within the window loses the tap, and one between the window and that
  read presses it again, until the clock has come round to `expiry_ms` (49 days); a
  posted tap hides a scripted one. The sketch reads often enough (`Patience`).
* `ReadsWhereAimed`: not for `BOARDGHOST_SIM_TOUCHES`, whose taps the driver passes on raw,
  unlike the panel's.
* `SessionIsItsSockets`: the sketch calls `stop()` before it connects again. A second
  `connect()` that fails keeps the old session beside a new or closed socket.
* `ReplyIsOwn`: a route of the synchronous server that answers 404 itself is overruled by
  the sketch's `onNotFound`.
* `StopReturnsWhenListening`, `StopServerReturns`, `ExitEndsOnceListening`: the server has
  reached its accept loop, and nobody stops it from a handler of its own. `surfaces_exit`
  and `restart` show the hangs otherwise; `AsyncWebServer::end()` right after `begin()` has
  the first one as well.
* `OneRunInSlot`, `RecordsAgree`: the user waits for a command before the next. Overlapping
  Stop and Run can leave two CLIs alive, though the design document says one at a time.
  `RecordsAgree` names what `build_and_run` does not keep: a run whose command failed to save
  (commands.rs 125) lives in the Child slot while the page shows nothing running, until the
  next Run kills it; if that Run then fails to spawn, its process id stays.
* `RunReturns`: `loop()` returns, and the sketch does not exit before its servers accept. After
  such an exit `surfaces_exit`'s join never returns; SDL's handler swallows the SIGTERM of the
  screenshot thread, and `child.wait()` (run.rs 124) waits for good.
* `LeftFileComplete`: `handle()` does not `abort()` after an `end(true)` that failed
  (sim_ota.cpp 246-250), so where the file could not be read back for its digest the whole
  image of the rejected push stays; part of one stays only where it could not be removed.
* `TrueEndVerified`: the digest is that of what could be read back. `md5_hex()` takes a read
  error for the end of the file (sim_update.cpp 67-70), so a file with another digest can pass
  if its beginning has the right one.
* `SequentialUseIsSafe`: `start_server()` is not run by two threads at once, nor after the
  shutdown. Two UART1 writers race on the unlocked globals and can reach
  `std::terminate`; a write after the shutdown restarts the server and the static
  destructors then meet a joinable thread.
* `AdvertDiesWithSketch`: orphans go to init, and the process was not between `prctl()`
  and `execvp()`.
* `RingInv` and the refinement: one streaming client. `drain()` has no lock (sim_audio.cpp
  188), and two audio streams receive samples twice.
* `CallsReturn`: not with a budget that wrapped around (49 days) on a stream that is dead
  or out of step. `MessagesInOrder` and `ConnectedIsAccepted`: no packet was given up half
  read.
* `ImageIsOwed`: no two processes at work on the same file at once, and no sketch that
  commits, or user who restores, between the look of a launch for the live file and its
  copy of the seed (eeprom_seed.rs 57-68). A kill, or a full disk, between the truncation of
  a file and the end of its write ends the promise for that image.
* `BinaryIsCurrent`: nobody changed the inputs while the build ran, one build at a time;
  for the mounts, the sketch has a `data/` directory.

### Disagreements between code and its documents

Five have a violation run, see above. Seen as well, without a run of their own:

* `size()` "may race the producer by one item" (spsc_ring.h 49): by any number of pushes
  between its two loads.
* the queue file is emptied after it is read, "so the next trigger doesn't replay the same
  scan" (sim_uart.cpp 244): a scan staged between read and truncation is lost.
* a read that times out is meant to loop (sim_websockets.cpp 155-160), but the library has
  closed the connection by then, and an idle peer ends the connection.
* `ledcSetup()` sets frequency and duty in two locked calls, between which the callback may
  mix, though the snapshot is there so that it "doesn't see a torn update from the sketch
  thread changing freq + duty at once" (sim_audio.cpp 63-64).
* scripted taps interfere with the automatic calibration (Touch_sdl.hpp 80-82 says so of
  the driver's script), and the panel's script is not held back during it.
* `connect("")` of the secure client in real mode returns 0 and leaves `connected()` true.
* `BSSIDstr()` is to be "stable-but-unique" per index (sim_wifi.cpp 222) and is a constant;
  the mode is said to be cached on the first call (sim_net.h 12-13) and is read anew at
  every call.
* an HTTP body with zero bytes is truncated at the first.
* a directory's `File` that was moved from still converts to true; a file that cannot be
  opened ends a `while (file)` walk early; `available()` can be negative after a seek
  beyond the end.
* `write()`: "mismatch trips hasError()" (Update.h 17): a short write does not.
* `abort()` "closes and unlinks the partial file" (Update.h 19): also the complete one,
  after a successful `end()`.
* a `Run` that cannot save the recent projects reports an error and the page shows nothing
  running, with the run on.
* `commit()` returns true when only `fclose()` met the full disk (sim_eeprom.cpp 61-65).
* the id guard in `run.rs` 69-71: the child may be reaped between the look at the flag and
  the signal.
* `loop()` of the MQTT client is "essentially non-blocking" (sim_mqtt.cpp 175-177): the
  budget left for the rest of a packet is an unsigned difference (230-257) and may wrap.
  It handles "complete" packets (171), but consumes the head of an incomplete one.
* an EEPROM file cut short by a kill is an existing one for the launch, and is not
  repaired from the seed; an automatic restore "never overwrites an existing live EEPROM"
  (eeprom_seed.rs 52-56): one created after the check, it does.
* wiping the mounts "keeps repeated builds deterministic" (spiffs_mirror.rs 33): when the
  whole `data/` directory goes, the old mounts stay.
* `discover()` prefers `src/main.cpp`, which the collection of sibling sources would hand
  to CMake beside its preprocessed copy.
* the launcher's Screenshot signals the CLI, which has no handler for SIGUSR1 and dies.

## 4. Proofs

TLC's instances are small; the theorems hold for every value of the constants, under the
`ASSUME` of the module they are about. Each part of the eight proof modules defines a
strengthening of its property, proves that it holds at first, that every action keeps it
(one lemma or step per action), and that it implies the property. TLC found every
strengthening to be an invariant of the run's instance before it was proved (of what
`Acknowledged` says of every continuation, those of up to two tokens).
`Devices_proofs`, `WebServers_proofs` and `Processes_proofs` have a part for each component
of the MC module of that name; a theorem is about that component's own specification.

| module | theorem | what makes the invariant inductive |
|---|---|---|
| `SpscRing_proofs` | `RingTypes`, `RingInvariant` (`RingInv`), `Delivery`, `RaceFreedom` (`NoSlotRace`), `SizeBound`, `RingImplementsQueue` (`RingIsBoundedQueue`) | order of delivery says nothing of the slots delivered next: `WaitingSamples` (the slots from `r` to `w` hold exactly what was published and not delivered), `PendingPush`, `PendingDrain`; `DistBounds`, `DistSplit`, `DistInjective`, `DistThrough` are the arithmetic of wrapped indices. The step simulation needs one fact more, `Shown`: the slots from `r` to `w`, read as a queue, are what the history leaves over. All but `RingTypes` for one consumer |
| `Devices_proofs`, Tone | `ToneSettingsKept` (`SettingsKept`) | at most one thread is ever between the mark of the attempt and the outcome (`OneOpener`), and the callback writes back the phase alone (`KeepsAsked`) |
| NetClient | `NetSessionIsItsSockets` (`SessionIsItsSockets`) | a descriptor is in use exactly as long as a client has it (`InUse`), so a new socket's is nobody's; there is a lowest free one because there are more descriptors than clients |
| Files | `FilesAreOwned` (`FilesInv`) | the types of a File's members, a pointer for every call that is left (fewer are held than calls were made), and `name()` for every File, also under way through a returned local |
| UartPort | `UartInvariant` (`UartInv`), `AcknowledgesStream` (`AcksFollowStream`) | every acknowledgement is heard at once, so that a scan drained now comes after all of them (`AckOrder`); a scan is with one injector, in the queue or held, and in two places only between the two steps of the drain (`ScanPlaces`); after one trigger the port goes from `Acked` to `Cooling`, `Armed` and `Released`, and an empty poll has to come between (`Apart`). For the matching: the history is a window of the stream, and whatever the sketch writes next, what that stream holds before the window has been acknowledged (`Acknowledged`); what is trimmed off the window starts no frame. That the recursive `TriggersFrom` has the value of its equation is shown by induction from the end of the stream (`FromTheEnd`, `EquationSolved`) |
| Touch | `TouchReadsWhereAimed` (`ReadsWhereAimed`), `TouchTapsAreClicks` (`TapsAreClicks`) | `inverse_rotate` undoes the driver's rotation, of eight kinds (`RoundTrip`). For the clicks: the last tap is still live or was clicked, by whether a read has come since (`PostedInv`); the script's index follows the time of the last read (`ScriptInv`); and arithmetic of a clock modulo `Wrap`. The second theorem is for a sketch that reads within each window (`ReadsOften`) and a script whose windows do not overlap (`Spaced`) |
| HttpClient | `HttpAnswersAreOwn` (`AnswersAreOwn`) | without a URL there is no body, and `connected()` has said yes no more often than it was set (`HttpLooks`) |
| `WebServers_proofs`, EventSource | `EventSourceInvariant` (`EventSourceInv`) | the frames of a client are ordered pairwise over delivered, in hand and queued, and bounded by what the loop of `send()` has already given that client (`Limit`), so that those which a full queue drops may be any (`EnqueueInOrder`); whoever waits is registered (`Registered`), and who is not yet has nothing (`Fresh`) |
| WebRequests | `WebReplyIsOwn` (`ReplyIsOwn`) | place by place, what a thread has of its reply (`Own`), and that the members of the synchronous server are those of the thread behind `request_mutex_` (`Behind`) |
| HttpSurfaces | `SurfacesInvariant` (`SurfacesInv`) | without a race, for each line of `start_server()` and each stage of the shutdown, which of `g_srv`, `g_running`, `g_thread` and the servers there are (`InTurn`); viewers only while the mirror may serve (`Mirrored`) |
| `Processes_proofs`, Mdns | `MdnsKillsOnlyOwn` (`KillsOnlyOwn`) | what a call has still to signal (`Targets`) has not been reaped (`CallsOwn`), nor what it leaves alone, and the two are disjoint; a new process's number is nobody's (`Numbered`) |
| SketchRun | `RunInvariant` (`RunInv`) | no request is older than its handler, and no watcher (`BootUnasked`) |
| Launcher | `LauncherInvariant` (`LauncherInv`) | for the one command under way, what page, slot and id are at each of its statements, and that no CLI but the one in hand is alive (`Under`, `OnlyAlive`); between commands, that slot and id agree (`Agreed`) |
| `WsBridge_proofs` | `WsInvariant` (`WsInv`), `WsEndIsReported` (`EndIsReported`) | a frame is followed from the wire through the reader's hand into the stream of records, each later than all before it (`Numbered`), and each line of `connect()` and `close()` has its state of thread, slot and deque (`Control`). For the ends: each record of an end is tied to the flag that allows it (`Reports`) |
| `OtaPush_proofs`, UpdateSession | `UpdateInvariant` (`UpdateInv`), `TrueEnd`, `Progress`, `Failures` | `end()` is right about the size because `written` is the length of the file, and about the digest because one that is set belongs to this session (`SessionConsistent`) |
| OtaPush | `OtaInvariant` (`OtaInv`), `OtaOkMeansInstalled` (`OkMeansInstalled`), `OtaKeepsUpdateInv` (`UpdateInv`) | what the receiver has counted, what is in flight and what the pusher still holds never exceed the image, and are the image as long as nothing was lost (`Transfer`); until the next `begin()` the file is an accepted image, a rejected one that could not be read back, or what could not be removed (`Whole`); that needs a connection nothing was read from before (`Untouched`): a pusher is dialled once, because it invites once (`InvitedOnce`). The calls' lemmas of UpdateSession are used for the receiver |
| `MqttSession_proofs` | `MqttInvariant` (`MqttInv`) | until `recv_packet()` gives up inside a packet, the broker's units that are left, arrived and to come (`Stream`), start where the client stands and are whole packets (`Framed`); a message is had, skipped or among them, and later than those the callback had (`Flight`); an accepting CONNACK among them was really sent (`Told`) |
| `Project_proofs`, Eeprom | `ProjectImageIsOwed` (`ImageIsOwed`) | who commits has an image, who copies has a source, and a file that was emptied to be written anew exists (`Sources`); a launch that saw no file is alone with it (`LaunchAlone`) |
| SketchBuild | `ProjectBinaryIsCurrent` (`BinaryIsCurrent`), `ProjectInvariant` (`ProjectInv`), `ProjectSketchUntouched` (`SketchUntouched`) | stage by stage, what is in the tree it works on and in the locals of `run_build()` is what the user's files ask for (`Pipeline`: the setup that was chosen, what was copied, scanned, resolved, preprocessed, collected and mounted), and no stage changes a file a later one reads |

What the constants are assumed to satisfy is what the code or the construction of a model
gives: sets of threads and clients are finite, capacities are positive, a `None` is no
value of the type it is absent from, a connection begins with a CONNECT (`MaxAsks > 0`),
the sizes a sketch asks for with `begin()` have a largest one (`EepromAssumption`), and no
source file includes the preprocessed sketch (`BuildAssumption`).

Two proofs showed something of the model that TLC's instances had not. `TapsAreClicks` was
false where the clock wraps between the end of a window and the sketch's next read, which
its precondition now names (`InOneTurn`). `MqttSession` admitted a connection without a
CONNECT, which the code cannot make (`MaxAsks > 0`).

Every invariant that a passing run checks is the property of a theorem. Only
model-checked: the liveness properties, for which TLAPS would need ENABLED.
`PathsAreSketchs`, `EndWithdraws`, `RestartExits`, `StopKillsSketch` and `ExitEnds` are
refuted.

## 5. What could follow

1. Proofs: an abstract specification of the event source, or of the update session, that
   the module refines.
2. `SketchBuild`: what an override excludes from a library, the PlatformIO layout.
3. `HttpClient` over the sockets of `NetClient`, when libcurl is asked to reuse them.

## 6. Not modelled, and why

* Text processing (what the codemod and the templates write, HTML): its properties are
  about strings.
* Drawing, waveforms, image encoding, the thermal printer's byte log: numeric or textual
  detail of one thread.
* The pin table, the launcher's project list and settings, the CLI's argument parsing and
  board files: one actor, loaded and saved whole.
* Serial, SPI, I2C and LVGL shims: calls handed on to the C library or the log.
* The plain build without OpenSSL; a `curl_easy_init()` that fails; what is read and
  written through a FILE. A directory iterator is taken to show what was there when it was
  made.
* Time: except in `Touch`, delays and deadlines may end at any moment, so nothing is said
  of how long anything takes.
* The C++ memory model beyond acquire/release; certificates beyond "verified or not";
  avahi; SDL. The HTTP library appears only through what the code relies on: `stop()`, the
  accept loop, the error handler, blocking reads.
