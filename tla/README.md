# Verification of the Daftpunk speaker firmware

TLA+ models of the firmware in `src/main`, TLC runs on small instances and TLAPS
proofs for every instance. The firmware runs on a dual-core ESP32 under FreeRTOS:
about ten tasks, the timer daemon and two kinds of interrupts share queues,
flags and pointers, mostly without locks. That sharing is what the models are about.

The configuration modelled is that of `sdkconfig`: the audio build (no Wi-Fi), the
form-factor display, both cores in use, `CONFIG_FREERTOS_HZ=100`. Three parts are of other
builds: the TCP shell (`TcpShell`, and the commands of `Clock` and `AssetStore` that come through
it) of the Wi-Fi build, and the dev board's half of `PixelBuffer`.

## 1. The system

| Component (source) | State it keeps | Operations | Talks to |
|---|---|---|---|
| System state machine (`StateManager/`, `States/`) | current state, loop delay, one timer and one `*_timeout` flag per timed state, menu position | `on_enter`, `on_exit`, `update` of the eight states | event queue, Bluetooth session, LED, frame buffer, power manager |
| Event manager (`Events.c`) | callback table, internal queue, up to eight external queues | register, unregister, `push_event`, its task | everybody |
| Bluetooth session (`bt_audio.c`, `bt_app_core.c`) | `audio_enabled`, `active_connection`, work queue, BtAppTask, `xWorkSem` | init, deinit, dispatch, message handler | ESP-IDF stack, main task |
| A2DP/AVRCP handlers (`bt_app_av.c`) | volume, notification flag, metadata | callbacks and handlers | work queue, events, ring buffer |
| I2S ring buffer (`i2s_task.c`) | mode, ring buffer, semaphore | `write_ringbuf`, `flush_ringbuf`, I2S task | data callback, audio manager |
| Audio manager (`flash/audio_manager.c`) | request queue, done semaphore, asset table and files | play, play blocking, upload, metadata | ring buffer, TCP shell |
| FFT task (`FFT/FFT_task.c`) | sample double buffer, idle timer | data callback, block processing | events, frame buffer |
| Frame buffer, display task (`FrameBuffer.c`, `Display_task.c`) | three buffers, pointers, `update`, `triple_buffering` | draw, `buffer_update`, scan rows | states, FFT task |
| LED manager (`rgb_manager.c`) | LED state, colour | set state, set colour, animation task | states, event callbacks |
| Buttons (`Buttons.c`) | time stamps, volume timer | GPIO handlers | events |
| Power manager (`Power_Manager.c`) | sleep and wake handlers | register, sleep, wake | Bluetooth, LED, display, amplifier |
| TCP shell (`TCP_Shell/`) | receive buffer, semaphore | server and handler task, message handlers | audio manager, events |
| Fuel gauge (`drivers/MAX17048.c`) | callback lists, mutex | alert task, register access | LED |
| Board (`BoardRevision.c`, `drivers/PI4IOE5V6408.c`) | shadow registers | rail and LED enables | power manager |
| Animation, fonts, bitmaps, time helpers | frame counter | drawing, conversions | states |

What is hard about each, and what makes it correct:

* **State machine.** Timer callbacks, button interrupts, BtAppTask and the FFT
  task change what `update()` reads, while the main task may block for seconds
  in a Bluetooth start-up or teardown; its event queue of ten then overflows
  silently. Correct means: no state is a trap, no timer or event of one visit
  is taken for that of another, the chip sleeps with Bluetooth down unless its teardown failed.
* **Event manager.** One call fans out to a queue for the callbacks and to the
  external queues, with `xQueueSend` timeouts of 0. Correct: every registered
  callback sees every event that was not reported lost.
* **Bluetooth session.** The teardown runs in the main task, half of it must be
  done by BtAppTask, and every ESP-IDF call may fail. Correct: profiles go down
  before bluedroid, the wait ends, no message crosses a session, the
  connection flag follows the link.
* **A2DP/AVRCP handlers.** Volume and its notification flag are written from
  three tasks. Correct: the controller hears of the last change.
* **Ring buffer.** Two writers, a flush and the reader share a mode word and a
  binary semaphore. Correct: data that is there is played.
* **Audio manager.** Requests from several tasks, a blocking play, files that
  outlive a power loss. Correct: a blocking caller returns, the table on flash
  is one of the two versions.
* **FFT task, frame buffer.** Pointer swaps without a lock between cores.
  Correct: a block and a frame are seen whole, and the last frame is seen.
* **LED manager.** Four tasks set one LED. Correct: the LED shows what was
  asked for last.
* **Buttons.** Debounce by time stamps in two interrupt handlers. Correct: one
  press, one event.
* **Power manager.** Handlers that fail half-way. Correct: what was put to
  sleep is woken.
* **TCP shell.** A receive buffer shared by two tasks. Correct: a message is
  handled once and as it was sent.
* **Fuel gauge.** Edge-triggered alerts, a mutex. Correct: no alert is the last.

`PROJECT.json` lists the same components with what is modelled of each, and
every hazard of this kind at its line with the properties that cover it.

## 2. Plan

Modules, in the order of what they decide about the speaker; all are written:

1. `SpeakerStates` - the state machine with every context that feeds it.
2. `I2sRingbuf` - the ring buffer's modes.
3. `BtAudio` - start-up and teardown of Bluetooth with its work queue; it implements the abstract
   `BtSession`, which `SpeakerStates` uses.
4. `FrameBuffer` - triple and double buffering of the display, which implements the abstract `Mailbox`.
5. `RgbManager` - the LED.
6. `VolumeControl`, `AvrcpController` - the two directions of AVRCP.
7. `AudioRequests`, `AssetStore` - the audio manager's request queue and blocking play; uploads and
   the rewriting of the table as a crash-recovery model.
8. `TcpShell` - receive buffer, server and handler task, clients that come and go.
9. `EventManager`, which implements the abstract `Broadcast`; `SpeakerStates`' queue is one of its
   external queues.
10. `Buttons`, `FuelGauge`, `FftBuffer` - debounce and repeat, alerts, the sample double buffer.
11. `Animation` with `PairingDisplay`, `Clock`, `GaugeRegisters`, `Fft`, and `PixelBuffer`, which
    implements the abstract `Picture` - operators and small state machines against a reference
    definition.
12. `BoardPower` - power handlers, board revision, the IO expander.

Each component's root module holds its state, its actions and the parts of its properties, each
part with a comment that names the code it is about. What a run checks are their conjunctions by
subject: `NoTrap == TypeOK /\ ...` is "no state of the speaker is a trap", and so on. The type
invariant is a conjunct of the component's main safety property.

Some components share no variable with each other. Their runs are joined in one MC module
(`MCAudioPath`, `MCBluetooth`, `MCEvents`, `MCAudioManager`, `MCTcpShell`, `MCBoard`,
`MCSpectrum`): a variable `part`, chosen at the start, says which component takes the steps of a behaviour, and the
variables of the others keep their initial values. No formula relates two parts, so this says of each
exactly what a run of its own would; it is one run, not a composition. In `MCTcpShell` and `MCSpectrum`
`part` also chooses between two instances of one component. Components that do
interact are composed by the state they share being in one module: `SpeakerStates` holds what the state machine sees of
Bluetooth, FFT task, timers, buttons and event queue; `BoardPower` the power manager with the
board and the rails; `FrameBuffer` both drawing tasks and the display.

Two components that are not in one module meet in an abstract specification: `BtAudio` implements `BtSession`, and what
`SpeakerStates` does with Bluetooth is a behaviour of `BtSession` too (see `BtSession` below).

## 3. The modules

### SpeakerStates

`pc` is where the main task is: `delay` (in `vTaskDelay`), `drain` (the
`while (xQueueReceive ...)` at the head of every `update()`), `decide` (the rest
of it), or in one of the calls that block: `bt_init` (`bt_audio_init` in PAIRING's
`on_enter`), `fail_deinit`/`fail_teardown` (PAIR_FAIL's `bt_audio_deinit` before and
after the profiles are down), `sleep_sfx`, `pm_deinit`/`pm_teardown` and
`light_sleep` (SLEEP); `no_stop` is `bt_audio_deinit`'s wait for a STACK_DOWN that nobody will handle.

| Actions | Code |
|---|---|
| `BeginUpdate`, `ReceiveEvent`, `QueueEmpty`, `Return` | `app_main`'s loop, `sm_update`, the drain loops |
| `PairingUpdate`, `PairResultUpdate`, `IdleUpdate`, `MenuUpdate`, `DisplayOffUpdate`, `StreamingUpdate`, `SleepUpdate` | the `update()` of each state; `sm_change_state` with `on_exit` (`Stopped`) and `on_enter` (`Arm`, `EntryCall`) is part of the action |
| `BtInitReturns`, `StackDown`, `DeinitReturns`, `SleepSfxReturns`, `WakeUp` | the blocking calls' ends |
| `StackDownRefused`, `DeinitFails` | `bt_audio_deinit`: the work queue refuses STACK_DOWN, or is gone; a call into the stack fails and it returns early |
| `LongWait` | time goes by in the calls without a time-out (the sleep sound, `no_stop`) |
| `StateTimerFires`, `IdleTimerFires` | timer daemon: `*_timeout_func`, `idle_timer_func` |
| `BtAppTaskRuns`, `BtConnected`, `BtDisconnected` | BtAppTask: `bt_av_hdl_a2d_evt` |
| `FftReadState`, `FftPushFirstPacket`, `FftStartTimer` | `process_fft`: the state is read, acted upon and the timer restarted in three steps |
| `ButtonPress`, `PeerPlays` | interrupts and peer |

Abstractions. Time: a timer counts `fresh`, `aged`, `due`, one phase per delay of
the main loop, and may fire when due; every timer lasts 5 s or more and a loop
period at most 50 ms, so two periods always fit. Bluetooth start-up and
teardown are taken to last less than the FFT task's 10 s timer, unless they last for ever; the sleep sound may last any time. While the loop runs at
most `Burst` events arrive between two drains (in 20 to 50 ms, into ten slots);
while the main task blocks there is no such bound and the queue drops events.
`xTimerStart` and `xTimerStop` take effect at once: the daemon's queue of ten never
fills from two calls per change of state. The two volume buttons are one.
The menu's `time_idx` keeps its value when a long press leaves the menu; nobody reads it outside and `on_enter`
overwrites it, so there it counts as `SET_TIME_IDLE`.
`BT_AUDIO_CONNECTING` only changes the LED (see `RgbManager`); Wi-Fi and charger
events are pushed by nobody in this build. Which call of a teardown fails is
`BtAudio`'s subject; what a failure leaves is here: `audio_enabled` and `active_connection` as they were, the profiles and the work queue gone
(`stop_failed`). The callers are not told: the chip goes to sleep all the same, PAIRING does not start Bluetooth again, a connection that the
flags remember leads to PAIR_SUCCESS, and the next teardown waits for ever. Light sleep stops everything but the wake-up. Of the menu there
are the positions; the clock it sets is in `Clock`.

### I2sRingbuf

One unit is one write of 4 KiB, so the real sizes (8 units of buffer, 5 of
prefetch) are checked. Every read and store of the mode by the writers (`ReadMode`,
`Drop`, `Resume`, `Send`, `Overflow`, `CheckMode`, `CheckLevel`, `StartPlaying`, `Give`), by `flush_ringbuf`
and by the I2S task (`Take`, `Receive`, `WriteAndReturn`,
`ReceiveTimesOut`, `Underflow`) is an action. An item the I2S task has received
and not returned counts as used. The two writers are the A2DP data callback and
the audio manager's chunk loop, which flushes at the end. Nothing is assumed
about how fast a writer is.

### BtAudio

The main task's `bt_audio_init()` climbs four layers (controller initialised and
enabled, bluedroid initialised and enabled), starts BtAppTask and dispatches STACK_UP;
`bt_audio_deinit()` goes down again, with the early return of every failing call; BtAppTask handles messages; the
Bluetooth stack dispatches connection events. The ESP-IDF calls are external: a
call fails if its layer is not in the state it expects, and may fail besides when
`Faults`. A dispatch that waits 10 ms on a full queue is one step that succeeds or
loses the message; the NULL test of the queue and the send are one step too. `Enable` (`audio_enabled = true`)
comes after BtAppTask has begun to work: a connection may be reported before the session is enabled.

### BtSession

What Bluetooth is to the rest of the firmware: a `stage` (off, starting, on, stopping, down, stuck) with what
`bt_audio_enabled()` and `bt_audio_connected()` return and whether the stack's callbacks are registered. A start either succeeds or leaves the
session off; a stop takes the profiles down, then everything else, or fails half-way (`StopFaults`) and leaves it `stuck`, where a
new stop finds it enabled. Both sides are mapped to it:

* `BtAudio!ImplementsSession`: the position in `bt_audio_init()` or `bt_audio_deinit()` is the stage, `xWorkSem` divides `stopping`
  from `down`, and an enabled session without a work queue is stuck. `StopFaults` is `Faults`.
* `SpeakerStates!UsesSession`: `bt_init` is `starting`, the calls before and after the profiles are down `stopping` and `down`, a refused stop
  stays `stopping`, and an enabled session without profiles is `stuck`. `StopFaults` is TRUE, and `bt_audio_init()` with STACK_UP is one step.

So the few Bluetooth variables of `SpeakerStates` do nothing a session does not do, its states call `bt_audio_init()` only over a session that is
off and `bt_audio_deinit()` only over an enabled one, and the
session they are checked against is, with its failing stops, the one that `BtAudio` implements. It is a contract of safety: that a
call ends is `StatesMoveOn` on the one side and `BluetoothSettles` on the other.

### FrameBuffer

Each load or store of `rbuf`, `wbuf`, `ibuf`, `update` and `triple_buffering` is an action
of `buffer_update()` (`UpdateTake`, `StoreI`, `StoreW`, `Announce`, `StoreR`) or of
`buffer_start_of_frame()` (`StartOfFrame`, `SwapClear`, `SwapTake`, `SwapStoreI`,
`SwapStoreR`). A buffer's pixels are the number of the frame drawn in it and whether
they are that whole frame. Two tasks draw: the main task and the FFT task. The
display task copies one row per tick (`CopyRow`); `Select` is the button's callback that
switches the buffering mode. History variables: `raced` says that two tasks have been in the
pointers at once, `overrun` that a frame was begun while the other task drew, or handed over before
the previous one was shown or in the middle of the display's swap.

`Mailbox` is what the three buffers of triple buffering are for: a frame is put in, replacing the one that waits, or the newest is shown.
`ImplementsMailbox` maps the frames handed over (`HandedOver`: all but one that is still drawn or not stored), the one in `rbuf`, and
whether one is on its way, announced or taken by the display (`OnItsWay`). `StoreI` is the point at which a frame is put in, `SwapStoreR` that at which one is shown;
every other step changes nothing. `intact` says that no press has touched the mode and `raced` is false; the mailbox promises nothing
of the step that breaks it, nor ever after. The promises are `NothingLost` and `NeverGoesBack`.

### RgbManager

`set_rgb_led()` stores the three components, sets the pixel and refreshes the strip, one
action each, in the main task and in the RGB task; the LED's state is a plain store by
the main task, the event manager's task (`DisconnectedTest`, `DisconnectedSet`) and the
fuel gauge's (`LowBattery`). `ManualCalls` lists the calls of the system states. `raced`
records that both tasks were inside `set_rgb_led()` since the last manual colour was begun. `ShutDown` is a teardown, which may leave Bluetooth enabled.

### EventManager, implementing Broadcast

`push_event()` takes no lock: `PushInternal` sends to the manager's queue, `PushExternal` is one
round of the loop over the external queues, up to the counter as it is at that moment, and
`PushReturn` its end. `get_event_queue_handle()` is `CreateQueue` (the test of the counter, before the mutex), `OwnerTake` or
`OwnerTimeout` (100 ms), `StoreQueue` and `CountQueue`; the functions on the callback table are
`ClientTake` and one step with the mutex held; the manager's task is `ManagerReceive`,
`ManagerTake` (it waits with `portMAX_DELAY`) and `ManagerReturn`, the callback running with the mutex held. Each
producer pushes an event of its own, so that a callback belongs to a producer.

`Broadcast` has no table, counter or mutex: an event is owed to everyone who has subscribed, and
is offered once to each. `ImplementsBroadcast` maps `owed` to the part of the array that the loop
still has in front of it.

### VolumeControl and AvrcpController

`VolumeControl`: a press is `PressRead` (the callback in the event manager's task computes the next volume), `PressStore`,
`PressTest` (of `s_volume_notify`), `PressReadAgain` (`rn_param.volume = s_volume`), `PressSend`,
`PressClear`; BtAppTask sets the volume (`SetByController`) or registers (`RegisterEvent`: flag, volume, interim
response, three steps). Only single loads and stores are atomic: the lock covers one store. The controller's commands come
through the work queue (`Dispatch`), which drops them when the other profiles' events leave no room (`dropped`: the last one was; a registration that was is
`unheard`), and `ShutDown` deletes it at the end of a session. The controller and the
link are external; responses stay in order and are lost with the connection only. `hasty` marks
a controller that sets the volume while its own interim response is on its way: it
cannot tell which of the two is newer. `MaxRsp` bounds the responses on their way as a
button is pressed.

`AvrcpController`: the stack's callback dispatches each event to the work queue, or loses it; BtAppTask
handles them (`HandleUp`, `HandleCaps`, `HandleChange`, ...) and sends its commands one by one. A
notification is good for one change and the handler registers again. The connection may be lost
and made again while events of the old one are still queued. `ShutDown` is the end of a session: BtAppTask goes in the middle of a handler, the queue with what is in it
and the texts those events point to. One attribute text stands for
the four of a metadata response; `MaxTexts` bounds those in memory.

### AudioRequests

A blocking call is `CallBlocking` (the semaphore is created), `Send` (a timeout of 0, `ret` is kept in
`accepted`), and `Take` or, for callers with a limited time, `Timeout`; calls without a semaphore are `Queue`.
`audio_manager_task()` is `Receive`, `PlayLocal` (the file opens or not), `ChunksWritten` (the end of the chunk loop, which retries
without limit while the ring buffer takes nothing) and `Give`. The task does not exist when the table did not load; the
queue does, and an upload may still activate a slot (`Activate`). Calls are numbered to tell them apart. What playing does is in `I2sRingbuf`,
whose `ringbuf_stall` shows that the loop may last; so nothing is assumed of its end.

### AssetStore

An upload is `AudioStart` or `NvmStart`, `Chunk`s and `EndUpload` (`load_nvm_end` closes, `EndReopen` opens to read back,
`EndRecord` enters the file in the table, `EndReset`), with the table's in-place rewrite
`TableOpen`, `TableWrite` (header, table, footer), `TableClose`; `Mount`, `LoadTable`, `CreateTable`, `BootReread` are
`audio_manager_init`; `EraseChip`, `ClientAborts` and `PowerLoss` may come between any two steps.

The FAT file system is external: what a loss of power leaves of an open file is any prefix of what was written,
with any part of that prefix not yet programmed, or what was there before; during a write it
may also leave a volume that does not mount, which the code formats. Sizes count chunks;
`bytes_remaining` and `payload_size` are only logged. `Audio0` is the file of raw uploads, a name
of more than 31 characters is stored cut.

### TcpShell

The server task is `SrvAccept`, `SrvRecv` (into `rx_buffer`, giving the binary semaphore if the message is valid), `SrvNack` and
`SrvHangup`; the handler task `HndTake`, `HndDispatch` (reads the id, resets `payload_size`), `HndRun` (reads
the payload, one of the replies its handler may give), `HndSend`, which uses whatever `sock_handle` is then. `SrvNackFails` and `HndSendFails`
are the sends on a dead socket. `Replies` has the possible answers of all 26 handlers; the effects on files, audio and
clock are other modules'.

The client is `Scripts/socket_test.py`: it sends a request and waits for the reply, and may leave while it waits
and connect again (`CanHurry`), expect no reply (`CanForgo`), or have a message arrive in two
segments (`CanSplit`). `Patient` says that the shell was
quiet when it accepted the connection (`clean`) and that every message on it came whole and expects a reply
(`strict`); the properties of the replies are about such clients, as nothing in the protocol ties
a reply to its request otherwise. The instance `any` may do everything, `known` uses ids the firmware has and expects a reply to each. Its requests are answered
unless the server is in a NACK to a connection that was reset, which never ends (`NackForEver`); it takes a stale reply, two requests in one `recv` and a
third connection to get there, and a NACK is only ever sent on a connection accepted before the shell was quiet (`RefusedAfterHurry`).

### Buttons

Any edge raises the pin's interrupt, and the handler (`Isr`) reads the pin when it runs, so that two edges before it are
one; the volume handler and the pair handler are its two cases. The timer task takes commands (`TakeCommand`),
lets the one-shot timer expire (`Expire`: the callback reads the pin and pushes) and restarts it (`Restart`, behind the commands already
queued, or dropped when its queue is full). Time stamps wrap at `Width`; no button is held for that long.
`given` and `longs` count the events of the last press; one that an earlier press's timer pushes is not counted for it. In `Next` edges and ticks may
overtake interrupts and the timer task; in `PromptNext` these run before the next edge of their pin and before the clock goes on.

### FftBuffer and Fft

`FftBuffer`: `Sample` is one sample of `read_data_stream()`, `Swap` the exchange of the halves at the end of a frame, `Give` the
binary semaphore; `Take`, `BeginCopy` (reads `fft_read`), `Copy` and `Execute` are the FFT task. A sample is the number of its
frame. `Lag` is how many samples may arrive during one copy, at most two frames of them: 4096 samples take 93 ms and
the copy microseconds. What the FFT gets is then one frame but for a prefix, shorter than the samples that arrived, of
the next but one.

`Fft`: both transforms, forward and backward, with the unrolled base cases of 8 and 4, the shared table of twiddle factors
with its strides, and the packing of the real spectrum. The algorithm uses only ring operations and roots of unity, so it is evaluated
exactly in the integers modulo a prime, with a point of order `Size` on the circle. It is linear, hence impulses
and sums of two cover wrong indices and signs. Rounding is outside the model.

### BoardPower

`Boot` is `get_board_revision()` with `config_io_expander()`'s script (`Script`, one bus transfer per step), `Start` what `app_main`
then switches on, `EnterSleep`, `SleepHandler`, `LightSleep`, `Wake` and `WakeHandler` the power manager with
its handlers. Every transfer may fail (`InitFails`, `CheckFails`, `RevisionFails`, `GroupCallFails`); `ESP_ERROR_CHECK` is
`Restart`, over which the expander keeps its registers. `DeinitBluetooth` is the teardown that `bt_sleep()` and PAIR_FAIL begin; it may fail, which nobody is told
of, or not return (`SleepHandlerWaits`). All of it is the main task. `initFailed` marks a
board that took itself for V0 because the expander did not answer, `bad` a rail whose own
write failed, or a Bluetooth whose teardown did. The level interrupt of the wake pin and the output on GPIO 4 are not modelled.

### FuelGauge and GaugeRegisters

`FuelGauge`: the chip raises flags (`Raise`) and pulls the pin; the main task sets up (`Setup`, step by step: update of CONFIG, interrupt handler, task,
callbacks), the alert task takes the semaphore, reads STATUS, updates CONFIG by a read and a write without a lock, and calls back.
The driver never writes STATUS, so flags stay; the chip runs on through restarts. Every transfer may fail. `missed` and `deaf` mark the windows the code leaves: flags raised after STATUS was
read and before CONFIG is written, or before callbacks and handler are installed, and a pin that is already low.

`GaugeRegisters`: registers are pairs of bytes in the order of the bus, each setting the masks and
swaps the code makes; the reference is the field last accepted and the word the chip meant. The arguments of the voltage limits are floats, in units of
2^-22 V, which all floats of 2 to 8 V are multiples of: out of range they are refused, and `(uint8_t)(voltage / 0.02)` rounds down, so that 3.3f, which is a little less
than 3.3, gives 164 steps and 5.1f 254.

### Clock

The system's time of day (`Tick`, `RtcSetTime`), the text of IDLE with its `prev_sec`, the menu's hour,
minute and field. Half a day, an hour and a minute are constants, small in the runs. The
time zone string `PST` has no offset and is UTC to the C library; nothing is shown of the date. The menu starts with the
12-hour value of the hour and sets a constant time (`MenuTime`); the field that is set blinks (`MenuTexts`).

### PairingDisplay, with Animation

The three states of PAIRING's own machine with the counter they share, the animation sequences (`animation_sequence_update` and
its two neighbours) of the eyes and of the pairing-failed arrows. A text is its width; names and addresses come and go.

### PixelBuffer, implementing Picture

Every function on pixels and bytes, for both boards: byte order, bit order and lit level are opposite. A byte is the
set of its bits that are 1. `Picture` has one pixel per place and knows neither bytes nor levels; `Lit` is the refinement mapping.

## 4. The runs

| Run | Parts and instance | What it shows |
|---|---|---|
| `states` | queue 2, burst 1, fair | `NoTrap`: timed states and STREAMING keep a way out, no timer outlives its state. `BtFollowsStates`: PAIR_SUCCESS means Bluetooth is up, the chip sleeps with it down, unless a teardown has failed. `ResultShownFullPeriod`. `UsesSession`: Bluetooth is started, stopped and connected as a session allows. `StatesMoveOn`: pairing ends, result screens do unless a stop was refused, STREAMING ends after the audio, audio reaches the display |
| `audio_path` | ring buffer of 8 and 5 units, two sounds of two chunks; double buffer of 4 samples, 5 frames | the wake-up is lost only after an overflow; the FFT's input is one frame up to the samples that came during the copy, and no frame is taken more than three times; a flushed sound is played to its end, every frame or a later one is processed |
| `bluetooth` | session: queue 5, two sessions, faults; volume 0..2 in steps of 1, a work queue of 1 (the proof is for any length), one response on its way at a press, connections lost and made again; controller: queue 2, two notifications | bluedroid goes down after the profiles and no message crosses sessions; layers, task and queue implement a session; both ends of a volume show the same unless the last command was dropped; notifications are registered again; the teardown's wait ends; the connection flag converges; texts leak only with a dropped event or the session |
| `framebuffer` | 2 rows, 3 frames, 2 presses, fair | without a race frames are shown whole, and the buffers are a mailbox for the newest; a race takes an early frame; the last frame drawn is shown |
| `events` | two producers, two owners, one client, queues of 2; one button on time or late, time stamps of width 6 | the event manager implements a broadcast, in the order of each producer, to callbacks that are registered; every push is handled; presses are classified; holds repeat and releases stop |
| `audio_manager` | one patient, one hasty caller, queue 2, 4 calls; one slot, two files of one chunk, one with a long name, clients that walk away, a loss of power at every step | success means one's own request; the table names files that exist and no stale slot; calls that were accepted return if sounds end, hasty calls in any case; a loaded table was written by this code |
| `tcp` | 4 requests on 3 connections (`known`), 3 on 2 (`any`), a known and an unknown id; a day of 4 hours of 2 minutes of 3 seconds | a patient client gets its one reply; handler and buffer agree; known requests are answered unless the server's NACK loop has begun; clock and menu show the time |
| `spectrum` | transforms of 32 points; both boards, 2 rows of 2 bytes | the transforms are the DFT and its inverse; the pixel functions implement a picture |
| `board` | LED; displays of 2 columns; three revisions with 3 failed transfers; gauge with 2 failures and 2 restarts; registers, limits from below 0 V to just above 5.1 V | a manual colour stays without a race; rails follow sleep and wake, Bluetooth too unless its teardown failed; alerts reach their callbacks; settings keep to their fields; displays take turns; every board comes up |
| `idle_timer_reset` | queue 2, burst 1 | *violated:* IDLE is left only when its timer expired |
| `ringbuf_stall` | as in `audio_path` | *violated:* PROCESSING means the I2S task works |
| `bt_wait` | queue 10, two sessions, no faults | *violated:* the main task waits only for work that was dispatched |

**Bounds.** A queue of two with bursts of one has the cases of a queue of ten with bursts
below ten: empty, partly filled, full, overflowing while blocked; `Burst < QueueLen` is the only
relation of the two that the arguments use, and the proofs hold for every such pair. The same goes for
the queues of two of the event manager and the audio manager: the models depend on a queue being empty, full or in between. Two sessions,
connections or restarts are enough for anything left by one to meet the next. Two rows make a scan that can be torn; three
frames fill the three buffers; two presses switch double buffering on and off. Two
sounds of two chunks give a sound that ends while the next begins and one that is
longer than a write. Three failed transfers can hit three different steps of a boot, or three boots. Two bytes in a row have a
boundary between bytes, two rows one between rows; the coordinates lie on both sides of it and beyond the display. 32 points
use both base cases and a recursion above them. The small day crosses noon, midnight, a full hour and a
full minute. Four requests on three connections reach the server's endless NACK, which three on two do not: a stale reply, the early request after it, and a client that
waits for the server in the loop. The width of the buttons' time stamps is just above what two
periods need, so that wrapping happens early and a hold still has two full periods. `bt_wait` has the real queue length because the length is its point.

**Fairness.** Weak fairness of tasks, timers, interrupts and daemons: each is
ready, of bounded duration, and nothing of higher priority runs for ever. Of the blocking calls only Bluetooth's have it (`BtCall`): they come to one of their
ends, the endless wait among them. The sleep sound and the playing of a file need not end, since `ringbuf_stall` shows that they may not; the properties that need them to say so
(`[]<>` of the opposite). Beyond that: a controller takes its
responses and registers again, a player answers commands (both are what the AVRCP roles require); failed transfers are
bounded in number, since a bus that never works again does not come up. The user,
the peer, the clients and the stack's callbacks have none: they may do nothing. `FftPushFirstPacket` has strong fairness only because `Burst` disables
it, in the model, until the loop drains its queue again; the code's `xQueueSend` never
waits. In `FrameBuffer` the display's timer ticks for ever and the drawing tasks may stop.

**Deadlock** is checked except in `bluetooth` and `bt_wait`: a lost STACK_DOWN really stops the
main task, and the number of sessions is bounded. In the joined runs a part whose bounds are used
up (all calls made, all frames sent) may stutter; that alternative is written out in `MCNext` for those parts only.

## 5. What disagrees with the code's own words

Three disagreements have a run that TLC must find violated:

* `idle_timer_reset`: a press restarts IDLE's timer ("Button pressed, resetting idle timer",
  `idle_state.c:208`) but the flag of a timer that has just fired stays set, and the next update acts on it.
* `ringbuf_stall`: `i2s_task.c:31` says of PROCESSING that "I2S is working". After an overflow a
  writer that has read DROPPING stores PROCESSING over the PREFETCHING of an
  underflow, and gives no semaphore: the I2S task sleeps until a sound effect is flushed; by then the buffer is full, the mode DROPPING.
* `bt_wait`: `bt_audio.c:281` says "Wait for dispatched work to complete"; the result of
  the dispatch is ignored, and the wait has no timeout.

Others came up while the models were written. The models contain each of them, and the property
that it limits says so by a history variable or a premise, given here in brackets:

* `rgb_manager.c:122`: the RGB task's running `set_rgb_led()` may put its own colour back after IDLE's
  "Turn off LED" (`idle_state.c:70`) [`raced`].
* `audio_manager.c:299`: a blocking play whose request the full queue refused waits all the same; `sleep_state.c:25` does so with
  `portMAX_DELAY` [`accepted`].
* `audio_manager.c:448`: after an upload that its client abandoned every new one is refused with "File already open" [`session` is "left"].
* `audio_manager.c:370`: a table that is there and does not load is never created again, as a missing one
  is (343); there is no audio task until the flash is erased [power state `deaf`].
* `tcp_shell.c:385`: the reply goes to the connection that is open by then. A client that reconnects may get the answer to a
  request of its predecessor, which `socket_test.py:132-137` takes for its own [`Patient`].
* `tcp_shell.c:364`: an id the firmware does not know is never answered, and the client waits [`known`].
* `tcp_shell.c:205`: a NACK to a socket that is gone is sent for ever; the position goes backwards by
  the error of -1, and no later client is accepted [`NackForEver`; `HndSendFails` stays where it is until the socket number is used again].
* `daftpunk_speaker.c:60`: `bt_sleep` and PAIR_FAIL go on after a teardown that returned early, with `audio_enabled` still set: the chip sleeps with Bluetooth
  enabled, PAIRING does not start it again, and the next teardown waits for ever [`stop_failed`, `no_stop`; `bad`].
* `bt_app_av.c:536`: a SET_ABSOLUTE_VOLUME or a registration that finds the work queue full is dropped, and the controller takes it for done [`dropped`].
* `bt_app_core.c:159`: the queue goes with the metadata events in it, whose texts nobody frees [`ShutDown` in `TextsFreed`].
* `audio_manager.c:209`: the chunk loop retries as long as the ring buffer takes nothing, after a stall perhaps for ever [`task` is "chunks"].
* `MAX17048.c:313`: a limit of 3.3f is 164 steps of 20 mV, 3.28 V [`LimitIs`].
* `bt_app_av.c:192`: the flag is cleared after the response of line 191 is sent; a controller that registers in between has its
  registration cleared with it [`notify` in `ViewCurrent`].
* `bt_app_core.c:51` with `bt_app_av.c:144`: a notification dropped at the full queue is not registered again, and
  that kind of notification ends for the connection [`missed`].
* `BoardRevision.c:93`: one failed transfer makes any board a V0 ("If init fails, assume ..."), line 90, whose rails are elsewhere [`initFailed`].
* `MAX17048.c:203` and `150-155`: an alert that falls into the setup, or between the read of STATUS and the write
  of CONFIG, is never called back, where `Kconfig.projbuild:53` speaks of the charge "at which SOC empty alert is triggerd" [`missed`, `deaf`].
* `Buttons.c:180`: a tap shorter than the interrupt's latency leaves the time stamp of the press before, and is a long
  press ("LP: pair action, SP: select action", 176) [`PairClassified` is checked with prompt interrupts].
* `idle_state.c:230`: the text has the seconds of the update before (`prev_sec`) beside the hour and minute of now, under
  "Display system time" (221) [`ClockRight` speaks of hour and minute].
* `menu_state.c:134`: "Setting time to %02d:%02d" (121) logs the time chosen, and a constant is set [`MenuTime`].
* `MAX17048.c:340`: `c_rate` is swapped once more than the word was; `MAX17048.h:30` says "Seems to be returning weird values" [left
  out of `ReadingsRight`].

## 6. What is proved

For every value of the constants that the modules' assumptions admit; `tlapm`
checks each `*_proof` module.

* **SpeakerStates_proof.** `NoTrap`, `BtFollowsStates`, `UsesSession` and `ResultShownFullPeriod`, which are all safety properties of the module, for every queue length and every burst below it.
  `TypeCorrect`. `TimedStatesEnd` and `TimersDoNotOutliveStates` from the inductive `TimerInv`: a blocking call
  belongs to the state that makes it (`CallMatchesState`), so whoever leaves a state
  has stopped its timer and whoever is in the loop of a timed state has started it or seen it fire.
  `ResultsLastTheirPeriod` (an action property) from `FlagIsOfThisVisit`: entry clears the flag, so in the
  loop a set flag means that this visit's timer has fired.
  `SleepsWithBtDown` and `NoStaleSuccess` from `BtInv`: the flags agree outside start-up and teardown, but for a session whose teardown has failed, which stays
  enabled without profiles for good, and with
  Bluetooth off a `BT_AUDIO_CONNECTED` is only found where PAIR_FAIL or IDLE, which ignore it, will drain it.
  `StreamingCanEnd` from `StreamInv`: a `FIRST_AUDIO_PACKET` in the queue was pushed by a block that restarts the
  idle timer (`FirstPacketTimed`), and since at most `Burst` events have come since the last drain, the timer's
  `STREAMING_TIMEOUT` finds room (`TimeoutFits`).
  `StatesUseSession` from `BtInv`, step by step: between the calls the stage is what `audio_enabled` says, so each entry and each power handler that asks
  for the flag makes a call the session allows, a stop of a stuck session included, and a connection changes only where the stack is up or has just gone down.
* **AudioPath_proof.** Ring buffer: `TypeCorrect` (the buffer holds at most its size, a sound being
  written has chunks left); `NoStallWithoutOverflow` from `NoDropping`: without an overflow the mode is
  never DROPPING, hence nobody is on the branch that stores PROCESSING without the
  semaphore, and every other store of a mode either is PREFETCHING or wakes the task.
  FFT: `WholeBlocksTaken`, for every block size, stream and `Lag` up to two frames. `HalvesInTurn` says what frame each cell of the halves
  holds, `Copying` how far the writer has come since a copy began (it is in the half that is copied only with the next frame but one, and
  behind the samples that came), and `CopiesCounted` that a frame's copies and the tokens for more of them are three at most.
* **Bluetooth_proof.** `TypeCorrect`, `StackIsDownBeforeDisable` and `MessagesDieWithSession` from `IInv` of `BtAudio`: the
  work queue holds messages of this session only, STACK_UP first and at most one
  STACK_DOWN, after which nothing is registered; the semaphore is given only by that one.
  `StackImplementsSession` from the same invariant: the profiles are up from STACK_UP to STACK_DOWN (`UpUntilDown`), so a connection is handled while they are or
  behind the end of the session, and `audio_enabled` agrees with the position in every call (`EnabledInSession`). `SessionsAreSound` is
  about `BtSession` alone: what any session shows its callers, and so by `StackImplementsSession` what the stack shows them.
  `NoRegistrationForgotten`, for every range and step of the volume, set of notifications and queue length. Of the volume: what the
  controller sent last, its registration or a volume, decides what both ends will show if it was not dropped (`LastCommandDecides`), nobody answers a registration that was
  (`UnheardUnanswered`), and once no command is left
  the last interim response carries the volume (`InterimCurrent`). Of the controller: in a queue that has lost nothing the end of the old connection is
  followed by the start of this one (`OldEndFirst`), so until the capabilities are known somebody asks for them (`CapsKnownOrAsked`).
  `StepsStayWithinReach` from `StoreInStep`, `TextsAreFreed` by counting the metadata in the queue and in the handler's hand.
* **Board_proof.** Five components of `MCBoard`, and `FrameBuffer`.
  `RailsFollow`, for every set of boards and number of failed transfers: the script of the start sets each pin once, so what it has made stays made
  (`ScriptFollowed`, `ConfigurationMade`), and then only rails change, each with its handler (`RailsFollowHandlers`); past its handler Bluetooth is enabled only if its teardown
  failed (`BluetoothEnds`).
  `AlertsReachSomebody`, for any number of failed transfers and restarts: a low pin has the semaphore or the task before its write (`LowPinSeen`), a flag is
  on its way, told or missed (`FlagsUnderWay`), and from the setup's third step on nobody holds a copy of CONFIG with the alerts off (`SetupInOrder`).
  `FieldsKept` and `SettingsLeaveAlert`, for every measured word and argument, refused ones included: the arithmetic of bytes, fields and rounding.
  `LightsKept` for the LED, `DisplaysInOrder` (the safety half of `PairingShown` in PAIRING) for every text and animation: a text not drawn yet stands outside the display, and an
  animation's counter is the number of times its frame was drawn.
  `SlowDrawingIsSafe` from `InTurn`: as long as no frame
  was early, one task at most is in `buffer_update()`, and the display is not in its swap,
  as `update` is clear; `WholeFramesShown` from `NoTearInv`: at every point of a swap that runs alone `Handover` says who holds
  which buffer, so that the buffer drawn to is never the one shown, and the rows of a scan come from one buffer.
  `BuffersAreMailbox` from `FrameOrder`: at every point of its way the newest frame is where the display will look for it - in `ibuf`, or in the swap's hand - and in
  `rbuf` when none is on its way. `FramesGoForward` follows from what `Mailbox` promises: no frame is lost but to a newer one, and none comes back.
* **EventManager_proof.** `DeliveryRight`: entries that are counted are queues, in different places (`PublishedQueuesAreReal`), no
  callback is called after it was unregistered, and every queue has the events of each producer in order. The invariant says who is where with the mutex held, and that a producer's place in
  the loop is behind what it has offered. From it `RefinesBroadcast`: every step of the code is a step of `Broadcast` or a stutter, for any number
  of producers, owners and clients; the fairness part of `ImplementsBroadcast` is TLC's.
  `PressesAreRight`, for the buttons and any periods: each step given while a press lasts stands for a full period of it, and what runs - the timer, or the last
  command, if it starts it - counts from the end of these periods (`StepsNotEarly`, and exactly so on time, `NoStepTooMany` and `NoStepMissing`); the
  handlers' unsigned subtraction is the length of the hold over every wrap (`HoldMeasured`). `PressInv` is the conjunction.
* **AudioManager_proof.** `OwnRequestServed`: success means that the task was done with this
  very request, and no waiter whose request it is done with is left without its semaphore. `OwnSemaphores`: a semaphore belongs to one
  call; `RequestsCarryThem`: what is queued or in hand carries the semaphore of its call; `GivenWhenServed`.
  `TableIsHonest` and `LoadedTablesAreVersions`, for any slots, files and lengths and a loss of power at any step. Files that are named, in memory or by a table
  the next boot will accept, are there, because a file is read back before its entry is made and no named file is removed (`FilesNamed`); what is on flash
  is the version last written, the one being written, or does not load (`VersionOnFlash`); files are open only where somebody will close them (`FilesOpen`).
* **TcpShell_proof.** `PatientClientServed` and `HandlerUndisturbed`, for any set of ids and clients that may do everything. `ServedInv` says where
  the one outstanding request of a patient client is: on the wire, announced, in the handler, or on its way back; so while it is
  handled there is nothing that could overwrite the buffer. `PendingInv` bounds what a client that left may have left behind, `SizeInv` that
  a reply's size is its own. `ClockTells`, for any length of minutes, hours and days: what IDLE last drew is the time it read, and
  the menu's fields are those it shows.
* **PixelBuffer_proof.** `DrawsPicture` for both boards and any size: every column is one bit of one byte (`Idx` and `BitIdx` are
  injective together and onto), hence each function changes, reads or copies the pixels that `Picture` says.

The theorems on a run's property combine the parts proved before them, as `NoStateIsATrap`, `BluetoothAsNeeded`, `NoWakeUpLost`,
`SessionsDoNotMix`, `FramesAreWhole`, `DeliveryIsRight`, `OwnRequestIsServed` and `HandlerIsUndisturbed` do. A theorem on `MCSpec`
holds for any values of the constants that the joined modules' assumptions admit, not for those of the `.cfg`.

**Only model-checked:** all liveness properties, which are beyond TLAPS here (`StatesMoveOn`,
`SamplesProcessed`, `BluetoothSettles`, `LastFrameShown`, `EventsArrive`, `HoldRepeats`, `CallsReturn`, `KnownRequestsAnswered`,
`SpeakerStarts`, `LowBatteryShown`, the first and the last conjunct of `PairingShown`); `TransformsRight`, since `Fft` recurses over the size, on which
the provers cannot do induction; `FormDrawsPicture`, which is `DrawsPicture` for the other board (the theorem covers both).

## 7. What is not modelled, and why

* **Arithmetic without state:** the shell's CRC (its outcome, valid or not, is in `TcpShell`), magnitudes, buckets and bar heights of the
  spectrum (floats), the sample-rate decode of the SBC header, volume scaling, rounding in the FFT.
* **Code nobody calls in this build:** `bt_i2s_task_shut_down`, `oneshot_blink`, `RGB_1HZ_CYCLE`, `RGB_BLINK_N`, `fft_primitive`, the gauge's
  soft reset; `MAX17048.c:386` returns with the callback mutex held on a path that no argument of a caller reaches.
* **Pure I/O and tables:** shift registers, stack report, fonts and bitmaps, `draw_str` and `draw_bitmap`, socket and Wi-Fi set-up before
  the accept loop, the host scripts' menus and asset conversion, the sequence of init calls in `app_main`.
* **Hardware:** the level interrupt of the wake pin, the expander's interrupt on GPIO 4, a V0 board that is wrongly cached as such after a bus error (it is
  excluded by `initFailed`, not repaired).
* **Outside all models:** heap exhaustion, and the undefined behaviour of a send to a queue that is being deleted (`bt_app_core.c:51`).
