# Verification of t38modem

t38modem is a fax modem in software: a DTE (a fax application such as HylaFAX)
talks AT commands to a pseudo terminal, t38modem answers as a Class 1 modem
and carries the fax over the Internet as T.38 through OPAL. The code is under
`src/t38modem/`; `src/opal`, `src/ptlib` and `src/spandsp` are vendored
libraries. Source lines below are relative to `src/t38modem/`.

## 1. Inventory

| Component | State | Operations | Modelled by |
|---|---|---|---|
| Call control, `ModemEngineBody` (pmodeme.cxx) | hook, call state, call token, command state and sub-state, attached engines, three timers | `CheckState`, `HandleData`, `CheckStatePost` of the engine thread; `Request`, `NewPtrEngine`, `OnEngineCallback`, `OnTimerCallback` of other threads | `CallControl` |
| Modem endpoint and connections (opal/modemep.cxx) | one `ModemConnection` per call, the modem it owns | `OnMyCallback` (dial, answer, requestmode, clearcall), `SetUpConnection`, `OnAlerting`, `OnEstablished`, the destructor | `CallControl` |
| Modem pool (pmodem.cxx) | queue of free modems | `Enqueue`, `Dequeue`, `DequeueWithRoute` | `CallControl` |
| Fax sending (t38engine.cxx, pmodeme.cxx) | engine's `stateModem`, `stateOut`, output buffer, callback parameter; body's send states and `seq` | `SendStart`, `Send`, `SendStop`, `ResetModemState`, `PreparePacket` | `FaxSend` |
| Stream ownership (enginebase.cxx, opal/modemstrm.cxx) | owners of the output and the input, fake-stream flags | `OpenOut`, `CloseOut`, `EnableFakeOut`, `FakePreparePacketThread`; `OpenIn`, `CloseIn`, `EnableFakeIn`; `Detach` | `FaxSend`, `FaxRecv` |
| Engine and body locks (enginebase.cxx, pmodeme.cxx, t38engine.cxx, audio.cxx) | the body's `Mutex`; `MutexModem`, `MutexModemCallback`, `Mutex`, `MutexOut`, `MutexIn` of each engine | every path that takes them; `TryLockModemCallback`, `ModemCallbackWithUnlock`, `_AttachEngine`, `_DetachEngine` | `EngineLocks` |
| Engine thread and wakeups (pmutils.cxx) | one sync point per thread, `stop`, `childstop` | `SignalDataReady`, `WaitDataReady`, `SignalStop` | `CallControl`, `FaxSend`, `FaxRecv`, `PtyThreads` |
| Fax receiving (t38engine.cxx, pmodeme.cxx) | `modStreamIn`, `modStreamInSaved`, carrier, callback parameter; body's receive states | `HandlePacket`, `HandlePacketLost`, `RecvWait`, `RecvStart`, `Recv`, `RecvDiag`, `RecvStop` | `FaxRecv` |
| Pty threads and queues (pmodemi.cxx, drv_pty.cxx) | `inPtyQ`, `outPtyQ`, the threads of a pty and what each has in its hands | `MainLoop`, `OpenPty`, `StartAll`, `StopAll`, `InPty::Main`, `OutPty::Main`, `ToPtyQ` | `PtyThreads` |
| Media packet numbers (opal/modemstrm.cxx) | `currentSequenceNumber` of source and sink | `ReadPacket`, `WritePacket`, `Open` | `MediaSeq` |
| Data streams (pmutils.cxx) | a chain of chunks, `firstBuf`, `bufQ`, `lastBuf`, `eof` | `PutData`, `GetData`, `PutEof`, `Clean` | `DataStream`, against `ByteQueue` |
| DLE, HDLC, FCS codecs (dle.cxx, hdlc.cxx, fcs.cxx) | `dle`, `recvEtx`; bit registers, ones, FCS | `PutDleData`, `GetDleData`; `pack`, `sync`, `unpack`, `GetRawData`, `GetHdlcData` | `DataStream`, `Hdlc` |
| T.30 observer (t30.cxx) | last V.21 frame | `v21Data`, `v21End`, `hdlcOnly` | both answers of `hdlcOnly` are taken |
| Audio engine (audio.cxx, tone_gen.cxx, ...) | samples in and out | as T38Engine, for class 8 | its locks (`EngineLocks`) and callbacks |
| Endpoints, manager, codecs, main, `h323lib/`, `drv_c0c.cxx`, vendored libraries | configuration; other build variants; third-party code | | not modelled |

How they interact. The *engine thread* of a modem loops: `CheckState` (one step
of the state machine), `HandleData` for what the DTE sent, `CheckStatePost`,
then `WaitDataReady`. All of it runs under `ModemEngineBody::Mutex`, which is
released around every call of `callbackEndPoint` (dial, answer, requestmode,
clearcall go to OPAL) and around two sleeps in `_DetachEngine`. *OPAL threads*
call `Request` (a call arrives, alerts, is established, is cleared) and
`NewPtrEngine`; *timer threads* set a `Timeout` and wake the engine thread;
*media threads* call the engine's `PreparePacket` and `HandlePacket`, which
call back into the body with the engine's `Mutex` released. After the remote
party hung up there is no media thread any more, and a `FakePreparePacketThread`
consumes what the DTE still sends. Below the engine thread, `InPty` and `OutPty`
move bytes between the pty and two bounded queues; the body's own thread opens
the pty, starts the three and replaces them all when one of them has ended.

What is hard about it: state read before a released mutex and used after it
(dial, answer, detach, every callback of `PreparePacket`); acknowledgements
that answer an older send; lost wakeups of two kinds of sleepers; hand-over of
the output between streams and the fake thread; the retry over an alternate
route, which re-enters a state machine that is about to get the answer of the
first attempt; mutexes taken from the body into an engine and from the engine
back into the body; threads that are stopped one after the other while they
still wait for each other's queues; 16-bit numbers that wrap while packets get
lost; byte and bit codes cut anywhere by calls and buffers. `PROJECT.json` lists each of these hazards at its line with the
properties aimed at it.

What makes the components correct:

- call control: call states follow the table in the comment of `enum
  CallState`; nothing of one call (flags, timers, command state) survives into
  the next; a live connection always stays reachable by hanging up; the modem
  is never lost from the pool; every wait has a timeout; the engine thread
  never sleeps through work; attempts and hang-ups end;
- sending: an acknowledgement reaches the body only for the send it waits for
  and only after the data went out; the packets of an owner form T.38 signals;
  body and engine agree on what is being sent; neither sleeper loses a wakeup;
  an ended frame is sent, and after a release it is acknowledged all the same;
- receiving: a packet is never written into a deleted buffer; what the engine
  told the body holds when the body acts on it; a wait for a signal or for
  silence is answered; only whole frames are reported as good; every receive
  can be ended by the remote party, the DTE or the release of the call;
- locks: no cycle of waiting threads, no callback of a detached engine, every
  callback and every `_DetachEngine` ends;
- pty threads: no thread sleeps on a filled queue, an ended child ends the
  session, and the next session starts with nothing left of it;
- data path: packets reach the engine once, in order, with every gap reported;
  chunks are a queue of bytes; DLE codes and HDLC frames give back what was put
  in.

## 2. Modules

| Module | Content |
|---|---|
| `CallControl` | call control, connections and pool: specification, properties |
| `CallControlProofs` | theorems about `CallControl`, who owns its modem among them |
| `MCCallControl` | its TLC instance (symmetry of connections) |
| `FaxSend` | body's send states, `T38Engine`'s sending half, owners: specification, properties |
| `FaxSendProofs` | theorems about `FaxSend` |
| `MCFaxSend` | its TLC instance |
| `FaxRecv` | body's receive states, `T38Engine`'s receiving half, owners of the input: specification, properties |
| `FaxRecvProofs` | theorems about `FaxRecv`, at the end those about what it reports of a frame |
| `MCFaxRecv` | its TLC instance (symmetry of streams) |
| `EngineLocks` | the mutexes of body and engines and the paths through them: specification, properties |
| `EngineLocksProofs` | theorems about `EngineLocks` |
| `PtyThreads` | the threads of a pty and their queues: specification, properties |
| `PtyThreadsProofs` | theorems about `PtyThreads` |
| `MCThreads` | TLC instance of both |
| `MediaSeq` | packet numbers of source and sink over a network: specification, properties |
| `MediaSeqProofs` | theorems about `MediaSeq` |
| `ByteQueue` | abstract specification: a queue of bytes with an end |
| `DataStream` | chunks and DLE codes; its refinement of `ByteQueue` |
| `DataStreamProofs` | theorems about `DataStream` |
| `Hdlc` | bits of HDLC frames with FCS |
| `HdlcProofs` | theorem about `Hdlc` |
| `MCData` | TLC instance of `MediaSeq`, `DataStream` and `Hdlc` |

A definition marked `mutant` is a plausible bug in the definition after it
(a dropped guard, a missing reset); it belongs to no specification. PROJECT.json
names the property that catches it.

### CallControl

One modem and the connections `Conn` that may ever exist. `pc` is the position
of the engine thread; it holds `ModemEngineBody::Mutex` exactly when
`pc \notin Unlocked`. A request or callback from another thread is one step,
enabled while the Mutex is free. The parts of `CheckState` that never release
it are four steps (`ring`, `tmo`, `rel`, `sw`), so that `OnHook`, which each of
them may call and which does release it, has somewhere to return (`ret`).

- `OnHook`, `DetachEnter/Try/Wake`, `ClearCall`, `ClearCallback`, `ClearFinish`
  are the pieces of `OnHook`/`_DetachEngine`/`_ClearCall` between the places
  where the Mutex is released. `lockReleasingState` counts as in the code.
- `StartDial` .. `DialConfirmed`/`DialRejected` are the dial with its callback:
  `Dequeue` from the pool, `SetUpCall` (which may fail after it made a
  connection), `GetConnection(0)`, and the token stored afterwards.
- `CmdAnswer`, `CmdDial`, `CmdHangup`, `CmdClass`, `CmdData` are the AT commands
  that reach call control; `HandleAbort` and `HandleDataPhase` are input in
  another state.
- `PMAlloc`, `RequestCall`, `RequestAlerting`, `RequestEstablished`, `Release`,
  `PMFree`, `RequestClearcall` are the life of a `ModemConnection`: `conn[c]`
  is its phase, `partyA` the connections the modem dialled (they may carry an
  alternate route). `~ModemConnection` is two steps, because it gives the modem
  back to the pool before it sends `clearcall`.
- `Timeout` keeps its three states (stopped, running, fired and not yet taken).

Abstracted: the states `stSend` .. `stRecv`, where call control only waits, are
`stData` (`stRecvBegWait` stays apart, it is timed); media format negotiation is
the answer of the `requestmode` callback; responses, caller id and S-registers
are left out. A connection is used once.

### FaxSend

One `T38Engine` from its attachment to its detachment. The engine thread's
steps hold the body's Mutex; CED and silence are two calls of the engine
(`SendStart`, then `SendStop` at `pc = "stop"`), between which a media thread
may run. `outW` is the thread inside `PreparePacket` (`MutexOut` admits one),
`outPc` its position: `loop` at the head of a pass, `cb`/`back` in
`ModemCallbackWithUnlock`, `wait` in `WaitOutDataReady`. A pass under the
engine's Mutex is one step per value of `stateOut` (`OutIdle`, `OutSignalWait`,
`OutIndWait`, `OutData`/`OutDataNone`, `OutRawFcs`/`OutHdlcFcs`,
`OutDataNoSig`, `OutNoSig`). `pend` is the packet under construction while a
callback runs.

- A signal is its kind: `ced`, `silence`, `hdlc` (HDLC from the DTE), `raw`,
  `rawHdlc` (raw data from the DTE, unpacked because `t30.hdlcOnly()`), and
  `hdlcRaw` (HDLC from the DTE on a raw carrier). The last is not implemented:
  `PreparePacket` returns 0 with no output of `hdlcOut` started (`Started`), and the
  next owner's `GetData` is then always -1, which ends the signal and acknowledges
  the frame with `bufOut` untouched (t38engine.cxx:1316, 1352, 1482).
- `bufOut` is the number of bytes in it, up to `MaxBuf`, where it counts as full;
  bytes are not told apart. `HDLC::GetData` takes a nondeterministic number of
  them; unpacked raw data may reach a flag anywhere, and gives up `inData` at
  the end of the data inside a frame, as `GetHdlcData` does. The look for the next
  frame (`OutRawFcs`) fails at the end of the data and at an unaligned flag, which
  leaves the rest in `bufOut`.
- `Input` is one read of the DTE's data, which `Main` starts only while `bufOut` is
  not full; `held` is input left unread because it was. In `stSend` the data of one
  read is a loop (`pc = "more"`, `InLoop`) that takes the Mutex for each piece anew and
  looks neither at the state nor at the buffer: `SendData` until `SendEtx` or `ReadDone`.
- `Stream` are the media streams (those in `Polling` have
  `preparePacketTimeout` 0), `Fake` the fake threads; `life` is the life of each
  thread. A stream's thread that got 0 from `PreparePacket` is `dead` and stays
  the owner until OPAL closes the stream.
- `ClearCall` needs all streams closed: `~ModemConnection`, which sends the
  request, runs after OPAL has closed the streams and joined their threads
  (`src/opal/src/opal/patch.cxx`, external). No stream opens after it.
- `last` is the last packet of the present owner, a history variable for
  `WireOrder`.

Left out: times (`delaySignalOut`, the wait for a carrier, packet periods; a
passed delay is a step that may happen at any moment), `SendOnIdle` (CNG), the
receiving states. `OutSignalWait` has a bound in its guard: of the signals that
end before their `SendStop`, one between two accepted `SendStop`s; see the
hazard at pmodeme.cxx:937. Two more bounds are on the data of one read: it fits into
`bufOut`, and nothing follows its <DLE><ETX>.

### FaxRecv

One `T38Engine` of an outgoing call from its attachment to its detachment,
beginning in `stReqModeAckHandle`. The engine thread keeps the body's Mutex at
the positions `Locked`: `RecvStart`, `RecvDiag`, `Recv` and `RecvStop` are separate
calls of the engine, between which a media thread may run `HandlePacket`, but not
its callback. `win[s]` is a media thread inside `HandlePacket`: `cb` in
`ModemCallbackWithUnlock`, `back` after it, `pend` what it goes on with.

- A `ModStream` is its modulation, `firstBuf`, `bufQ` and `lastBuf`, which points
  at one of them. A buffer keeps what the properties tell apart: how many parts
  of one frame it holds in order (-1 for anything else), whether some of it is
  unread, its end and its diagnostics.
- `RecvWait` takes what came before it was asked for: the rest of the last
  signal (`Kept`), the saved one of the same modulation, or `DiffSig`.
- With `Ecm` (`t30.hdlcOnly()`) the frames of a fast modulation are repacked into
  one run of raw data (`Repacked`, `RecvNextFrame`); without it the signal is raw.
- `Indicator`, `NewSignal` and `Data` are the branches of `HandlePacket`, cut where
  it calls back. `OnUserInput` for CED is left out; CNG behaves like CED.
- `EnableFakeOn` is `OnChangeEnableFakeIn`: the engine thread, without its Mutex,
  ends the signal of a stream that is gone, and makes the callback itself.
- Sending is the one state `stmOut`, entered by `CmdSend` or a silence and left
  at any moment (`SendEnds`, with the expiry of a carrier); `FaxSend` models it. Its
  `SendStart` deletes what has been received: `modStreamIn`, and `modStreamInSaved`
  unless a silence is sent.
- The remote party (external) starts a session with no-signal, then sends
  signals: an indicator, possibly repeated, frames of `Parts` packets with a
  good or bad FCS, or raw data, and an end; no-signal may cut it short at any
  point. A session that began in the middle of the signal which the last one
  was cut off from would be joined to its stream; OPAL's sessions begin with
  no-signal, so this is left out.
- The network loses one or two packets in a row (`AfterLoss`). `WritePacket`
  drops repeats and hands packets over in order, so `HandlePacketLost` before the
  next packet is all that is seen of it.

Bounds in guards: `Room` (frames queued in one stream), `NotLapped` (the DTE does
not give as many commands as there are sequence numbers, 256 in the code, while
one callback is on its way). AT+FRH with a fast modulation is left out.

### EngineLocks

`own` is the owner of each mutex, `pc[t]` the position of thread t between two
mutex operations and `at[t]` the engine it is in; nothing else of the threads is
kept. `Main` is the engine thread, `Req` are threads in `Request` and
`NewPtrEngine`, `Media` everybody who enters an engine from outside.

- `CallEngine` .. `ReturnGet` are the calls of the body: most of an engine's API
  takes `MutexModem` and `Mutex`, `isOutBufFull` and `ChangeModemClass` only
  `Mutex`. `CheckStatePost` enters an engine without the body's Mutex.
- `DetachEngine` .. `Detach` are `_DetachEngine`: it waits for `MutexModem`, only
  *tries* `MutexModemCallback`, and when that fails gives `MutexModem` and the
  body's Mutex back and sleeps (`nap`).
- `ModemCallbackWithUnlock`, `OnEngineCallback`, `CallbackReturns` are a callback:
  the engine's Mutex is given up, `MutexModemCallback` held, the body's taken.
- `nested`: `CheckState` runs the rest of a dial command with the body's Mutex
  locked twice (`HandleCmdRest`), and the sleep of `_DetachEngine` then unlocks it
  once only (`NapLocks`).

`MutexIn` of the audio engine is used like `MutexOut` and not told apart.

### PtyThreads

`main` is where `MainLoop` is, `where` the place of each child. The two queues are
sequences of the sizes of their buffers; `cbuf`, `bresp` and `buf` count what
`InPty`, `ModemEngine` and `OutPty` have in their hands. `ToPtyQ` is a put and a
notification, repeated until all is queued; its Mutex makes the look at the
notified thread one step. What poll, read and write return is up to the
environment, as is when `bufOut` is full (`full`).

### MediaSeq

A packet carries its unbounded number and its payload (`ifp`, `bad` for one that
cannot be decoded, `empty` for a fake packet); the sink sees the number modulo
`SeqRange`. The network (external) loses, repeats, damages and reorders within
`Reorder`. `OpenSink` starts a sink in the middle of a transmission.
`SeqAssumption` is the least the algorithm needs: a packet exactly `Window` - 1
behind the newest (9 in the code) is taken for a jump back and handled again, and
after a loss of nearly the whole range the next packets are ignored.

### DataStream, ByteQueue, Hdlc

`DataStream` has the chunks with addresses (`ds.heap`), so that a pointer to a
deleted chunk is one outside the heap. `PutDleData` and `GetDleData` work on it as
the DTE's side, `EngineGet`, `EnginePut`, `EnginePutEof` as the engine's. The four
bytes are DLE, ETX and what they become when their bits are reversed. `Queue` is
`ByteQueue` with the unread bytes of all chunks as its content (`Content`). A loop of the
code is a recursive function over its passes: a byte in `PutData`, `Read` and `PutDleFrom`,
a call of `GetData` in `GetDleFrom`; a pass after the last one changes nothing.

`Hdlc` packs frames bit by bit as `GetRawData` does, with FCS and flags, and hands
the raw bytes to an unpacker as `GetHdlcData` is; bytes, offsets and stuffing are
the real ones (`FcsBit` is the polynomial 0x11021). What is on its way (`line`) is a
sequence of bits that grows and shrinks by whole bytes. Its loops are recursive functions
too, over the bits of a frame or of raw data.

## 3. Runs

| Run | Instance | Shows |
|---|---|---|
| `call_control` | 2 connections, 2.3 M states | type correctness and seven safety properties of call control |
| `call_live` | 1 connection, fair | attempts end, hang-ups reach `cstCleared` |
| `call_in_use` | 2 connections | violation, see Findings |
| `fax_send` | 2 streams (one polling), 1 fake thread, CED, HDLC, raw, raw unpacked, HDLC over raw, 1 byte, 3 sequence numbers, 3.3 M states | acknowledgements, agreement, wakeups, packet order |
| `fax_live` | 1 stream, 1 fake thread, CED, silence, HDLC, 2 bytes, fair, 1.0 M states | ended frames are sent, sends are acknowledged after a release |
| `fax_abort` | 1 stream, unfair | violation, see Findings |
| `recv_loss` | 1 stream, V.21, frames of one packet, losses, 3 sequence numbers, 0.9 M states | agreement, wakeups, truthful reports |
| `recv_ecm` | 2 streams, V.21 and a fast modulation repacked, good and bad FCS, 2.1 M states | hand-over of the input; cut, bad and unexpected frames |
| `recv_live` | 1 stream, V.21 and a fast modulation repacked, frames of two packets, fair, 0.4 M states | the end of a signal, or the release of the call, ends the receive |
| `recv_first` | 1 stream | violation, see Findings |
| `threads` | 5 threads and an engine, or a pty with queues of 1 byte, reads and responses of 2; fair, 67 000 states | no deadlock, no stale callback, no sleep on work, fresh sessions, and that callbacks, detaching and sessions end |
| `data` | numbers modulo 12, window 4, 20 packets; 4 byte values, chunks of 2, 5 bytes; 9 byte values, 2 frames of 2; 1.1 M states | order and gaps, chunks as a queue, DLE and HDLC codes |

`MCThreads` and `MCData` put modules that share no state into one run: `view` and
`part` choose the module at the start, and only its variables change.

Bounds. Two connections are needed for a re-dial to meet its predecessor, or an
incoming call the end of another; a third adds no new pair, and every property
speaks of one connection or two. For liveness one is used, because a re-dial
chain with unlimited connections need not end. One byte is enough for a buffer
that is empty or full, two (`fax_live`) for one in between and for a read that
takes some of it. Three sequence numbers tell the present one, the previous one
and another apart. `fax_send` and `recv_ecm` identify states that differ by a
shift of all sequence numbers (`SeqView`): they are only compared with `seq` and
counted on from it, and the properties do the same. The view of `fax_send` leaves out
three values while they are set again before anything reads them: what the body sent
last, in `stCommand`; `moreFramesOut`, except in `stmOutNoMoreData`; `lastChar` outside a
signal. Two streams are enough for
one to take the output from another; one fake thread is created at a time in the
code's use of it, and a second would only repeat `FakeOpen`, which never takes
the output from an owner. For receiving, a frame of one packet can be lost, kept
or joined to the next, one of two can be cut in the middle; one queued frame
lets the signal run ahead of the body by a whole frame. Losses are checked with
V.21 only, the one modulation `HandlePacketLost` marks (t38engine.cxx:1609).

For the locks, two requests and two media threads besides the engine thread
give every pair of paths on one engine; no path holds mutexes of two engines,
and the theorems hold for any number. A queue of one byte with reads and
responses of two makes `ToPtyQ` put in two parts and makes both queues full at
once. 20 packets wrap numbers modulo 12 once with room on both sides; the
theorems need no such bound. Chunks of two bytes with five in all give a
stream of up to three chunks, full, partly read and partly written; room for 4, 8 and 12
codes in `GetDleData` meets the least it accepts, its buffer (`TmpSize`, 3) and several passes. The nine byte values
of `Hdlc` have runs of ones at either end, the flag itself and the longest runs;
two frames of two bytes meet every bit offset a stuffed frame can leave behind.
The deadlock check is on in every run.

Fairness. `call_live`: the engine thread runs (weak), a running timeout fires
(weak), a released connection is destroyed and sends its `clearcall` (weak: OPAL's
garbage collection), and the callback lock that `_DetachEngine` polls every 20 ms
is not found taken for ever (strong: each callback is finite, and between two
callbacks the lock is free). Users, remote parties and media threads are not
fair. `fax_live`: the engine thread's loop except what the DTE does (weak), a
thread in `PreparePacket` (weak: OPAL's media thread and the fake thread both call
in a loop), callbacks return (weak), fake threads start and stop (weak). Streams
need not open or close. `recv_live`: the engine thread's loop except what the DTE
does, and callbacks (weak). The remote party need not send anything. `threads`:
who holds a mutex goes on (weak), and a mutex that becomes free again and again
is not withheld for ever from a thread that waits with another one in its hands
(strong: pthread mutexes wake a waiter on unlock); the threads of a pty run
(weak), `bufOut` is emptied (weak: `fax_live`, `ReleasedSendAcked`). Nobody has to
enter the body or an engine, and the DTE need neither read nor write: `InPty` and
`OutPty` may stay in poll, but its timeout of 5 seconds lets them heed `stop`.

### Properties

Call control: `NoOrphanCall` a live connection is reachable through the call
token or a callback in progress; `NoLostWakeup`, `TimedWaits` no sleep through
work, no wait without a timeout, and none that begins with the
fired timeout of an earlier one; `CallScoped` waits, flags and timers belong to
the call that is up, and no new call comes in the window of `_ClearCall`;
`CurrentEngineValid` no pointer to a deleted engine; `ModemNotLost` the modem is
in the pool when nobody owns it; `CallTable` the documented transitions;
`AttemptEnds`, `HangupCompletes`.

Sending: `SendAgreement` the engine accepts what the body sends, and a body that
waits for an acknowledgement has one coming; `AckMeansSent` it gets it only after
its data went out or was abandoned in one of the two ways named below;
`NoLostOutWakeup` `PreparePacket` does not sleep through work;
`HeldInputSeen` input held back by a full buffer is looked at when there is
room; `WireOrder` the packets form T.38 signals; `FrameCompletes`,
`ReleasedSendAcked`.

Receiving: `BufferOwnership` `lastBuf` is `firstBuf` or in `bufQ` and still open;
`RecvAgreement` a body in `stRecvBegWait` is told, what it was told of (a buffer,
silence with its carrier) is there when it acts, and no engine state is left
behind that would refuse later commands; `NoLostRecvWakeup` data and ends are
read; `ReportTruthful` the response to AT+FRH, and a good FCS means a whole frame;
`ReleasedRecvEnds`, `EndedSignalReported`.

Locks: `TypeOK` with every mutex owned by the thread whose position says so;
`NoDeadlock` no set of threads that wait for each other; `CallbackAttached` no
callback of a detached engine; `CallbackEnds`, `DetachEnds`. Pty: `FreshSession`,
`NoSleepOnWork`, `SessionEnds`. Data: `InOrder`, `GapReported`; `ChunksLive` no
pointer to a deleted chunk, no chunk lost; `StreamIsQueue`, the refinement of
`ByteQueue`; `DleTransparent` both sides have the same bytes and end; `RoomKept` the
codes of `GetDleData` fit in the caller's buffer; `FramesKept`
frames and their FCS verdict survive packing and unpacking.

Known exceptions, each named in its property:

- `NoLostOutWakeup` excepts an aborted frame: `OnResetModemState` puts an end of
  data without `SignalOutDataReady` (t38engine.cxx:746);
- `AckMeansSent` excepts what the engine abandons (`Abandoned`): HDLC on a raw carrier
  is acknowledged unsent (t38engine.cxx:1316), and raw data sent as HDLC in which the
  look for the next frame meets an unaligned flag is given up and acknowledged
  (t38engine.cxx:1425). `SendAgreement` excepts the frames that follow on such a raw
  carrier, which the engine refuses (`Dropped`). Both exceptions are reached in
  `fax_send`;
- `HeldInputSeen` is about a `bufOut` with room. Abandoned data that fills it stays
  there: nothing empties it before the next `SendStart`, whose command is input, so
  the modem hears nothing more of the DTE in this call (pmodeme.cxx:1177);
- `FrameCompletes` and `ReleasedSendAcked` except the state `GivenUp`, see the hazard
  at t38engine.cxx:1425;
- `NoOrphanCall` is stated while the modem is owned once: a dial that fails after
  it made a connection gives the modem back twice (modemep.cxx:399 and 571);
- `CallbackEnds` excepts a hang-up in the rest of a dial command ("ATD...;H"):
  `_DetachEngine` then sleeps with the body's Mutex, and a callback in progress
  and the detaching wait for each other for ever (pmodeme.cxx:4159, 1616);
- `SessionEnds` excepts `Jammed`: `ToPtyQ` does not heed the stop of its own thread
  (pmodemi.cxx:187), so an `OutPty` that ended by a write error while both queues
  are full leaves everybody waiting.

### Findings

- `call_in_use`. The token of a confirmed dial is stored without a look at
  whether the call still stands (pmodeme.cxx:4061-4066). If the first route
  fails before the callback returns, the request of `~ModemConnection` has
  already set the alternate route (1483-1490) and the dead token makes `Request`
  refuse the alternate connection.
- `fax_abort`. A byte from the DTE between the buffer-empty callback and the
  `SendStop` it leads to aborts the frame: `ResetModemState` puts the end of data
  but leaves `stmOutMoreData`, and `PreparePacket` meets the state it takes for
  impossible (t38engine.cxx:1437) and returns 0.
- `recv_first`. `HandlePacket` ignores a no-signal as the "first indicator" of a
  stream, but `firstIn` is never cleared: t38engine.cxx:1875 tests `!firstIn` where
  audio.cxx:502 has `firstIn`. Any no-signal before the data of a signal is ignored.

## 4. Proofs

Eight modules have theorems. All invariants are proved the same way: an
inductive invariant, `Init => Inv`, `Inv /\ [Next]_vars => Inv'` with one step per
action, and the property from it.

`CallControlProofs` proves, for every set `Conn` of connections and every
`NoConn` outside it (`NoConnAssumption`, the only assumption), that call control
keeps `TypeOK`, `NoLostWakeup`, `TimedWaits`, `CallScoped`, `CurrentEngineValid` and
`CallTable`. None of them is inductive alone. The inductive invariant `IInv` is
`TypeOK` and `Safe`, whose parts say, for each position of the engine thread, what
the other threads cannot have changed:

- the hook: which positions are reached on-hook, off-hook or hanging up
  (`InvHook`, `HangingUp`), and that `lockReleasingState` is positive exactly
  inside `_ClearCall` (`InvRelease`). That no call comes in while one is cleared
  follows, since a call is only accepted in `cstCleared`, which `LastRelease`
  alone restores;
- the dial and answer windows (`InvDial`, `InvConnect`): which call and command
  states the requests may have left behind when the callback returns. This is
  where the rest of `CallScoped` comes from;
- the wakeups: `ReleasingSeen`, `StateSeen`, `InvWake` carry `ready` through the
  positions between `CheckState` and `WaitDataReady`, since a signal given while
  the thread is still busy must be kept; `InvTimed` does the same for the
  timeout. `TimedWaits` needs one thing more: a wait for the audio engine whose
  timeout is not started is never begun, since engines go in `OnHook` only
  (`InvAudio`).

`EngineLocksProofs` proves `TypeOK` (with `Ownership`), `CallbackAttached` and
`NoDeadlock` for any number of request threads, media threads and engines, from
`LockAssumption` (the threads are distinct). The invariant adds where `MutexOut`
is held (`OutScoped`). `NoDeadlock` then needs no induction over the set of
waiting threads: the owner of a mutex is at one of the positions that hold it
(`OwnerPosition`), owners of `Mutex` never wait, and the others wait only along
the order `MutexOut`, `MutexModemCallback`, Body, `MutexModem`, `Mutex`; so nobody in
such a set can wait for the last of these, nor then for the one before it, and so
on. `CallbackAttached` rests on `Detach`
being reached with `MutexModemCallback` in hand only.

`MediaSeqProofs` proves `InOrder` and `GapReported` for every `SeqRange`, `Window`,
`Reorder` and `Burst` within `SeqAssumption`, the values of the code among them, and
for any number of packets. The invariant `Aligned` says that
`currentSequenceNumber` is the number after the last handled one up to a multiple
of `SeqRange`; `PackedNear` is the arithmetic of the extension.

`PtyThreadsProofs` proves `FreshSession` and `NoSleepOnWork` for every size of the
queues and reads, and any number of restarts. `PtyInv` adds which children there
are at each point of `MainLoop` (`Children`), who can have what in its hands
(`Hands`), what a stopped session leaves (`Clean`), and `SeesInput`: from the look
at the empty queue to the sleep, input that came in between is signalled.

The last part of `CallControlProofs` proves `ModemNotLost` and `NoOrphanCall` on top of the
rest, from the same assumption. It counts claims to the modem: its places in the pool,
the connections that own it (`Owners`, a finite set by induction), and the dial
callback that has taken it out of the pool. Every step keeps their number or
raises it (`Kept`), so that the modem is never lost, and a modem owned once was owned
once in every state before. `InvOwners` adds that while it is owned once every
live connection is `Remembered`, by the token or by the engine thread in a
callback, and that during a dial the only owner can be the connection dialled.

`FaxSendProofs` proves `TypeOK`, `SendAgreement`, `NoLostOutWakeup`, `HeldInputSeen`,
`AckMeansSent` and `WireOrder` for any streams, fake threads, size of `bufOut` and
range of sequence numbers within `BoundAssumption`. The parts of its invariant:

- `InvBody` and `InvSend`: what the body sends is what the engine was told, and the
  engine accepts more exactly as long as the body has more (`Takes`), the frames
  dropped on a raw carrier excepted; while the body ends each of these by itself no
  old callback is on its way to it (`NoneFlies`). `SendAgreement` is not
  inductive without them, since `SendStart` and `SendStop` of a tone are two calls
  between which a media thread runs;
- `InvSeq`: a callback on its way is at most two sequence numbers behind `seq`, and
  two only while the engine has not yet answered the present one. With three
  numbers or more (`SeqMod >= 3`, 256 in the code) it is then taken for no other
  one, and with the callback of the present one everything is sent or `Abandoned`:
  this carries `AckMeansSent`. It rests on the bound in the guard of
  `OutSignalWait` (section 2);
- `InvOut` and `InvData`: which signal a state of the output belongs to, and that
  where `HDLC::GetData` has found the end of the data `bufOut` is empty and takes no
  more, an unaligned flag excepted;
- `InvWait` and `InvHeld`: what a thread saw before it sleeps is still so, or it has
  been signalled, through callbacks and the return from them;
- `InvWire`: the last packet as `stateOut`, `countOut` and a packet that waits for the
  end of a callback remember it. `last` is a history variable that a new owner
  resets.

`FaxRecvProofs` proves `TypeOK`, `BufferOwnership`, `RecvAgreement` and
`NoLostRecvWakeup` for any streams, modulations, lengths of frames and queues, from
`RecvAssumption` and `NullAssumption` (a null pointer is no buffer and no stream).
First come lemmas about the operations of `ModStream`: each keeps a stream `Sound`,
that is `lastBuf` is in it and open (`Owned`), the buffer after which none comes says
why (`Closed`), and the one that refuses a signal is the only one (`Alone`); what a
media thread does to it lets it only grow (`Grown`). `MediaStep` sums up every path of
`HandlePacket` by its `Outcome`: it calls back for what the body waits for or reads,
and leaves the rest. The invariant is `InvStreams` (both streams sound), `InvModem`
(what `modStreamIn` holds in each state of the engine), `InvBody` (where the body is in
a receive), `InvWait` (a wait has its answer in the engine, or on its way and true)
and `InvWakeup` (what the engine thread saw of its buffer is still so, or it will be
woken). The sequence numbers are told apart with the bound `NotLapped`; the depth
of the queues is `MaxQ`, any number, with `Room` as the guard that goes with it.

The second half of `FaxRecvProofs` proves `ReportTruthful`. Its invariant follows a frame from the
remote party's first data field to the response (`FrameInv`): the open buffer has
exactly the fields that the remote party has sent of its frame, or is marked
(`Follows`), every buffer with a good end is whole (`Honest`), only one of the two
streams is open (`InvFrames`); a signal that will begin after a callback has only
sent its indicator (`InvPend`, `InvLife`); and the buffer that is reported does not
change between `Recv`, `RecvDiag` and `RecvStop` (`InvReport`), although the Mutex of the
engine is free between them. `ResponsesTrue`, the response to AT+FRH, holds
whatever is lost. `ReportsTrue`, the frames in the queues too, is proved unless
`Ecm` and `Loses` both hold: `HandlePacketLost` marks V.21 only (t38engine.cxx:1609),
and a frame of a fast modulation that misses a packet is given a good FCS. The
run `recv_loss` is within that condition with losses, `recv_ecm` with fast frames.

`DataStreamProofs` proves `ChunksLive`, `StreamIsQueue` (the refinement of `ByteQueue`),
`DleTransparent` and `RoomKept` for every `ChunkSize`, `TmpSize` and `MaxCount` within
`StreamAssumption`, which asks that chunks and the buffer of `GetDleData` hold a byte, and
for any number of bytes (`MaxInput` is not used). What the loops of this code do needs
inductions, which the provers cannot take from the library's theorems with an operator as
a parameter. They are made in two ways that need none. `SetInduction` is induction with a
set of numbers in the place of a formula, proved from `WFMin`: a set with 0 that is closed
under the successor has all of Nat. And a recursive function satisfies its equation because
one exists (`PutDataLoops`, `ReadLoops`, `PutDleLoops`, `DoubledLoops`, `GetDleLoops`,
`MeaningLoops`): the set of n for which there is one up to n is all of Nat. The argument:

- `StreamOK`, the shape of a stream between two bytes: the addresses of the chain are
  distinct, they are the heap's, `lastBuf` is the last (`Linked`); all chunks but the last are
  full and only `firstBuf` has been read from (`Filled`); as many bytes are unread as `busy` says
  (`Counted`). Byte p of such a chain is in chunk p \div ChunkSize (`Place` to `PlaceOrder`);
- one byte written or read, a chunk deleted, dequeued or made, keep `StreamOK` and do to
  `Content` what a queue does (`DeleteKeeps`, `ToReadKeeps`, `TakeByte`, ...), so whole calls do
  too (`PutDataAdds`, `GetDataTakes`); a call on a stream with bytes takes at least one, and
  one without leaves the stream alone;
- `Meaning` reads codes from the front, but codes are made at the end. `MeaningAppend` says what
  one more code does to it, by induction over the codes before it. `PutDleMeans` and
  `DoubledMeans` follow a call with it, code by code, and `GetDleTakes` the passes of
  `GetDleData`, with `TurnFits` for the room they leave;
- `StreamInv` is `StreamOK` and `DleTransparent`; every action keeps it and is a step of `ByteQueue`
  (`StreamStep`).

`HdlcProofs` proves `FramesKept` for frames of any bytes, any length and any number, and for any
number of flags at the start but none, from `HdlcAssumption` (`MaxFrame` and `MaxFrames` are not
used). Its loops and inductions are made as in `DataStreamProofs`, over the bits of a frame:

- `Restored`: unpacking what was packed gives the data back with the same count of ones, and
  unpacking a part of it gives a part of the data. It is kept by one more bit, with the stuffed
  zero or without (`RestoredNext`), so it holds for all data (`RestoredAll`);
- `StuffedOnes`: stuffed data has no six ones in a row and ends with four at most. So no flag
  is found within a frame or across its end (`NoFlag`), but one at its end (`FlagAtEnd`), at
  any offset in the raw bytes; flags come one after another (`TakeFlag`);
- `FcsSentIs`: the FCS that `GetRawData` sends is the right one unless it marks the frame as bad.
  `FrameIs`: when all of a frame has been unpacked, its bytes have come out, the last two are
  in `hdlcChunk`, and `isFcsOK` is true for the right FCS alone;
- the invariant `FramesInv`: what is on the way (`Wire`: the bits left in the unpacker, the line and
  the bits left in the packer) is a run of flags, then what is not yet unpacked of one
  stuffed frame, then two flags if that frame has ended; the unpacker is where the part
  before takes a fresh one (`After`). That frame is the one being packed, or the last sent
  (`OfFrame`, `OfSent`). `FramesKept` alone is not inductive: it says nothing of the bits
  that are on the way.

Only model-checked. All liveness (`AttemptEnds`,
`HangupCompletes`, `FrameCompletes`, `ReleasedSendAcked`, `ReleasedRecvEnds`,
`EndedSignalReported`, `CallbackEnds`, `DetachEnds`, `SessionEnds`), since fairness is
outside the prover's reach. The other way about, `TypeOK` of `FaxRecv`
is proved and in no run. The properties of the three violation runs are false.

## 5. Plan

Done: all modules of the first plan, one refinement, and proofs of every safety
property. Next:

1. Abstract specifications: a call service (`idle`, `ringing`, `active`, ...)
   implemented by `CallControl`; a frame service (give, end, acknowledge)
   implemented by `FaxSend`.
2. Several modems in the pool with routes (`DequeueWithRoute`).

Not modelled and not planned: the vendored libraries, which are nearly all of
the repository's lines (`src/opal`, `src/ptlib`, `src/spandsp` with generated ASN.1
code and codecs) and not this program's logic; command-line and codec
configuration (`opal/manager.cxx`, `opal/h323ep.cxx`, `opal/sipep.cxx`,
`main_process.cxx`), which keep no state of their own; the OpenH323 variant
(`h323lib/`) and the Windows driver (`drv_c0c.cxx`), which this build leaves out;
sample processing (`audio.cxx`'s buffers, `g711.c`, tone generators), numeric code
without control; the T.30 observer, whose one answer is taken both ways.
