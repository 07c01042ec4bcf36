# Formal models of rdsclock

rdsclock recovers UTC from the Clock-Time (CT) that FM stations broadcast over
RDS. It tunes one or several `rtl_tcp` receivers, decodes the stations it finds,
and combines their clocks into a consensus. This directory holds TLA+ models of
the parts whose correctness depends on the order of events (threads, signals,
failures, late reports) or on a computation that is easy to get subtly wrong, the
TLC runs that check them, and TLAPS proofs of the most important properties for
every size: any number of receivers, pages, requests and signals, any length of a
run, any buffer and any deadline.

Paths below are relative to the repository; the package is `src/rdsclock`.

## Inventory

| Component | State | Operations | What is hard |
|---|---|---|---|
| `rtl_tcp.RtlTcpClient` | socket, handshake socket, `_interrupted`, `info`, a lock | `connect`, `close`, `interrupt`, commands, `capture_fresh` | `interrupt` from another thread in any window of `connect`; dating a capture that was queued; deadlines |
| `recon._MultiReceiverRun` | slots (client, connecting, watchlist, counter), threads, `_stopping`, iteration | `_loop`, `_in_parallel`, `_connect`, `_acquire`, `_maintain`, `_report`, `_stop` | threads per phase, failures midway, reconnection, a stop at any moment |
| `recon._Outbox` | a queue | `worker`, `finished`, `write_until_finished` | sentinels, order, what is dropped |
| `recon.run_recon` | watchlist, iteration, rescan time | acquisition, maintenance, completion of a cycle | every interruption must end the stream properly |
| `cli._write_event_line`, `_RescanRequests` | the SIGINT mask; two counters | write a record; count and consume SIGUSR1 | half a record; a lost request |
| `time_consensus.TimeConsensus` | tracks with observations, trust, status | `record`, `consensus`, `sub_second_consensus` | late reports, expired votes, repeats of one programme, medians |
| `recon` scan and hop functions | none | `quick_scan_band`, `hop_collect_ct`, `wide_scan`, `wide_collect_ct`, `_record_station` | which result counts as an observation |
| `ct_policy` | rules | `interpret` | local times that a zone skips or repeats |
| `rds_blocks`, `rds_groups`, `rds_clock` | `StationInfo`: candidates and confirmed PI, PS, RT | search of groups, parsing, CT conversion | overlapping starts, confirmation, dates |
| `decoder` | one decode attempt: positions, counts of clean and corrected groups | windows, attempts at each, order and times of the groups | two axes, groups across windows, the better attempt |
| `channelizer`, `dsp` | none | `decode_channels`, `choose_center`, filters, timing | floating-point signal processing |
| `dashboard.DashboardState` | phase, watchlist, hops, identities, consensus | one handler per record, `view` | stale caches, expiry of the shown estimate |
| `dashboard.ReceiverProcess`, `tui.ReconChild` | the child process and its readers | `start`, `send_signal`, `stop`, `join` | exit against stop, signals to a child that has just ended |
| `web`, `gui`, `tui` | version and condition variable; polling queue | streams, rescan, close | lost wake-ups, handlers in the thread that holds a lock |
| `synth`, `plot`, `audio`, `i18n`, the rest of `cli` | none | offline commands, text, pictures | nothing that depends on order |

How they interact: the loop (`run_recon`, or `_MultiReceiverRun` when the HOP list
names several receivers) owns the clients and calls the scan and hop functions,
which record into the `TimeConsensus` and report `ReconEvent` values through
callbacks. `recon --jsonl` writes them as lines on its standard output. The
dashboards start that command as a child process, read its lines into a
`DashboardState`, ask for a scan with SIGUSR1 and stop it with SIGINT. With
several receivers the scan and hop functions run in one thread per receiver; they
share the consensus (under `consensus_lock`), the slots (under `_slots_lock`) and
the outbox, and only the thread that runs the loop writes.

What makes each of them correct:

- connections: none is lost, none outlives the run, and a stop wakes every reader;
- the loop with several receivers: phases do not overlap, what is written follows
  the consensus, a failed receiver takes its stations with it, a run and a stop end;
- the loop with one receiver: the stream of records is in order and whole, no
  request is lost, and the records say how the run ended;
- the consensus: one vote per programme and per receiver's channel, no minority
  decides, and a level is earned by distinct confirmed stations, which are recent unless
  a recent station that is not confirmed contributes too (see "Noticed without a run");
- captures: a capture is whole pairs, its first sample is never dated earlier than it
  or the read can be, one that says so is dated to one transfer, and it ends in time;
- decoding: a group with one flipped bit in a block is repaired as sent (two in one block
  may be miscorrected), no group is counted twice, what is shown of a station is of one PI, and its local times are read as the
  zone's clocks show them;
- front ends: what they show is what the stream says, a child whose handle they have
  is stopped, and one that is lost ends when it next writes.

## Modules

| Module | Role |
|---|---|
| `ReceiverConnect` | who owns each connection: `_connect`, `RtlTcpClient.connect/interrupt/close`, `_report`, `_stop` |
| `FreshCapture` | `RtlTcpClient.capture_fresh` against a receiver that queues, as the replay server of `tools/` does |
| `ReconStream` | abstract: what the stream of records promises, whoever writes it |
| `MultiReceiver` | `_MultiReceiverRun` and `_Outbox`; implements `ReconStream` |
| `ReconLoop` | `run_recon` with one receiver, `_write_event_line`, the signals; implements `ReconStream` |
| `RdsBlocks` | a group as four blocks: check words, correction, whether a group starts |
| `GroupSearch` | windows, attempts and starts: which groups a capture is cut into |
| `RdsClock` | `encode_clock_time` and `decode_clock_time` |
| `StationInfo` | what the groups say of a station: PI, name, radio text, Clock-Times |
| `CtPolicy` | the rules of `--ct-timezone` and the reading of a local time |
| `Decoding` | composes the previous five: from bits to the Clock-Time that may enter the consensus |
| `TimeConsensus` | `TimeConsensus.record`, `consensus` and `sub_second_consensus` |
| `FrontEnd` | the browser dashboard and its child: `run_web`, `WebDashboard`, `_Handler._stream`, `ReceiverProcess` |
| `Desktop` | the desktop window and the terminal dashboard: polls, counted signals, pause, stop |
| `Dashboard` | `DashboardState`: what the rows and the progress show of a run |
| `MultiReceiverProofs`, `ReconLoopProofs`, `DecodingProofs`, `TimeConsensusProofs`, `FrontEndProofs`, `DesktopProofs`, `DashboardProofs` | the theorems about the module they are named after |
| `ConnectionProofs` | the theorems about `FreshCapture` and about `ReceiverConnect` |
| `MCReceiverConnect`, `MCMultiReceiver`, `MCDecoding`, `MCTimeConsensus`, `MCDashboard` | model values for the runs |

How they fit together. `ReconStream` is the interface: both loops write it, and both
are proved to implement it. `ReceiverConnect`, `FreshCapture`
and `MultiReceiver` are three views of a receiver: the first has the sockets and the
steps of a stop, the second the bytes and the deadlines of one capture, the third the
records, phases and watchlists. What a capture gives is `Decoding`, and what a
Clock-Time is worth is `TimeConsensus`. `FrontEnd` and `Desktop` see the child as
`ReconLoop` seen from outside, by its lines and by what a signal does at each stage of
its life; `Dashboard` sees the run as `MultiReceiver` reduced to what the records say.

Some modules hold operators introduced by a comment `Mutant:` just before the
definition that they vary. No specification uses them: replacing the definition
by its mutant must make TLC report the property that it is listed with in
`PROJECT.json`, which shows that the property depends on what the code does there.

### ReceiverConnect

One action per critical section or blocking call. `thread[r]` is the control point
of receiver `r`'s thread. `ConnectBegin` is the first critical section of
`_connect`, `CreateConnection` to `DropSocket` are the steps of
`RtlTcpClient.connect` (the socket is owned, the header is read, the socket is
adopted under the client's lock, `info` is set; or the except clause closes it),
`HandOver` is the second critical section of `_connect`, and `CloseOrphan` the
close of a connection that completed after the stop. A reading thread is
`TakeClient`, then `FinishReading` or `FailReading`: what it reads is abstracted,
but not that a failed capture closes its socket in its own thread while a command
that cannot be sent does not. `main` is the control point of the thread that runs
the loop: phases (`BeginPhase` to `AllReported`), and `_stop` as five stages, with
`interrupt` split into the part under the client's lock (`StopInterrupt`) and the
shutdown after it (`StopShutdown`). Ctrl+C leaves the loop anywhere and stops
twice (`stopsLeft`); an error stops once.

A client object is the fields that it holds for its slot's current attempt. The
operating system's view is two sets: `live` (open sockets) and `shut` (shut down).
Opening a socket for a slot whose previous one is still open would lose it, and
`NoAbandonedSocket` says exactly that this cannot happen.

Not in this module: the bytes, the deadlines, what a capture contains (these are in
`FreshCapture`). A wait with a timeout is a step that may happen at any time.

### FreshCapture

The unit of time is a sample period, and a byte is its number since the connection was
made: byte `2s` is the I and `2s + 1` the Q of sample `s`. The server is
`tools/replay_rtl_tcp.py`, which imitates `rtl_tcp`: `Load` reads the next transfer
once its last sample exists, `Send` is `conn.send` with what room there is (which may
split a sample), `Drop` discards what does not fit the queue, in whole samples, and
`Shutdown` and `Silence` are the two ways in which a receiver stops: with a FIN and
without. The client's steps are `_discard_until_quiet` (`DrainRecv`, `DrainEnds`,
`DrainEof`, `DrainTimesOut`) and `_read_capture` with `_recv_before` (`ReadRecv`,
`ReadEof`, `ReadTimesOut`, `ReadTooSlow`). `BoundOf` is the latest moment that the
first sample can date from given one read, `Earliest` keeps the lowest, and `Judged`
is the judgement whether the capture began behind and caught up.

`Tick` lets time pass. It may leave something undone that could be done, a stall of
this computer or of the link, only `MaxStalls` times: without that bound no deadline
would mean anything. `first` and `last`, the bytes that the capture read, are history
variables.

Not in this module: `recv` with an error other than a timeout, which ends the capture
like the end of the stream; the conversion of the bytes to samples.

### MultiReceiver

`pc` follows `run()`, `_loop` and `_complete_cycle`, including the handler of
KeyboardInterrupt and the finally clause; `Interrupt` raises it between any two
steps. A record is one step, because SIGINT is held while it is written (the model
of that is in `ReconLoop`). `Publish` raises once the reader is gone. Threads take
their steps in `Connected`, `ScanStation`, `ScanEnds`, `HopCapture`, `HopRecord`,
`HopReport`, `HopEnds` and `JobFails`; `HopRecord` takes the consensus lock and
`HopReport` releases it, so that another thread's steps can fall in between.
`outbox` is the queue, `Finished` its sentinel.

The stations of a receiver are interchangeable here, so a watchlist is their
number, and what a slot counted is a set of pairs of the slot and a number
(`Observations`), whose size is the sum that `_maintain` returns. `recorded` (the order in which this pass's results entered the consensus)
and `told` (the results written) are history variables, as are the variables of
the stream.

### ReconLoop

One thread. `Write` blocks SIGINT and writes part of a line, `FinishWrite` the
rest and unblocks it, where a held SIGINT is delivered. `Raised` is the exception
path: inside the `with` block the receiver is closed first, KeyboardInterrupt is
handled only in the try block, and nothing is handled inside the handler.
`BeginIteration` and `Consume` are the two halves of `_RescanRequests.consume`,
between which SIGUSR1 may arrive. `mode`, chosen in `Init`, is
what the configuration selects: a band scan, a list of stations or wide captures. `owed`
is a history variable: a request came and no acquisition has begun since.

### ReconStream

The records in the order in which a consumer may receive them, with the iteration
each carries, and `new_observations` of `cycle_completed` equal to the number of
`hop_result` records of that pass whose CT entered the consensus. A receiver may
fail at the start, at the reconnection that begins a cycle, or in a phase, and
nowhere else. `recon_stopped` comes after the last cycle or anywhere on Ctrl+C; it
may come twice (see Findings). `MultiReceiver` refines it with `entered` computed
from what it wrote, `ReconLoop` with variables of the same names.

### TimeConsensus

Times are minutes, an observation is its reception time and the offset of its CT
from the monotonic clock, so that `now` cancels out of the differences between
estimates. Medians are counted in half minutes, trust in twentieths: the 90 s
threshold is 3, a penalty of 0.4 is 8, a bonus of 0.05 is 1. `Added` is the sorted
insertion with its trim, `Candidates`, `Vote`, `Kept` and `Selections` are the
stages of `_distinct_source_tracks`, `Median`, `Mad`, `MedianAge` and `TrustLevel`
those of `consensus`, `Classified` the update of each track. A tie between two
tracks of one PI is decided in the code by the order in which a dictionary was
filled; the model allows either (`Selections` is a set). `uncertainty` is
`max(mad / 2, median_age * 50 ppm, 1 s)`; for a median age below two minutes only
the first can reach the 30 s of the level HIGH, which is a MAD of one minute. Two
receptions of one receiver on one channel have different times.

`SubSecond` is `sub_second_consensus`: how late each reception was by the host's wall
clock is counted in seconds and taken modulo a minute, a station's latency is the
median of those phases (`Learned`), and the estimate the median of the stations'
latest calibrated receptions. `Limits` is a set of bounds, each of them a question
with its own channels, programmes, offsets and lateness; `Init` chooses one.

### Decoding

`Decoding` is one capture. First `Noise` may flip bits of a group (`RdsBlocks`); then
`GroupSearch` cuts the capture into groups, window by window (`Attempt`, `EndWindow`,
`EndSearch`); then each group is one that a station sent (`ParseGroup` of
`StationInfo`); and the latest Clock-Time is read by the rules (`Zone`,
`Interpretation` of `CtPolicy`).

- `RdsBlocks`: words, blocks and registers are the sets of their bits that are 1, and
  exclusive or is the symmetric difference. `Crc10` and `EncodeBlock` give a word its check bits,
  `ErrorPosition` finds the single bit whose flip makes a block valid, `Starts` and
  `Words` what the search says of a place where a group was sent.
- `GroupSearch`: what an attempt sees at each place (no group, a clean one, one with a
  corrected block) is a choice; how starts that overlap are resolved, which attempt
  wins, where the next window begins and how positions on the reversed axis are turned
  into places on the capture are the code's. A capture that is `clear` shows group after
  group, for the captures whose question is what comes after.
- `StationInfo`: characters are codes, names are of `PsSegments` segments and texts of
  `RtLen` characters. Each group also carries what was encoded (`sent`), which the
  parser does not see and the properties compare with.
- `RdsClock`: an instant is a number of minutes since the epoch of the day number.
- `CtPolicy`: a zone is the sequence of its changes; `zoneinfo` is external. A policy is
  the set of the rules that are kept, by their places in the order given.

Not in these modules: the symbols themselves, their timing and the pilot (whether it
was found is a choice, `timed`), the fallback without a pilot.

### FrontEnd

`main` is the control point of `run_web`: `popen`, `spawned` and `listed` are
`ReceiverProcess.start` (the process exists, its reader threads are in `_threads`,
they run), `serving` is `serve_forever`, and `close`, `stop`, `wait` and `join` are
`WebDashboard.close` with `ReceiverProcess.stop` and `join`. `Interrupted` is Ctrl+C
or SIGTERM, which in a terminal also reaches the child and which may come in the
middle of `Popen`, where the handle of the child is lost (`process` stays FALSE).
`InterruptedAgain` tears the main thread out of its clean-up: Ctrl+C with a traceback, a
second SIGTERM or a SIGUSR1 outright, because `run_web` has restored their handlers.

`OnLine` and `OnExit` are the thread of `_follow`: a line is applied and published,
the end of the stream and the exit status are judged. `child` is the stage of the
child: it arms its SIGUSR1 handler, writes `recon_started`, records and
`recon_stopped`, disarms and exits, or fails; a SIGINT held for it is taken at any
stage. The pipe holds `PipeSize` lines and blocks the child when it is full.

What happens under the lock of `changed` is one step, except a rescan request
(`RequestRescan`, `SendRescan`), which holds the lock while the child may move. An
open page goes round `CheckClosing`, `Snapshot`, `WriteView` and `WaitForChange`;
`Tick` is the timeout of `wait_for`, and no property of a page relies on it.

Not in this module: which requests are refused for their headers, the page, the
text of the view; the terminal and desktop dashboards (these are in `Desktop`).

### Desktop

`front` says which dashboard it is; both run in one thread, whose control point is
`ui`. In the window, `QueueLine` and `QueueExit` are the thread of the reader, `Poll`,
`Drain`, `DrainEnds`, `TakeSigInt` and `TakeSigUsr1` one round of `_poll`; a signal
only counts (`received`), and a round marks the count that it saw (`handled`). In the
terminal, `FollowLine` and `FollowExit` are the coroutine that follows the child, which
goes on while another one stops it (`BeginStop`, `StopEnds`, `Leave`). The messages of
the log are numbers; `Apply` is `apply_line`, `exit_failed` and `receiver_exited`;
`TogglePause` and `Rescan` are keys. `late` and `pausedAt` are history variables.

Not in this module: widgets, focus and layout; a line that is too long for the
terminal's reader; a second `q` while the first one stops the child.

### Dashboard

One action per record, named after its handler; `FirstIteration` is the step of the run
from `recon_started`, and the failures of the first connection that follow it, to its
first cycle. The run that writes the records is
reduced to the receivers that work or failed (`up`, `todo`, `broken`), each one's
stations in the order it hops through them (`lists`, `passDone`), and the tracks of
the consensus (`recorded`, `heard`, `freshest`). `Listings` are the stations of each
receiver, one such function per run; one receiver with stations is the run of
`run_recon`. On a tuning any of its `Transmitters` may answer, and a PI may also
stay unconfirmed.

The state of the dashboard is that of `DashboardState`: `watchlist` (kept by receiver,
as `_parallel_hop_progress` groups it; the order of the receivers in it says nothing),
`hops`, `lastCt` and
`identity` per row, `tracks` (`tracks_by_pi`), `latest` (the freshest track of each
tuning), the consensus' `contributing` and `outlying` tunings, the counters of a
pass and the failed receivers. `ShownPi`, `ShownCt`, `ShownTrack` and `ShownStatus`
are the cells of `_row` and `_station_status`, `Recording` the station named by
`_hop_progress` and `_parallel_hop_progress`. A report later than the latest track's
may come from a receiver whose reception was earlier, so `Enters` lets `freshest`
stay whenever there are several receivers: more behaviours than the run has.

Not in this module: the messages, the progress of a wide capture, the clock that
extrapolates the estimate and expires it, the rescan countdown, malformed records.

## Runs

| Run | Bounds | Distinct states | Shows |
|---|---|---|---|
| `receiver_connect` | 2 receivers, unbounded phases | 12,511 | ownership, waking, handover, ends of stops |
| `multi_receiver` | 2 receivers with a station each, 2 cycles, 1 failure, 1 SIGUSR1, 1 Ctrl+C, reader may close | 1.3 million | queue, phases, watchlist, `ReconStream` |
| `multi_receiver_ends` | 1 cycle, 2 failures, 1 SIGUSR1, 2 Ctrl+C | 176 thousand | a run ends; a stop ends even when its receivers hang |
| `recon_loop` | three modes, 2 tunings, 1 station kept, 2 cycles, 2 SIGINT, 2 SIGUSR1 | 474 thousand | records, requests, ends, `ReconStream` |
| `fresh_capture` | captures of 13 samples after up to 10 idle ones, transfers of 1, a queue of 8, a file of 5, 3 bytes on the wire, a link of 2 samples per period, 2 stalls | 1.3 million | pairs, dates, deadlines |
| `decoding` | 2 flipped bits; streams of 8, 10, 16 and 19 symbols in windows of 7, 2 attempts, 3 candidate starts; 6 groups of 2 programmes; 3 zones, 5 sets of rules | 685 thousand | repair, places, stations, local times |
| `consensus` | three questions: 3 channels with 3 programmes and 3 offsets; 4 late reports of 2 receivers on a channel; 6 reports of 2 stations with 2 latencies | 1.2 million | votes, median, level, late reports, sub-second |
| `sub_second_wrap` | 2 stations a second before and after the minute | violation | finding 2 |
| `front_end` | 1 page, 1 requester, pipe of 2 lines, 1 record between start and stop, 2 rescans, 2 Ctrl+C | 77 thousand | wake-ups, exit status, rescans, ends |
| `front_end_interrupt` | 2 Ctrl+C | violation | finding 1 |
| `desktop` | both dashboards, a log of 2, pipe of 2, 1 record, 1 signal of each kind, 3 keys | 231 thousand | log and pause, exit status, signals |
| `dashboard` | 2 receivers, 2 tunings, 2 programmes, 2 cycles, 1 failure | 2.5 million | rows, progress, failed receivers |

Why these bounds are enough. Two receivers are every pair of threads, and every
property of the connections relates a receiver to the thread that stops; the
proofs lift the bound. Two cycles are the first one, which connects and scans, and
a later one, which can reconnect, keep its watchlist or be asked to scan. Two
Ctrl+C are one in the loop and one while the first is handled.

The wire of `fresh_capture` holds three bytes, so that reads split samples; ten idle
periods overflow the queue and wrap the file; the window of the judgement (three
segments of two periods) fits in the capture with room for a backlog before it; two
stalls are one that builds a backlog and one that hides how it drains.

In `decoding` two flips are one more than the search corrects; one stream is swept
whole and one window by window, and three candidates are a corrected start with a
clean one on either side; six groups are twice the confirmation threshold, so that
either PI can become dominant and lose to the other. The instants of the Clock-Times are
before, in and after the hour that a zone skips or repeats, in the day that one zone
skipped, and at both ends of the range of days with the largest offsets.

Three stations are the least for which HIGH is possible and for which two can outvote
one, and offsets 0, 1 and 60 minutes are: equal, within the threshold, and a station
that sends local time as UTC. A reception expires after five minutes, and the second
question of `consensus` runs to the sixth. Three receptions are what a latency takes.
Pages of the front end share nothing but the notification, so that one of them shows
what each sees; the proofs hold for any number. A log of two overflows in a pause of
three messages. The runs of `dashboard` cover one receiver, two that share a tuning
with two transmitters, and a tuning on which no PI is ever confirmed; the second cycle
is where the rows of the first are stale. Deadlock checking is off everywhere: each of
these systems may stop (a run that is over, a bound reached).

Every module with a state of its own has a type invariant, `TypeOK` (`ConnectTypeOK` in
`ReceiverConnect`), except the abstract `ReconStream`. All of them are proved, each with
the bounds that it states.
The inductive invariants of the proofs were checked by TLC on the bounds of the runs
before they were proved.

Fairness. `ReceiverConnect` assumes that each thread that can take a step
eventually does: the loop's thread never waits without a bound except for the
receiver threads, and these are bounded by `connect_timeout`, `read_timeout` and the
capture grace (`_capture_grace_s`), so that no call of theirs blocks for ever.
`MultiReceiver` assumes it of the loop's thread only; `RunEnds` adds it for the
receiver threads as its premise (`ReceiversAnswer`), `StopIsBounded` does not,
because it claims that the stop does not depend on them. The consensus lock is held
only for steps that do not block. Writing to a reader that stops reading does block,
without a bound; a run need not end then, and `RunEnds` speaks of a reader that
reads or closes. `FrontEnd` assumes that its own threads run and that an open page
reads what it is sent; the child owes nothing, except in `ChildDoesNotOutlive`, which
speaks of a child that is not stuck. `wait_for` is never assumed to time out, and
signals, failures, pages that come or go, and a reader that closes are never assumed
to happen. `Desktop` assumes that the dashboard's one thread runs (Tk's `after` and
asyncio's loop call it), and of the terminal also that the loop's signal handler is
called; the child, the reader thread and the user may stop for ever. A poll goes on while
the queue holds anything, so that a child which always writes faster than a poll applies
its records would keep it from the signals: `SignalsAreServed` has the premise
`QueueGivesOut`, which the bound of the run makes true and the code relies on.
The other modules are checked for safety only and assume no fairness.

## Proofs

The second part of `ConnectionProofs` proves, of `ReceiverConnect`, for any set of receivers:

- `ConnectionTypeCorrect`; `NothingAbandoned` (`NoAbandonedSocket`), `ReadersAreWoken`
  (`BlockedReadersAreWoken`), invariants of the run `receiver_connect`;
- `AllClosedInTheEnd`: nothing is open when the run and its threads are over;
- `HandedOverUsable` (`HandedIsUsable`): a slot that has a client has its device
  information too (`_loop` reads `client.info` of every client), and, until a stop, an open
  socket, unless its failure is still to be reported before the next phase.

No assumption is needed. None of these properties is inductive: `NoAbandonedSocket`,
for instance, survives a reconnection only because a slot that is connecting has no
client, and `BlockedReadersAreWoken` survives a late connection only because every
client that `_stop` did not see will see `_stopping`. The inductive invariant
`ConnectionInv` adds these parts to the type invariant:

- `Ownership`: which of the fields are set at each control point of a thread, and
  that an open socket is held by the client or by one of the steps that still close it;
- `Stopping`: what each control point of the loop's thread implies (no thread runs
  between phases, `_stopping` is set from the first critical section of `_stop` on);
- `Collected`: once `_stopping` is set, each client in a slot or connecting has been
  interrupted or is about to be;
- `Interrupted`: an interrupted client that a thread can wait on has its socket shut
  down or about to be.

`InitConnection` and `NextConnection` show that it holds at first and is kept by every action,
one case per action; each theorem then follows from it. `HandedIsUsable` needs one part
more, inductive relative to these: `Connected`, that whoever closes a socket of a client
makes the client forget it (`NextConnected`).

Its first part proves, of `FreshCapture`, for every size of transfers, buffers, queue,
recording and capture and every timeout:

- `TypeCorrect`, and `EndsInTime` (`CaptureIsBounded`);
- `WholePairs` (`PairsAreWhole`) and `DatedNoEarlier` (`NeverDatedTooEarly`), both from
  `StreamCorrect`;
- `FreshReadsDate` (the action `AFreshReadDates` of every step): one read that ends with a
  sample no older than a transfer and the jitter dates the whole capture to that, whatever
  queued before it, if nothing was lost until then, and no later step of the capture undoes
  it. What `CaughtUpIsDated` adds, and what is left to TLC, is that the arrivals which
  `_arrived_in_real_time` accepts contain such a read.

Its assumptions are `SizesAssumption` and `TimesAssumption`: what the constructors and
`queue_problem` refuse. `StreamInv` is the strengthening: the bytes on the wire and
those still to be sent are an increasing sequence, each `at` most the bytes that exist
by now; its parity is in step with what the client discarded (`odd`) or received. A
drop leaves a gap in the sequence but of whole samples, which is why parity survives it,
and a byte that arrives at a time bounds the sample that it belongs to, which is why the
earliest bound is never before the first sample. Lemmas about sums, halves and parity
are stated once and cited.

`ReconLoopProofs` proves, for every length of a scan, a watchlist and a run, and any
number of signals:

- `LoopWritesTheStream` (`StreamInOrder`): `ReconLoop` implements `ReconStream`. Under
  the refinement mapping, which takes the stream's variables for those of the same
  names, the initial states map to initial states, and each step to a step of the
  stream or a stutter;
- `RecordsAreWhole` (`NoRecordIsTorn`), `RequestsAreServed` (`NoRescanIsLost`),
  `EndsAreTold` (`RunsSayHowTheyEnd`).

They rest on `LoopCorrect`, with `NumbersAssumption` of the module. Its `IInv` has three
parts: the type invariant; `Flow`, which says at each control point what stage the
stream is in, what the counters of the pass are, and which record is the next one
(`AtPoint`, `Sends`): that no record is written out of order holds because of where the
loop is; and `Masking`, which relates a record that is being written to the mask and the
SIGINT held: that none is torn holds because the exception is raised behind the last
byte. `Requests` and `Ends` strengthen the last two.

`MultiReceiverProofs` proves, for any number of receivers, stations, iterations and
interrupts, whatever fails and however the threads of a phase interleave:

- `TypesHold` (`TypeOK`), `PhasesNeverOverlap` (`PhasesDoNotOverlap`) and
  `WatchlistAlwaysFollows` (`WatchlistFollowsReceivers`);
- `ReportsKeepOrder` (`ReportsFollowConsensus`): the results are written in the order in
  which they entered the consensus, each in its place;
- `ImplementsReconStream` (`StreamInOrder`): `MultiReceiver` implements `ReconStream`,
  with `entered` computed from the results written.

Its assumptions are `SlotsAssumption`, `ListedAssumption` and `BoundsAssumption` of the
module. All five follow from `Inductive`, which proves `Inv`: the type invariant and

- `Flow`: where the loop is, what stage the stream is in, and with which iteration;
- `Threads`: a thread that has not ended belongs to the phase that is running, at a
  step of its job, and the lock's holder is the one that recorded last;
- `Sentinels`: the loop still waits for as many sentinels as there are threads that have
  not ended and sentinels queued, and an item at the end of the queue that is no
  sentinel was queued by a thread that has not ended. A phase therefore ends with an
  empty queue, which makes `PhasesDoNotOverlap` inductive;
- `Stations`: a receiver with a watchlist is connected, and one without is checked
  before a pass;
- `Hops`: in a pass, the results of a receiver that are written, queued and still to
  come are its watchlist, and the observations counted in the slots are as many as the
  results with an observation that are written or queued. With an empty queue these are
  the two sides of `new_observations`.

The order needs one part more, `OrderStep`: the i-th result in the queue is the one that
entered the consensus as many places behind those written, and a thread that has recorded
but not yet queued a result (it holds the lock, so there is one at most) owes the last of
those that entered. That the queue is filled under the consensus lock is what keeps it.

Lemmas about counting in a sequence (`CountAppend`, `CountTail`), about the results up to
a place of the queue (`UpToAppend`, `UpToTail`) and about the pairs of `Observations` are
stated once and cited.

`DecodingProofs` proves, for captures of any length, windows and groups of any size and
any number of attempts at a window, whatever each attempt sees:

- `GroupsAreInPlace` (`GroupsKeepTheirPlace`), an invariant of the run `decoding`;
- `ReadExactly` (`ReadingIsExact`), another, for any zones and any rules;
- `RepairedCorrectly` (`RepairedAsSent`), a third, for any words of any group;
- `StationShown` (`StationIsTrue`), the fourth, for any groups of any PIs, whichever PI was
  set, names and texts of any length (from `PayloadsOfOnePI`);
- `TypeCorrect` (`TypeOK`), for any set of PIs;
- `DecodedAsEncoded`, about `RdsClock`.

Its assumptions are `SearchAssumption`, `StationAssumption`, `CapturesAssumption`,
`ZonesAssumption` and `FlipsAssumption` of the modules. `ZonesAssumption` says that each
change of a zone begins with the offset that the one before it left, and that the hours
which two changes skip or repeat do not meet; all zones of the IANA database are such.
`FlipsAssumption` says that noise flips at most two bits of a group, which the property
speaks of: three flips of one block may leave what a single one would.
`CapturesAssumption` says that the words of a Clock-Time group are those that were encoded
or, for a dummy, say no Clock-Time (`WordsAsSent`); a day that a Clock-Time may not name is
encoded too, and must not be shown.

The places of groups. `Greedy` says what the scan from left to right emits: a start is
taken if and only if it begins behind every earlier one that was taken. `GreedyExists`
shows that there is such a choice among any starts (the least number of places without one
has a place less, which has one), and `EmittedProperties` that the groups are apart and
that what displaces a clean start is clean. `RankedProperties` is about putting numbers in
order by how many are smaller, which is how the model lists the groups. The inductive
invariant has five parts: `Tries` (the best attempt is one at this window), `Places` (every
group is read from the bits behind its position, within the capture; any two are apart; in
a capture that is cut into windows they are in order and end before the window that is
searched), `Stations` (what is counted was received), `Readings` (what is shown, which
is the payload of the PI counted most, has Clock-Times that can be read, and no two rules
for the same stations name different zones) and `Noisy` (the words are words, and one bit
or two were flipped, if any).
`InOrderProperties` and `NewProperties` carry what an attempt found over to the capture:
on the reversed axis the order turns round, and so do the bits of each group, and the
next window begins no earlier than the last group of this one ends.

The repair. `Crc10` counts, for each check bit, the bits of the word that set it, so that
it is linear: the check bits of an exclusive or are the exclusive or of the check bits
(`Linear`, from `XorParity`). What a block says is then what its flips leave, whatever its
word and its offset (`BlockSays`). `TurnsTurn` tables the register after each of up to 25
turns. No two turns leave the same (`TurnedDiffer`): a turn can be taken back
(`TurnedBack`), so that if two were equal, bit 0 alone would come back after some turns,
and the table shows another bit set after every one. Hence one flip is told from every other and
two are told from none (`NoFlip`, `OneFlip`, `TwoFlips`). In a group, block B comes
first: its version chooses the offset of block C, and one flip of block B is undone before
it does (`GroupSays`, `AllRepaired`, `FlipsRepaired`).

The reading. `FirstOfMost` gives the first of the highest among any places; with it the
PI counted most is one of those counted, and the rule that `ZoneFor` chooses one of those
that match. Rules of one kind that match the same station have the same selector
(`MatchingSelectors`) and so, since the policy was accepted, the same zone
(`ZoneOfWinner`). For a zone, let `Held(zone, k)` be the offset after its first `k`
changes. The instants that show a wall time are the times less an offset that `Fits` it
(`Showing`), and only two offsets can: that after the changes whose later wall time has
come, and that after those whose earlier one has (`FittingOffsets`). If they are the same,
that one fits (`OrdinaryWall`); if a change is in between, the offsets on its two sides fit
both or neither (`WallOfChange`): the hour is repeated or skipped. `ReadInZone` compares
this with the way to UTC and back, and the two folds, of `interpret_in_zone`.

The theorem about `RdsClock` is `DecodedAsEncoded`: for each of the days that a
decoded Clock-Time may name, each minute and each offset that fits the field, what is
encoded is decoded as it was. The three words are sums of fields that fit below each other;
the lemmas show that a division takes out what a product put in, first for the day,
then for the minute, the sign and the half hours, then for the hour, which is put
together from two words (`EncodedFields`). The run `decoding` checks the same at the edges,
through the parser (`StationIsTrue`).

The station. `StationIsTrue` says what is shown by the groups alone: `Built` applies, one
after the other, the groups of a PI to an empty payload. It is a recursive function, about
which little can be cited; `BuildExists` and `BuildsAgree` show, each by a least
counterexample, that there is such a function and that it does not depend on later groups,
so that a group extends what those before it built (`BuiltOne`). `PayloadsKnown` is inductive
beside the invariant above. For every PI that may be received, whether it is shown or not,
it says that its payload is what its groups built and shows what they said (`Knows`), and
that its count is how often it was heard, a PI that was set as if it had been confirmed and
heard first. Each field needs its own strengthening, since what is shown was said long
before:

- the name: `Collects` splits the groups where the frame that is collected began. Behind
  that place are the groups of the segments seen so far, before it those of the frame that
  was completed last; when the two frames say the same, the groups that say a segment are
  therefore different ones (`NameStep`). `SegmentLaid` shows that one segment
  overwrites no other;
- the text: `OneMessage` says of each character not just that a group said it but that every
  group of the text since then had the flag that is kept (`TextStep`);
- the Clock-Times: the i-th is that of the i-th group that says one (`ClocksStep`).
  `DecodedWords` settles which groups do, and `ParseKnown` that the time at which the parser
  dates a group is that at which its last bit was on the capture (`Places`).

A PI that is first counted comes behind all that were (`ParseCounts`), so that of those
heard equally often the most common is the one heard first (`KnownShown`). TLC checked
`PayloadsKnown` on the states of the run `decoding` before it was proved.

`TimeConsensusProofs` proves, for any channels, programmes and receivers, any clocks and
any order of the reports, the five action properties of the run `consensus`:

- `AnchorStays` (`AnchorNeverGoesBack`), and `TracksInOrder`, what the docstring of
  `StationTrack` says of its observations (`time_consensus.py:107-111`);
- `VotesAreOfListeners` (`VotesHaveListeners`), `MajorityIsHeard`
  (`MajorityNeverOutvoted`), `LevelsAreEarned` (`ConfidenceIsEarned`) and
  `EstimatesAreOfTheirMinutes` (`SubSecondIsOfItsMinutes`).

Its assumptions are `NamesAssumption` (the names are finitely many) and
`LimitsAssumption` of the module. The inductive invariant is small: the types, the order
of every track (`ObservationsInOrder`: the place at which an insertion puts an
observation has all earlier ones before it, and the trim takes from the front) and
`LatenciesAreLearned` (only a track with three receptions has a latency, and a track
never becomes shorter). What is hard is each evaluation. The votes of a channel are
the image of its listeners under `Vote`, so there are no more of them. The n-th smallest
of some numbers exists, has more than n numbers at or below it and no more than n below
it, so that a majority has a member on each side of a median (`NthOfMost`,
`MedianOfMajority`): a median is within what the majority agrees on, the ages of most
contributors are below a limit that the median age is below (and so are those of
most confirmed ones, unless one of those below it is not confirmed), and an estimate lies
between boundaries of its stations. The induction over finite sets and sequences that
these need is in each case an argument by the least counterexample among the natural
numbers (`LeastOf`).

`FrontEndProofs` proves, for any number of pages, requesters, lines, rescans and
interrupts:

- `PagesAreWoken` (`NoWakeUpIsLost`), `FailuresAreUncleanEnds` (`FailureIsUncleanEnd`:
  the exit status 1 stands for a child that did not start or ended uncleanly before the
  stop, and every such end that was judged before a stop yields it), `KnownChildIsStopped`
  (`NoKnownChildIsLeft`: of a child whose handle was not lost in `Popen`): invariants of
  the run `front_end`;
- `RescanIsHarmless` (`RescanSparesTheRun`): its action property;
- `TypesAreKept` (`TypeOK`), with its bounds: the front end publishes one version for each
  line, each rescan request, the exit of its child and a failed start, so that
  `MaxVersion` is not exceeded and `EveryChangeIsShown`, which quantifies over the
  versions up to it, is about all of them; and no page has taken or was sent a version
  that was not published.

Its assumptions are `NumbersAssumption` and `NoOneAssumption` of the module (the
bounds are numbers, and the lock's free value is no thread). The inductive invariant
has five parts: `Types` (the types of the variables that these properties read),
`Main` (what each control point of `run_web` implies for the process, the threads
and the closing flags), `Life` (how the child's stage, its cause of death, what it
wrote and what the dashboard has applied go together; `ready` implies that the child
once armed its handler, for instance, which is why a rescan is harmless), `Judged`
(when the exit has been judged, and with which inputs) and `NoWakeUpIsLost` itself.
`TypeOK` rests on three more parts, inductive relative to the first five: `Ranges`,
`Numbers` and `Budget`, which weighs the versions published, the lines that wait in the
pipe and the request under way against what was written, asked for and ended. A line that
is applied moves from one term to another, a request that is sent likewise, and a child
says `recon_started` and `recon_stopped` at most once each.

`DashboardProofs` proves, for any number of receivers, tunings, transmitters, PIs and
cycles, and any failures:

- `RowsAreTrue` (`RowIsOfOneTransmitter`), `FailuresAreShown` (`FailedIsShown`) and
  `TypesHold` (`TypeOK`);
- `ProgressHolds` (`ProgressIsTrue`), its action property.

Its assumptions are `NamesAssumption` and `NumbersAssumption` of the module. `Inv` adds
five parts to the types, one for each thing that the dashboard keeps: `Lists` (a
watchlist has each station once, and a receiver that failed has none), `Working` (who
is shown as failed, stage by stage: a receiver that came back is still to be scanned
before the next pass, which is why the scan is soon enough to show it), `Pass` (in a
pass the rows of a receiver that works are its watchlist, and the counters are those of
its results), `Rows` (what a row keeps is of the PI that it confirmed, and a station
without a hop carries that PI itself) and `Tracks` (a vote is of a track that was
recorded; with one receiver it is the freshest of its tuning, which is why the lists by
frequency are enough there).

`DesktopProofs` proves, for the window and the terminal, logs, pipes and queues of any
length, and any number of records, pauses and signals:

- `TypeCorrect` (`TypeOK`), `ScreenShowsTheLatest` (`ScreenIsLatest`) and
  `FailuresAreUncleanEnds` (`FailureIsUncleanEnd`), the invariants of the run `desktop`.

Its assumptions are `FrontsAssumption` and `BoundsAssumption` of the module. The first two
rest on lemmas about `Latest`: the latest messages of a range of numbers are a range
(`LatestOfNumbers`), ranges that follow each other join to one (`NumbersJoin`), and
cutting off first and joining later gives the same as joining first (`LatestTwice`): this
is why a log that was held back and overflowed twice still shows the latest messages
without a gap. For the status, `Lines` says that `recon_stopped` of a child that ended
cleanly is applied, queued or in the pipe and that the exit is behind it, the last item
of the queue of a reader that is done; so the exit is judged with everything that the
child said. `Asked` says who asked for an end: a child that is killed, or that ends after
a stop has begun, ends after `stopRequested` was set; one that a rescan kills has
reported `recon_started`; and nothing ends once its exit was judged. `Screen` relates what is shown to what was applied outside a poll.

Only model-checked:

- liveness (`StopReleasesEverything`, `RunEnds`, `StopIsBounded`, `CloseIsBounded`,
  `EveryChangeIsShown`, `ChildDoesNotOutlive`, `SignalsAreServed`), which needs fairness;
- `CaughtUpIsDated` of `FreshCapture`. It is not true for every constant: when the link
  carries no more than the stream itself (`LinkBytes = 2`), what a stall held back comes
  at the pace of the stream and never faster, so that no arrival tells it from a capture
  that caught up; TLC finds it with one stall. The property is about a link with room to spare
  (`LinkBytes = 4`), and that is what the run checks, with two stalls. That a single fresh
  read is enough for the date is proved for every link (`FreshReadsDate`).

## Findings

1. `ReceiverProcess.start` stores its reader threads before it starts them
   (`dashboard.py:1029-1033`). Ctrl+C or SIGTERM in between makes `close()` join a
   thread that never started: `run_web`, which is to "return the exit status"
   (`web.py:325`), ends with a RuntimeError, and `server_close` is skipped. Run
   `front_end_interrupt`. The child is stopped all the same. A signal a moment earlier,
   inside `Popen`, does worse to the child: it exists and its handle is lost. `run_web` then
   returns 0 and the child lives until its next write finds the pipe broken, while
   `web.py:345` announces "Ctrl+C stops it and the receiver". `NoKnownChildIsLeft` therefore
   speaks of a child whose handle was kept, and `ChildDoesNotOutlive` of both.
2. `sub_second_consensus` is to return "the median of the latest calibrated reception
   boundaries" (`time_consensus.py:417-418`). A station's latency is the plain median of
   phases that are taken modulo a minute (`time_consensus.py:454`). Receptions on both
   sides of the host's minute have phases near 0 and near 60 seconds, so that a latency
   can be near a whole or half a minute, and the estimate half a minute from any
   boundary. Run `sub_second_wrap`. What does hold, while no reception comes before its
   minute, is `SubSecondIsOfItsMinutes`.

Noticed without a run:

- `ReconConfig.min_for_consensus` (`recon.py:93`, "min stations required for
  consensus") is never read; one station gives a time, with trust LOW.
- After `recon_stopped` with reason `iterations`, Ctrl+C still publishes a second one
  with reason `interrupted` (`recon.py:1219-1223`, `recon.py:1070-1072`), while
  `recon.py:1104-1105` says that nothing follows it. `ReconStream` allows the second
  one; no other record ever follows.
- `README.md:241-242` says that HIGH and MEDIUM need confirmed stations *whose* median
  age is under two or three minutes, and `time_consensus.py:27-28` that confirmed PIs
  "agree on recent CT". The code takes the median age over all contributors, so that three
  fresh unconfirmed stations raise two old confirmed ones to MEDIUM. `ConfidenceIsEarned`
  asks for recent confirmed stations only where no recent unconfirmed one contributes.
- `dashboard.py:762` says that the child handles SIGUSR1 once it has reported
  `recon_started`. It restores the default action as soon as the loop has returned
  (`cli.py:725`), while its interpreter still has to shut down: a rescan that is sent
  before the dashboard has applied `recon_stopped` kills it, and a run that ended
  cleanly is reported as failed. This is not an end "on its own", as `exit_failed` says
  (`dashboard.py:738`), nor a receiver that "failed on its own" (`tui.py:336`).
  `FailureIsUncleanEnd` admits it, as the end of a child that was ready.
- When the receiver drops samples behind a transfer that is half sent, the rest of that
  transfer is dated by the arrivals, which are later: a capture may say that it caught
  up although its first sample is older (`rtl_tcp.py:106-107`). `CaughtUpIsDated` speaks
  of captures without a loss.
- `rds_clock.py:169` calls day 88069 "2100-12-31"; it is 2100-01-01.
- `ct_policy.py:23-24` says that a PI rule wins over a frequency rule; until a PI was
  received three times there is none to match, and the frequency rule applies.
- A sweep of a whole capture on the reversed axis leaves its groups in the descending
  order of their positions, so that the last group parsed is the first one received.
- In every front end a failure that is not yet judged when the user stops it yields the
  exit status 0, and so does one that is still queued in the window, although `tui.py:336`
  promises 1 "when the receiver failed on its own".
- `_poll` of the window (`gui.py:188-199`) takes lines until the queue is empty: a child
  that always writes faster keeps SIGINT and SIGUSR1 waiting.

## Not modelled

- Signal processing (`dsp`, `channelizer`, the filters, the timing of the symbols and
  the fallback without a pilot in `decoder`), synthesis, plots and audio: floating-point
  computations on samples, without interleavings; their tests compare them with recorded
  fixtures.
- The text of records, status lines and translations; argument parsing; the page
  and widgets of the dashboards; the tables of names in `rds_groups`.
- The encoding of JSON, and of `rtl_tcp` commands.
- In `Dashboard`: the messages, the progress of a wide capture, and the clock that
  extrapolates the estimate and expires it.
- The tools other than the replay server, scripts and examples: they are not part of the
  program.

## Plan

What remains, in this order:

1. The expiry and extrapolation of the estimate in `Dashboard`, with a clock.
2. `WideCenter`: the choice of a centre frequency for several stations
   (`channelizer.choose_center`) against a reference definition.

The runs are kept few: a new component brings one run with the questions that are
its own, and a run that answers the same question as another is merged with it.
