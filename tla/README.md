# Verification of aprsd

TLA+ models of **aprsd** (`src/aprsd210`, C++, POSIX threads), the APRS server of this
repository: it takes amateur radio packets from a TNC on a serial port, from other
servers and from users over TCP and UDP, filters duplicates, and passes them on to the
users and to the radio. TLC checks the models on small instances; TLAPS proves the most
important safety properties for every size.

All paths below without a directory are in `src/aprsd210/`.

## 1. Inventory

### Threads and shared state

| Thread | Code | Shared state it touches |
|---|---|---|
| main | `aprsd.cpp` 3030-3504 | history (ages, saves), `conQueue` (reads), `sendQueue`, `tncQueue` (beacons), serial port (quit) |
| DeQueue, with dequeueTNC | `aprsd.cpp` 747-968 | reads `sendQueue` and `tncQueue`, adds to the history, walks `sessions[]`, WriteCom |
| ACKrepeaterThread, one per ack sent | `aprsd.cpp` 847-865 | a packet that the history list owns; `tncQueue` |
| TCPServerThread, one per port | `aprsd.cpp` 1803-1893 | accepts, starts session threads |
| TCPSessionThread, one per user | `aprsd.cpp` 1072-1793 | `sessions[]`, `sendQueue`, `tncQueue`, `charQueue`, `TncSysopMode`, `tncMute`, history, WriteCom |
| TCPConnectThread, one per IGATE | `aprsd.cpp` 2083-2387 | `sessions[]`, `sendQueue`, `tncQueue`, history |
| UDPServerThread | `aprsd.cpp` 1899-2011 | `sendQueue`, `tncQueue` |
| ReadCom | `serialp.cpp` 284-439 | `sendQueue`, `charQueue`, `txbuffer`, `txrdy`, `TncSysopMode` |

### Components

| Component | State | Operations | What makes it correct | What is hard |
|---|---|---|---|---|
| cpQueue (`cpqueue.cpp`) | ring of slots with ready flags, `read_p`, `write_p`, `itemsQueued` | `write`, `read`, `ready` | a bounded FIFO that refuses the newest; readers find what `ready` promised | check-then-read over two locks; full ring; wrap-around |
| History (`history.cpp`) | doubly linked list, `ItemCount`, `history.txt` | add, duplicate check, delete by kind, age, save, read | duplicates of the last 30 s are caught, nothing else is lost before its time, a restart brings back what the file holds up to the first line that cannot be read; the list stays well linked | packets stored in another order than created; unlocked first look; lists of one item; a file that was not written to its end; lines too long; end of file |
| Sessions (`aprsd.cpp`) | `sessions[]`, `ConnectedClients`, descriptors, `pmtxSend`, `pmtxAddDelSess`, `pmtxSendFile` | accept, greet, AddSession, DeleteSession, broadcast, endSession | an entry belongs to a live session; the count is not overstated; who is dumped is disconnected; no greeting hangs | the broadcast and the sessions hold different locks; descriptors are reused |
| Remote TNC control (`aprsd.cpp`) | `State` per session, `TncSysopMode`, `tncMute` | `<Esc>`, user, password, ctrl-D | who is in remote mode has the TNC to himself until another user's `<Esc>` or disconnection takes it; what the TNC says is not diverted to nobody | no lock; two variables; threads that end half-way |
| Packet pipeline (`aprsd.cpp`) | packet objects, the queues, history | produce, DeQueue, dequeueTNC, ack repeater, ageing | every object has one owner; none is used after its delete; the radio queue is served | pointers shared by four kinds of threads |
| Serial port (`serialp.cpp`) | `txbuffer`, `txrdy`, `buf`, the two descriptors | WriteCom, ReadCom, AsyncClose | what is written is sent once; a packet is a piece of one line; a sysop's characters are not gated | one buffer for all writers; mode changes within a line; closing |
| IGATE connections (`aprsd.cpp`) | socket, `retryTimer`, recvline's `timeout`; the session table and the descriptors | resolve, connect, log on, receive, give up, leave the table, wait | a silent peer is noticed; delays of 1, 2, 4, 8, 16 minutes after each connection; table entries belong to connections that are served | half-open connections; descriptors closed twice and given to others |
| Routing between Internet and radio (`aprsd.cpp`, `serialp.cpp`, `queryResp.cpp`) | history list, the two queues, what each handler has in hand, `timeRF` of a posit | the packet handlers, logon, sendOnRF, getPosit, timestamp, UDP, ReadCom, queries, Mic-E, beacons, DeQueue, dequeueTNC, ageing | no unregistered user's message on the air; no loop back to the Internet; messages only for stations heard; a posit at most every ten minutes | decisions by flags and paths of copies of copies; check-then-act over the list |
| Parsing, Mic-E decoding | none | functions of a text | | |
| Configuration, console, statistics | globals set before the threads start | | | |
| Python programs (`src/src`) | pickled station database, host list | sequential scripts | | |

The hazards found while reading are in `PROJECT.json` under `hazards`, each with its line
and the properties that cover it.

## 2. Modules

| Module | Models | Abstract specification |
|---|---|---|
| `BoundedFifo` | what a cpQueue promises | |
| `CpQueue` | class cpQueue | `BoundedFifo` (`ImplementsFifo`) |
| `History`, `MCHistory` | the history list as a sequence, the clock, the file | |
| `HistoryList`, `MCHistoryList` | its pointers, loops and lock | `History` (`ImplementsHistory`) |
| `Sessions` | session table, session threads, broadcast | |
| `TncSysop` | remote control of the TNC | |
| `TncMode` | the one variable that `TncSysop` and `SerialPort` share | |
| `Lists` | taking elements out of a list (DeleteItem, DeleteOldItems), used by `History`, `PacketFlow` and `Routing` | |
| `PacketFlow`, `MCPacketFlow` | packet objects from `new` to `delete`, using what `CpQueue` and `History` establish | |
| `SerialPort` | WriteCom, ReadCom, AsyncClose | |
| `Igate` | TCPConnectThread and recvline, composed with `Sessions` | |
| `Routing`, `MCRouting` | the way of packets between Internet and radio, with History's and cpQueue's behaviour | |
| `CpQueue_proofs`, `History_proofs`, `HistoryList_proofs`, `PacketFlow_proofs`, `Routing_proofs` | TLAPS proofs about the module of that name | |
| `SerialPort_proofs` | TLAPS proofs about `SerialPort` and about `TncSysop` | |
| `Igate_proofs` | TLAPS proofs about `Igate` and about `Sessions`, which it extends | |
| `Lists_proofs` | facts about `Lists` that the proofs about `History`, `HistoryList`, `PacketFlow` and `Routing` cite | |

`PROJECT.json` ("map") names the source lines of every definition.

### How state and actions correspond to the code

*A mutex makes an action.* A body that runs under one mutex and touches nothing that
others touch without it is one action (`cpQueue::write`, `AddSession`, the functions of
`history.cpp`). Where the code reads or writes shared state without the lock, a step ends
at each access: the slots in `SendToAllClients`, `TncSysopMode` and `tncMute`, `txrdy`,
the first look of `DeleteOldItems`, `ready()` and the `read()` after it.

**CpQueue.** `base_p`, `write_p`, `read_p`, `itemsQueued`, `overrun` are the members.
`saw` is the set of readers between a `ready()` that said TRUE and their `read()`.

**History.** `list` runs from `pHead` to `pTail`. `verdict` is the argument and the result
of the last AddHistoryItem, kept so that properties can speak of it. A packet is a
station, a type and a text; the constructor's time stamp may lie `MaxLag` back when the
packet is stored, because it waits in `sendQueue` or `tncQueue`.

`disk` is the file: its lines, and how its end will be read (`tail`). SaveHistory empties
the file and then writes it entry by entry (547-571). It may stop anywhere, because a
write fails or because the process ends; `Restart`, which is a crash as well as a quit,
may come at any moment, also in the middle of a save. Where it stopped shows only when the
next process reads the file, so it is `Restart` that chooses among the beginnings of the
file (`Found`): some lines in whole, and one that broke off within its text or its
numbers. ReadHistory takes at most 251 characters of a text (`hf.get(data,252,'\r')`,
596). What is left of a longer line is taken for the numbers of the next one, of which the
first becomes 0 and the others stay as they were; then, and also behind a line without a
text, the stream has failed and `while(hf.good())` ends: `Stops` and `LeftOver`. A file
that is read to its end is read once more (`AtEof`). A text is a model value, `cut` says
which are too long and what their first 251 characters are, and `Scraps` what a text that
broke off may be parsed to. Three things are simplified: the rest of a long line does not
begin with a number, a time stamp that broke off is too old for its line to count, and the
numbers of the one line that is read from an empty file are arbitrary (they are
uninitialised in the code).

`TimesAssumption`, `ParserAssumption`, `TextsAssumption` and `NoCallAssumption` say what the
code takes for granted: times are numbers, the parser gives one text one type, what was cut
short is not too long, and the empty line has no station's name.

**HistoryList.** `node` is the heap; each turn of the loops of DeleteItem and
DeleteOldItems is a step; `call` is the holder of `pmtxHistory` with its loop pointer;
`main` remembers the unlocked look. `before` is what the list was when the lock was taken:
under the refinement mapping `History` sees the whole operation at the unlock.
`AddressAssumption` says that NULL is no address, `NumbersAssumption` that the time to live
and the bound on the list are numbers.

**Sessions.** File descriptors are numbers and accept() gives out the lowest closed one, as
POSIX demands, so closing a number twice can hit another client. `pc` is a session
thread's place in TCPSessionThread; `bc` is DeQueue's place in SendToAllClients: `scan`,
`send`, `dump` (DeleteSession), `close`. Users whose threads are in `Shufflers` leave and
rejoin the table while they are connected. `welcomeFile` says whether `welcome.txt` exists.

**TncSysop.** `State` has the program's values. The thread's `place` is `take`, `mute` or
`free` between two assignments. Any SendSessionStr may fail, which ends the thread on the
spot. `meddled` and `dropped` are not in the code; no action reads them. `meddled` says
that a user cleared the variables by an `<Esc>` or by his end while another was in remote
mode, and that this one still is; `dropped` that a sysop's thread ended while he was being
told that he has the TNC, and that nobody has cleared TncSysopMode since. They name the
two exceptions of `SysopHasTheTnc` and `DivertedToSomeone`.

**PacketFlow.** `heap` is the set of allocated packets. `dq` is DeQueue's place and its
`abuff`. Whether a listed packet of the same key is a duplicate is left open: that is
`History`'s subject. Reading a deleted packet yields anything. The ageing by main is
there whenever DeQueue is between two of its own accesses to the list, as often as it
likes; `aged` says that it ran since DeQueue took its packet.

**SerialPort.** A character is the line it came from (modulo 2), whether charQueue was
given it, and whether it ends the line; `packet` is what ReadCom made a packet of in its
last step. Reading a closed descriptor returns -1, which is a character to `size_t
BytesRead`. `phase` is where main is. It sets up the TNC first (SendFiletoTNC), then
counts it as present and completes the configuration later. `MayWrite` says who may call
WriteCom when: main while it sets up the TNC and while it quits, DeQueue from the moment
the TNC is present, the sessions when the configuration is complete.

**Igate.** EXTENDS `Sessions`: its variables stay those of the clients, and `at`,
`clientSocket`, `retryTimer`, `timeout` are a connect thread's place and locals. The
composition matters because both kinds of threads take descriptors from the same set,
close them, and put them into the same table; `Shared` says that another thread has the
number. `peer` is what the network does; `waits` counts delays since the last connection
and only serves a property. A minute is a unit of `retryTimer`, a second one of `timeout`.
`connect()` that fails leaves its descriptor open, so they may run out (NoSocket).

**Routing.** A packet is a record with the members routing depends on: source, type,
addressee, mask (`EchoMask`), `reformatted`, `timeRF`, `ID`, `dest`, `ttl`, and the path
by what distinguishes paths in the code: `rf` (heard directly), `far` (GATE* or three
repetitions), `TCPIP`, `TCPIP*`, `TCPXX*`. `unreg` and `inet` are not in the code: they
say that a packet is an unregistered user's and that it came from the Internet, however
often it was copied and renamed since. UDP clients are the owner's own programs
(`aprsd.conf` lists the trusted ones) and do not count as the Internet: what they have
sent to the TNC is not marked `reformatted`, and igateMyCall takes it back. A handler's
`at` is `source` between the two looks of sendOnRF, `posit` and `stamp` before getPosit
and before the test of its copy, `inet` and `always` before the packets to the Internet
and to the radio. `list` follows `History` with the choice of duplicates left open. `air`
and `net` are what has left on the radio and towards other servers; digipeaters may bring
back the one, servers the other.

The clock counts main's rounds of five minutes. In each, main calls DeleteOldItems once
(`aged`), at any moment: between a handler's look at the list and what it does next, or
with the queues full. The next round begins (`Round`) when the handlers have come to an
end and the queues have run empty once since; that is, no handler and no packet stays on
its way for more than five minutes. A handler does not wait for anything, DeQueue empties
`sendQueue` at once, and the 64 packets of `tncQueue` take 96 s at the default spacing of
1.5 s. TNCPKTSPACING is configurable (`aprsd.conf`): from about 4.7 s on, a full
`tncQueue` takes longer than a round.

`heard`, `spared` and `sent` are kept for the properties only: the round a station was
last heard in, the last round in which DeleteOldItems left a packet of it alone because
the list had no other, and when each handler sent each posit. A packet that is alone does
not age (`history.cpp` 196), so `DestinationHeard` cannot hold without an exception:
rounds in which the station's own packet was alone in the list do not count. In the model
as in the code main counts the packets before it takes the lock. `PositPacedByHandler`
leaves out stations whose posits main sends (posit2rf), because of what `routing_posit`
shows, and NMEA sentences, whose third-party copies DeQueue stores beside the original
(`aprsd.cpp` 806-808 exempts APRSPOS alone). What a Mic-E text decodes to is a constant.

Definitions introduced by "A bug to look for" are variants of an action with a plausible
mistake. No specification uses them. Put in place of the definition that follows them,
each violates the property it is meant for ("mutants" in `PROJECT.json`), which shows that
the property depends on the code.

## 3. Runs

`tlc -config X.cfg M`, with X and M as in `PROJECT.json`.

| Run | Instance | Shows |
|---|---|---|
| `cpqueue_one_reader` | ring of 3, two objects and NULL, 2 overruns | FIFO, contiguity, readers find data, draining |
| `history` | 2 stations, 3 packets, one with a line too long to be read, list of 3, clock 0..2, 1 restart | duplicates, replacement, ageing, restart from a file that may break off anywhere |
| `history_list` | 5 addresses, list of 4, clock 0..1 | well linked, no leak, implements `History` |
| `sessions` | 2 threads reused without limit, 3 descriptors, 2 slots, dump after 2 overruns | table, count, greeting |
| `tnc_sysop` | 3 threads reused without limit | who is in remote mode has the TNC; a diversion has a reader |
| `packet_flow` | 3 objects, queues of 1, 1 ack repeater | ownership, use before delete, service of the radio |
| `serial_port` | 3 writers, lines longer than a buffer of 3 | exactly one transmission, packets of one line, no diverted text on the air |
| `igate` | 1 client thread reused without limit, 1 IGATE that logs on, 3 descriptors, 2 slots | table entries, delays, a dead peer is noticed |
| `routing` | 1 IGATE, 1 session, 4 stations, queues of 2, 4 packets that arrive, 4 rounds, packets kept for 2 | unregistered users, loops, who is sent to, pace of posits |

Three more runs end in a counterexample, each on one property that quotes a comment or
the documentation of the program:

| Run | The text says | The code does |
|---|---|---|
| `sessions_dump` | "Close the offending socket" (`aprsd.cpp` 697) | the slot was set to -1 by then: -1 is closed, the socket stays open and its thread goes on |
| `packet_flow_ack` | the ack repeater is passed a pointer to the ack (`aprsd.cpp` 843) | the history list may have deleted the ack before the thread copies it |
| `routing_posit` | "Time stamp the original in hist. list" (`aprsd.cpp` 1571); a posit goes with a message "every 10 minutes" at most (`aprsddoc.html` 855) | copies keep the serial number, and timestamp() stamps the newest entry with it: once the copy that schedule_posit2RF sent is in the list, that one is stamped, and the original goes out again with the next message |

Other disagreements met while modelling, which no run is spent on:

* Without posit2rf a posit is also sent twice within ten minutes: if two servers each deliver
  a message, getPosit gives both handlers a copy before either has stamped the original
  (`aprsd.cpp` 2257-2262). `Routing_posit.cfg` shows it with `Igates = {g1, g2}` and
  `posit_rfcall = {}`.
* `cpqueue.cpp` 164 says that ready() "returns TRUE if data available". Two sysop sessions
  that each saw the one item in `charQueue` make read_p run past an empty slot; the next
  item stays hidden behind it.
* `history.cpp` 254-256 says that duplicates are at most `t` seconds old. The packet at
  which the scan ends is compared too, however old it is.
* `aprsd.cpp` 1788, `tncMute == FALSE;`, assigns nothing: a sysop who leaves with ctrl-D
  leaves the TNC muted until another user hits `<Esc>` twice.
* The "private connection to issue TNC commands" (`aprsd.cpp` 242-244) is private only
  until another user hits `<Esc>` at a user or password prompt (1337-1338), which clears
  `tncMute` and TncSysopMode, or until any session ends (1788), which clears TncSysopMode:
  the sysop stays in remote mode, what he types goes to the TNC, but the answers go to all
  users, and packets are sent in between (after an `<Esc>`, or after another login is
  over). `SysopHasTheTnc` without `~meddled` is violated in `tnc_sysop`.
* The same line 1788 is not reached when the SendSessionStr fails that tells a sysop he has
  the TNC (1730): the TNC stays diverted to nobody until another session ends, and muted
  until somebody's `<Esc>`. `DivertedToSomeone` without `dropped` is violated.
* `aprsddoc.html` 254-256 has it that the history is saved when the server closes and read
  when it starts. A text of more than 251 characters, or an empty one, ends ReadHistory
  (596): the stations behind it in the file are lost. SaveHistory has emptied the file
  before it writes the first line: a crash or a full disk in the middle (561-564) leaves
  the beginning of it. `RestartBringsBackWhatIsRead` without its premise about the lines
  in front is violated in `history`.
* UDP packets sent to the TNC are not marked as third-party traffic, so with igateMyCall a
  digipeated one is gated to the Internet as if the TNC had heard it.
* A packet that is stored for the Internet and was also sent to the radio has two entries
  in the list, told apart by `dest`; but a station heard on the radio and over the
  Internet has one, since both go through sendQueue: whichever came last decides whether
  the station counts as local.
* A Mic-E packet of another server or of a user is decoded with the path it arrived
  with: the asterisk that changePath() puts on TCPIP is lost.
* DeleteOldItems leaves a list of one packet alone, so that packet never ages.

### Bounds, and why they are enough

* Ring of 3: empty, part filled across the wrap, and full are distinct, with an overrun in
  each position. The proofs cover every size.
* History: three packets are the same station with the same and with another text, and a
  stranger with a message whose line is too long; a list of three has a head, a middle and
  a tail. Ages reach both sides of the duplicate window (1) and of the file's life (1); a
  ttl of 10 takes two rounds of ageing by 5, a packet for the radio one. DeleteOldItems is
  not tied to the clock: it may come at any time, more often than in the program. One
  restart has all that a file can be; that the empty text read behind its end is saved in
  turn and stops a later restart takes two, which the theorem covers. The view of
  `MCHistory` drops the file after the last restart, when nothing reads it.
* Sessions: two slots and two sessions allow a slot freed and taken again during a walk,
  and a full table (the third entry comes from `TncBusy`). One descriptor more than
  threads leaves a leaked one. Overruns are capped by the dump itself.
* PacketFlow: three addresses are one packet each in `sendQueue`, in `tncQueue` and in the
  history or with DeQueue; a producer that finds no free address waits. The ack run has a
  fourth.
* SerialPort: three characters are a first one, one in the middle and one that overflows.
* Igate: with three descriptors a client and the IGATE have one each and one is free or
  leaked by a failed connect; RecvTimeout 1 has a turn before the last. Larger timeouts
  add states only. The proofs cover every number of threads.
* Routing: station a is near and uses Mic-E with telemetry, b is far and comes by a
  server, as a user with or without a valid password, and as a query on the radio, c uses
  Mic-E and is always sent to the radio, k sends by UDP. Four arrivals are what the
  deepest of the properties needs (a station is heard, a posit and two messages arrive);
  the queues of two overflow. With packets kept for two rounds, the fourth round is the
  first in which a station heard in the first one is out of date. No message is for the
  server by name in the run. The view of `MCRouting` keeps of `heard` and `spared` the
  later of the two for the one station messages are for; once the last packet has
  arrived it drops what others got, and the list as soon as no handler asks it any more. Four numbers are never the reason why nothing
  happens within four arrivals. `routing_posit` has one IGATE and a station whose posits
  main sends.
* `MaxInputs`, `Numbers`, `MaxOverrun`, `MaxTime`, `MaxItems`, `MaxRestarts` are bounds of
  the model only. The runs with a clock switch off deadlock detection because the clock
  stops at its bound, and `serial_port` because the process ends after AsyncClose.

### Fairness

* Readers of a queue poll in an endless loop (`DeQueue`, main, `ReadCom`): weak fairness.
* The walk of SendToAllClients does not block, as the sockets are non-blocking: weak
  fairness. A session that waits for `pmtxSend` or `pmtxSendFile` finds it free time and
  again, since DeQueue waits at least for its next packet between two walks: strong fairness.
* Time passes and DeQueue does not sleep for good: weak fairness of `Spacing` and `DeQueue`.
* The serial driver answers within 0.1 s (VTIME): weak fairness of `ReadCom`. A writer of
  the serial port gets `pmtxWriteTNC` in the end, as its users do other things between two
  calls: strong fairness.
* A connect thread takes part in no lock while it receives, recv() does not block, sleeps
  end: weak fairness of `recvline` and `Retry`. Leaving the table waits for `pmtxSend`, which
  is free after each walk: strong fairness of `Drop`. That a server answers, resolves or
  accepts is not assumed.
* Producers, users and sockets owe nothing.

`GreetingEnds` is stated for a server that has its `welcome.txt`: without it
SendFiletoClient keeps `pmtxSendFile` and the second user waits for ever.

## 4. Proofs

Checked by `tlapm`, with no facts taken on trust beyond the assumptions named in the modules.

**cpQueue** (`CpQueue_proofs`), from `SizeAssumption` (at least one slot),
`CmdsAssumption` and `BoundAssumption`: type correctness for any number of readers; then,
if only one thread reads (`SingleReader`, true of `sendQueue`, `tncQueue` and `conQueue`),
`Contiguous`, `ReadFindsData` and the refinement of `BoundedFifo`. The inductive invariant
is `Contiguous /\ ReadFindsData`: `Contiguous` says where the ready slots lie; a read
keeps it only if it takes a ready slot, which is `ReadFindsData`; and that survives a
write because a write is at the other end of the contiguous stretch. The refinement maps
the slots from `read_p` on to a sequence; a write appends (`StoreAccepts`), a refused
write finds the sequence full, a read takes the head (`ReadTakes`).

**Sessions** (`Igate_proofs`), from `FdsAssumption` and `MaxClientsAssumption`, for any
number of threads and descriptors: `NoSlotOutlivesItsSession` and `CountNeverOverstates`.
They are inductive with the types and with `HasDescriptor` (a thread that runs has a
descriptor): a session leaves the table in the action that ends it, and a broadcast only
ever removes entries. The lemmas on AddSession and DeleteSession give their effect on the
set of occupied slots and on the count, also for the argument -1.

**Remote TNC control** (`SerialPort_proofs`), for any set of threads: types,
`SysopHasTheTnc` and `DivertedToSomeone`. `SysopHasTheTnc` is not inductive, since it is
silent while an assignment is pending; the invariant (`HasItOrSoon`) says that, unless another
user meddled, the TNC of a session in remote mode is diverted, and muted or about to be.

**IGATE connections** (`Igate_proofs`), from `IgatesAssumption`, `RecvTimeoutAssumption` and
those of Sessions: types, `TableHoldsLiveConnections`, `DelayFollowsFailures`, and that
`CountNeverOverstates` survives the composition. The invariant adds to the table property
that a session's descriptor is a descriptor, so that leaving with one number takes only the
entries of that number; for the delays it says of every place, not only of the sleep, how
`retryTimer` and `waits` belong together. The lemmas on AddSession and DeleteSession are
those about Sessions.

**Routing** (`Routing_proofs`), from `TrustAssumption` (other servers mark what comes from
unregistered users, as the documentation has it) and `RoutingAssumption`, for any number of
handlers, stations and packets: `UnregisteredNotOnRF` and `NothingReturns`. Neither is
inductive: what is in `tncQueue` today may be in `sendQueue`, at another server, or on the
air tomorrow. The invariant says of each place what may be there: in `sendQueue` and at
other servers an unregistered user's packet carries TCPXX*; in `tncQueue` and on the air,
whatever came from the Internet or from an unregistered user has `reformatted` set; a
handler that has passed the tests for the radio holds a packet that is neither. Each
producer then has a lemma that what it puts into a queue is of the queue's kind.

The types and `PositPacedByHandler` have an invariant of their own, `RInv`, of these parts:

* `Typed`: the packets in each place, their numbers and stamps (`Formed`), and what a
  handler holds at each of its places. From it, and from `HInv` below, follows `TypeOK`.
* `Numbered`: packets of one number are copies of one packet. `Fresh`: a posit that waits
  in `sendQueue` for the first time has no copies, and no handler has sent it. The
  constructor gives a number that nothing uses, and what ThirdParty adds is a copy.
* `Stamped`: the stamp of an original in the list is no older than the last time a handler
  sent it. If a packet in `tncQueue` has its number, or another entry, which then is one
  that dequeueTNC stored and that lives for one round, the original was `StampedLately`:
  in this round, or in the last one and main has not aged the list in this one yet. This
  is the heart of it: timestamp() may stamp the copy instead of the original, but only
  while the original's own stamp is as young as that, and then the test for ten minutes
  has failed already. It fails for stations of posit2rf, which is how the proof attempt
  found what `routing_posit` shows.
* `StampKnown`: the copy in a handler's hand is no older in that respect than what this
  handler has sent. It is about one handler: two may both hold a
  copy that nobody has stamped (section 3).

`DestinationHeard` adds `HInv`, about the list, the clock and the past:

* `QueueHeard`: who sent a packet in `sendQueue` that the TNC heard directly was heard in this
  round.
* `ListHeard`: the rounds since the station of such an entry was heard, or was last
  spared, and the rounds the entry has yet to live are together no more than `ttlDefault`;
  one more as long as main has not aged the list in this round. So StationLocal, which
  looks at the list only, answers for the past.
* `SourceHeard`: that answer still stands when the message is sent, whatever main has done
  to the list since: what was in time at the look is in time until the round ends, and the
  handler is through by then.

**Serial port** (`SerialPort_proofs`), for any number of writers, any buffer and any lines:
types, `PacketOfOneLine`, `DivertedIsNotGated` and `SentExactlyOnce`. The invariant has a
part for each side of the port. ReadCom's: what is in `buf` belongs to the line that is
being read, and only its first character can have gone to `charQueue` too, because in
sysop mode each further character takes the place behind it (lines 340-344). The writers':
`pmtxWriteTNC` has one holder, and what `txrdy` says fits the place that holder has come
to, so the text ReadCom transmits is the one that was copied last and not yet sent.

**Lists** (`Lists_proofs`): what `Keeping` leaves of a list has the elements it should, once
for each time they were there, in their order. `Keeping` is a recursive function, and the
induction theorems of the library cannot be used, as they take an operator for an
argument. `InductionOnSet` does without: it says of a *set* of numbers that it holds all of
them if it holds 0 and each successor, which follows from `WFMin`; a proof by induction
names the set of numbers for which its claim holds.

**Packet pipeline** (`PacketFlow_proofs`), from `ConfigAssumption`, for any number of
objects and threads and any size of the queues: types, `OneOwner` and
`SentToClientsExists`. `OneOwner` counts; the invariant says instead that the four places
where an object can be (`sendQueue`, `tncQueue`, the list, DeQueue's hand) hold no object
twice, that no two of them share one, and that together they hold the heap. Appending,
taking the head and deleting from the list each have a lemma in `Lists_proofs`.
`SentToClientsExists` needs that packets are kept for more than the five minutes of one
ageing (`ttlDefault > AgeStep`): the default of 30 minutes (`utils.cpp` 51) is, but EXPIRE
accepts any positive number (`aprsd.cpp` 2803-2805). With 5 or less the packet DeQueue is
sending could be deleted under it.

**History** (`History_proofs`), from `TimesAssumption`, `ParserAssumption`, `TextsAssumption`
and `NoCallAssumption`, for lists and files of any length: all five properties of the run.
None is inductive. The invariant says of the list that

* two packets of one kind of a station are the first two (`ClashAtFront`): DeleteItem does
  nothing in a list of one, so the second packet may join the first there; from two on it
  takes out all of its kind, and thinning a list moves what stays towards the front;
* a packet stands at most `MaxLag` behind one that was created after it (`Lagging`), which
  is what makes the scan of DupCheck, ended by the first old packet, see all young ones;
* its packets are what a constructor makes, created in the past;

and of the file, if there is one, the last two (what ClashAtFront says is not true of it),
also of its broken end: what a line broke off in is as old as the line, and is nobody's
packet or has the text of one. A restart is the run of ReadHistory over the lines it
reads: `ReadHistoryEffect` shows by induction on the number of lines read that the list
keeps the invariant and has every station read so far, using for each line the lemma that
says what AddHistoryItem does. `RestartKeepsStations` then says that each whole line with
no line too long or empty in front of it is among those that are read; its other premises
(young enough, not the empty text, not a text that broke off in an earlier file) are those
of the property.

**The pointers of the history list** (`HistoryList_proofs`), from `AddressAssumption` and
`NumbersAssumption`, for any addresses, any packets, any times and lists of any length:
types, `WellLinked`, `NoLeak` and the refinement `ImplementsHistory`. None is inductive:
while a loop runs, they do not say what is still to come. The invariant `IInv` names the
packets of the list in their order, s, and has two parts.

* `HeapInv(s)`: pHead and pTail are the ends of s, `next` and `last` of its element i are
  its elements i + 1 and i - 1, no packet is in it twice, the packets that exist are those
  of s and the one that is being added, and that one points nowhere. `ListIsRead` shows
  that the walks from pHead and from pTail then give s and its reverse, so `WellLinked` and
  `NoLeak` follow; `UnlinkedIsLinked` and `AppendedIsLinked` show what DeleteHistoryItem and
  the end of AddHistoryItem make of s, for a packet in any place.
* `Busy(s)`: who holds the lock, and how far its loop is (`Loop`, `Walked`): in front of `hp`
  stands what the loop has kept of the first m packets of `before`, from `hp` on stand the
  others, unchanged. `TurnGoesOn` takes both parts through one turn of either loop, whether
  it deletes or keeps; at the end of the list m is the length of `before`, and the list is
  what `Keeping` leaves of it (`LoopEnds`).

Each step of the pointers is then a step of `History` or none (`NextStep` and
`StepIsHistoryStep`): the whole change is seen when the lock is given back. The clock may go
on during the loop of DeleteOldItems. It may not between DupCheck and the end of
AddHistoryItem: nothing in the code asks for the time there, and `History` makes the check
and the change in one step.

### Only model-checked

Liveness (`Drains`, `GreetingEnds`, `TncQueueServed`, `WriteComReturns`,
`DeadPeerIsNoticed`): it needs fairness and so ENABLED, which TLAPS does not reason about.
Every invariant, action property and refinement of the runs that pass is proved.

## 5. Not modelled

* Parsing, formatting, Mic-E decoding, passwords: functions of a text whose result the
  modules take as given (`type`, `path`, `fmt_mic_e`, `Logons`, `deny`).
* In Routing: messages of the statistics and ticks to the monitor ports, and the two writes
  to one queue within one call (answer and acknowledgement, posit and telemetry), which the
  model makes in one step.
* That a TCPConnectThread whose socket was taken over reads another thread's characters is
  modelled as far as its own state goes; the characters themselves are not.
* `serverConfig`: runs before the threads exist. Console and statistics print.
* `CloseAllSessions`: nothing calls it. The destructor of cpQueue: the queues are global.
* Python: `agwpe.py` raises NameError at the first frame (line 48, `welf`), and the other
  programs are sequential.
* Data races on counters (`NN`, `objCount`, `bytesSent`): nothing depends on them.

## 6. Plan

Done: `CpQueue`, `History`, `HistoryList`, `Sessions`, `TncSysop`, `PacketFlow`, `SerialPort`,
`Igate`, `Routing` and the proofs above. What is left:

1. The text conversions with limits that matter: `strncpy` of 256 in WriteCom against the
   `<CR>` of dequeueTNC; the ranges of the Mic-E decoder; AEA paths.
2. What each client has received: the gap between the history dump and AddSession.
3. The life of the texts in `conQueue`.
4. Host rotation and station database of the Python client.
