# TLA+ models of the network-testing tools

TLA+ specifications of the programs of netoptimizer/network-testing, model
checked with TLC and, where it matters most, proved with TLAPS. Every
definition is translated from the code; `PROJECT.json` ("map") names the lines.

## 1. The system

network-testing is a collection of small tools, each its own process. They meet
on the wire, in the kernel's socket queues, or in the kernel's configuration.

| part | state | operations | hard behaviour |
|---|---|---|---|
| `src/udp_pacer.c` | `shutdown_global`, `struct thread_stat` on the heap, absolute deadline `next` | main thread, timer thread, signal handler | two threads and a handler without a lock; late wake-ups; shutdown while asleep; join before free |
| `src/udp_sink.c` | `struct time_bench_record`, `struct params`, the static `last` header of `__check_pkt()` | `time_function()` around five receive loops; packet checks | EAGAIN against the counters, batches at the edge of `--count`, lost and reordered packets, state surviving from one test to the next |
| `src/udp_flood.c` | the static `sequence` of `fill_buf()`, the record | five send loops; `sendmmsg()` batches with a remainder | partial `sendmmsg()`, the last batch, gaps in the sequence |
| `src/common.c`, `src/common_socket.c` | `struct time_bench_record` | start/stop/calc of a measurement; checked socket calls | division by the number of packets |
| `src/tcp_sink.c`, `src/tcp_sink_epoll.c`, `src/tcp_sink_client.c` | listen queue, accepted descriptors, retry counter | accept/write/close; epoll loop; connect with retries | order of connects and accepts, descriptors left open, retry limits |
| `src/udp_echo.c`, `src/udp_client_echo.c`, `src/udp_example02.c` | the msghdr between recvmsg() and sendmsg(), the number of answers left; one connected socket per client | receive with PKTINFO, echo from the same address; send, wait, compare lengths | loss (the client blocks for ever), late answers on a reused port, truncation, multi-homed replies, the time between bind() and IP_PKTINFO |
| `rdma/mp_rq.c` | receive ring of the NIC, completion queue | post, poll, repost | NIC and program share buffers; ring and CQ limits |
| `pktgen/*.sh` | `/proc/net/pktgen` | reset, add/remove device, start | concurrent add and remove; errors of half-configured threads |
| `tc/*.sh`, `nftables/*.sh`, `iptables/*.sh`, `xdp/*.sh` | qdisc, filter and table configuration, XPS masks | add, flush, statistics | order of destructive and constructive commands, bit masks |
| `bin/*.pl`, `bin/*.sh` | previous and current counters | sample, subtract, print | counters that wrap, lines that vanish between samples |
| `src/array_compare01.c`, `src/pcap_timeread.c` | index of the last hit; last time stamp | search from an index; bucket packets | index wrap-around |
| micro-benchmarks, small examples, scapy, trafgen and systemtap scripts | none | straight-line code | none |

## 2. Modules and plan

| module | models | proofs |
|---|---|---|
| `Timespec` | the struct timespec arithmetic of udp_pacer.c | lemmas in `UdpPacerProofs` |
| `PacedSender` | what udp_pacer promises, abstractly | |
| `UdpPacer` | `src/udp_pacer.c`; implements `PacedSender` | `UdpPacerProofs` |
| `UdpSink`, `MCUdpSink` | `src/udp_sink.c` with sender, network and socket queue | `UdpSinkProofs` |
| `HeaderWalk` | the walk of `__check_pkt()` over an io-vector | `HeaderWalkProofs` |
| `UdpFlood`, `MCUdpFlood` | `src/udp_flood.c` with a kernel that refuses packets | `UdpFloodProofs` |
| `FloodSink`, `MCFloodSink` | `UdpFlood` sending to `UdpSink` over a link | `UdpFloodProofs` |
| `UdpEcho`, `MCUdpEcho` | `src/udp_echo.c`, `src/udp_example02.c`, `src/udp_client_echo.c` and the network | `UdpEchoProofs` |
| `MpRq` | `rdma/mp_rq.c` with the card | `MpRqProofs` |
| `TcpSink`, `MCTcpSink` | `src/tcp_sink.c`, `src/tcp_sink_epoll.c`, `src/tcp_sink_client.c` | `TcpSinkProofs` |
| `ArraySearch`, `MCArraySearch` | `src/array_compare01.c` | `ArraySearchProofs` |

The order was: the one program with two threads first, then the two ends of a
UDP measurement, the ring shared with hardware, TCP; then the echo, the
measurement with both ends, and the searches. Then the proofs, module by module:
every invariant and every action property that a passing run checks is now also
a theorem, and so is the refinement of `PacedSender`; the liveness properties
are TLC's (section 13).

## 3. udp_pacer

`UdpPacer` has one program counter per thread. `mpc` walks main():
`create` (setup_pthread), `loop` (polling shutdown_global), `kill`, `join`,
`free`, `return`, exit. `tpc` walks timer_thread(): `alloc`, `sched`, `start`,
then the loop `check`, `nanosleep` (about to call), `sleeping` (in the kernel),
`woken`, `send`, `advance`, then `out`, `merr`, `mark`, `done`. A signal from
the user is handled by either thread at any point; the SIGTERM of
pthread_kill() is pending until it is delivered to the thread. A handler that
runs in the thread ends a sleep with EINTR only in `sleeping`; in `nanosleep` it
is too early, and the thread sleeps the whole interval. The clock ticks between
any two steps. Every system call that the code checks may fail.

`start` and `lateCycles` are history variables, `sent` counts packets.

Run `udp_pacer`: see the table in section 12. The bounds: two intervals of 4 ns
in a "second" of 6 ns starting at 5, so `next` and `now` cross seconds
differently; a wake-up up to 5 ns late, i.e. more than an interval; both a
counted and an unlimited run (the latter cut at MaxCycles cycles, where it waits
for the signal); one user signal, besides the SIGTERM of main().

Fairness: both threads are scheduled by the kernel, a pending signal is
delivered, time passes. The user need not send a signal, so an unlimited run
need not end: liveness is claimed only after shutdown_global is set, or with
--count.

Proved in `UdpPacerProofs` for all constants (assumptions: units positive, the
parameters naturals): the invariants of the run, and that `UdpPacer` implements
`PacedSender`. The inductive invariant `IInv` adds to the type invariant:
`LifeCycle` (which values thread_started can have at each point of the thread,
so that main()'s unlocked test cannot skip the join), `Schedule` (the deadline
and the packets sent at each point), `CountLeft` and `LateLeft`. The arithmetic
rests on `AdvanceLemma` (tsnorm keeps next normalised and moves it by exactly an
interval) and `CalcdiffLemma`.
Liveness stays with TLC: TLAPS cannot prove it under fairness.

## 4. udp_sink: the measured runs

`UdpSink` is main() and time_function() as one program counter: `main` (the next
bit of run_flag), `first` (the recvfrom() that starts a test), `run` (the head of
the repeat loop), `recv` (a receive loop at its condition), `check` (packets of
the last call being checked one by one), and the exits. Variables have the code's
names: `i` is the loop counter (cnt in recvMmsg), `try_again` is r->try_again,
`last` the static header of `__check_pkt()`, `ooo`, `bad_magic` and `bad_repeat`
the counters of the checks. `vec` is what the last call received and the checks
have not seen. `queue` is the socket buffer; `Send` is the sender and the network
in one step, which loses, reorders or duplicates a packet; `SenderTick` moves its
clock, CLOCK_REALTIME_COARSE, on or back. The command line is a record in `Params`;
`MCUdpSink` names the sets of command lines the runs use. A packet is abstracted to what the checks tell apart. `got`, `chk`, `runFirst` and
`clean` are history.

A recvmmsg() comes back short where the queue is empty (`--dontwait`, `--waitforone`,
`--sk-timeout`) and, with `--timeout`, after any number of packets. The first
packet of a test can fail in four ways (`WaitFirstFails`): recvfrom(), also with packets
queued; inet_ntop(); the Connect() of `--connect`; an address family that is
neither of the two. Left out are a recvmmsg() cut short by an error in the middle of a
batch or by `--use-bad-ptr` (the error itself is modelled, at the next call), what the
connected socket of `--connect` filters, which is up to the sender in the
model, and `--batch 0`.

The division by zero in time_bench_calc_stats() (`src/common.c:72`) is the exit
`sigfpe`: the quotient is an integer division there. A negative count ends the
program with "failed to recv packets" (`exit_fail_count`). `AccountingExact` says when
either can happen and what is reported otherwise, without an exemption: the four
single-packet loops report what they received, and recvMmsg reports less by
exactly the number of its EAGAIN results (`Surplus`), which is the finding of
`sink_mmsg_emptyq`.

`NoFalseOoO` and the properties of section 9 about alarms hold while the sender's clock is
not set back. The code compares time stamps first, so that a clock that is set back makes
packets out of order that are not; TLC finds this when the premise is left out.

Bounds: `SEQ_MOD = 8` puts the wrap of the sequence number into a run of a few
packets. `sink_checks` starts at 3 and sends six, with `WRAP_LIMIT = 4` for the
tolerance of 3*10^9: four numbers of room, exactly what `NoFalseOoO` asks for with
one packet lost in a row (`MaxGap = 1`), so that 4 can be followed by 0; the clock
has two values and can be set back;
`MaxQueue` 2 or 3 with batches of 2 gives full and short batches; `MaxTry` is larger
than `--count`, so that a run can consist of EAGAIN results only; two tests or two
repeats make state that survives a run visible. Fairness: the sink's steps are
weakly fair (a process that can run is scheduled and a call that can return
returns). Nothing is assumed of the sender or of errors.

Proved in `UdpSinkProofs`, for all command lines and bounds: the type invariant,
how the packet count a run is divided by relates to what it received
(`AccountingExact`), `CallsBounded`, and the three properties of the checks.
The properties speak of a report, or of one place in the loop, and are not
inductive; three invariants carry them:

- `IInv` adds `Tally`, which relates loop counter, EAGAIN count, packets received and
  packets not yet checked at every program point;
- `CInv` adds `Cleared` (the counters are 0 where a run starts) and `MagicSeen`
  (at level 3 a header that was let pass has the magic number), for
  `ChecksOfThisRun` and `Level3Consecutive`;
- `LInv` adds `Line`, for `NoFalseOoO`: while the network only loses packets, those
  received and not checked, those in the socket buffer and the sender form one
  chain, each a short way ahead of the one before, and its first is a short way
  ahead of `last`.

The proof of `NoFalseOoO` corrected the property. A tolerance that covers the packets
lost in a row is not enough: when recvmsg's test follows recvMmsg's, the
packet that starts it is taken and not checked, so that between two checked packets
there may be it and a loss on either side of it. The premise is therefore
`2 * (MaxGap + 1) <= SEQ_MOD - WRAP_LIMIT`; for the code it allows 6*10^8 packets
lost in a row.

Two disagreements with what the code says of itself are kept as runs:
`sink_mmsg_emptyq` (EAGAIN results of recvmmsg() are subtracted without having
been added) and `sink_level3` (the first packet of a test is not checked, so that
level 3 calls the next one out of order in every test but the first). Also seen,
not kept as a run: the last recvmmsg() of a run asks for a whole batch and can take
up to batch - 1 packets more than `--count`; `CallsBounded` is exact about it.

## 5. udp_sink: the header walk

`HeaderWalk` is the loop of `__check_pkt()` over the repetitions of a pktgen
header in a packet scattered over `nr` buckets of `iov_len` bytes. One step is
one round of the loop; `Move` is its tail. A byte is its position, a header read
is the set of pieces it was read from, `torn` the repetitions that differ.
Comparisons with sizeof() are unsigned in C; `LessThanHeader` says so, and the
mutant of `ReadsInBounds` is the signed comparison.

The run takes headers of 3 bytes in buckets of 0 to 4 bytes, up to six of them:
headers inside a bucket, ending at its end, straddling two, and longer than one.
In the last case `first_chunk` is negative: only because the comparison is
unsigned is the header then read in place, which is right since the buckets are
parts of one buffer. Packets that end anywhere are included.

Proved in `HeaderWalkProofs`, for every header size, bucket size and number of
buckets: the walk reads only bytes of the packet, and from level 2 on compares
every complete repetition exactly once. `IInv` adds `Walk`: where the walk is
(`i * iov_len + offset = hdr * H`), how the bytes still ahead split into the
current bucket and the rest, and that `bad_repeat` is the number of damaged
repetitions already passed. The products need nonlinear arithmetic, which is
isolated in lemmas.

## 6. udp_flood

`UdpFlood` is main() and the five send loops. `cnt` is the loop counter (batches in
sendMmsg), `sequence` the static of fill_buf(), `bytes` the total that
time_function() prints. `SendBatch(res)` and `SendLast(res)` are a sendmmsg() of
which the kernel takes `res` packets; any call may fail. `onwire`, `refused` and
`wire` are history. Bytes are in units of `--msg-sz`.

The run `flood_sink` has all tests with counts of 0 to 7 and batches of 0 to 5 (divisors,
non-divisors, larger than the count) and sequence numbers modulo 8, which wrap
within a flood.

Proved in `UdpFloodProofs` for every command line: a test reports exactly what the
kernel took unless a batch was cut short (`ReportedIsSent`), and never sends more
than `--count` (`AtMostCount`). `IInv` adds to the types `Tally`: packets taken against the
loop counter, with the products of the batch size (`Batches * batch + LastBatch =
count`) proved as lemmas. `WireOrder` (`WireIsOrdered`) needs `WInv`, which adds
`Follows`: the next number to be filled in lies at most a `Stride`, the batch size
where sendMmsg runs, after the last one on the wire. It assumes a batch smaller than the
modulus of the sequence number: `--batch` is an int, the number has 32 bits. The
rest of `UdpFloodProofs` is about `FloodSink` (section 9).

Kept as a run: `flood_partial` (a batch cut short is reported as complete). Also
seen, not kept as runs: after a failing sendmmsg() "Managed to send %d packets"
prints a number of batches (`src/udp_flood.c:449`), and the bytes behind the
payload column lack the remainder (`:434`).

## 7. mp_rq

`MpRq` has main() (`pc`, the one work request `wr_id`/`addr`, the completion `wc`)
and the card (`qp_state`, steering rule `flow`, ring `rq`, completion queue `cq`).
`Receive`, `Fault` and `Flush` are steps of the card, from how the program uses it.
The checked calls before the loop end the program when they fail (`OpenDevice`,
`AllocBuffers`, the steering rule).
ibv_modify_qp() may fail with a positive number, which the test `ret < 0` lets pass
(`ModifyQp`); a failing ibv_post_recv() is ignored and loses the descriptor.

The run has a ring of three descriptors, so that ring order, completion order and
the descriptor in main()'s hands differ. `BuffersComeBack` is what keeps the card
supplied: a completed descriptor, received or flushed, is back in the ring
unless a post has failed meanwhile, although one completion is taken at a time while
the card goes on. Its mutant skips a completion with an error status, as
a check of wc.status with a `continue` would. Fairness: main() polls without sleeping;
packets need not arrive.

Proved in `MpRqProofs` for every ring length and entry size: no overrun of the
completion queue, and every posted descriptor points to its own buffer. The
inductive invariant counts descriptors: ring, completion queue, the one in hand and
the lost ones together are those posted at start-up (`NothingLeaks`). That counts, but does not tell
descriptors apart; `NoDuplicates` needs `Distinct` on top: the identifiers in the
ring, in the completion queue, in hand and still to be posted at start-up are pairwise
different. The liveness property stays with TLC. Also seen: wc.status is not looked
at, so that a descriptor flushed after a fault is printed as "message received"
(`rdma/mp_rq.c:237`) and reposted.

## 8. tcp_sink, tcp_sink_epoll, tcp_sink_client

`TcpSink` has any number of clients and of sinks on one port. A client is `cpc`, its
loop counter `ci` and the retry counter of connect_retries(). A sink has its listen
queue, its loop counter `si`, its descriptor table `fds` (the kernel hands out the
lowest free descriptor), and for an epoll sink the descriptors with an
undelivered edge-triggered event (`edge`) and those of the last epoll_wait() that
are still to be handled (`events`). `client` and `server` are the two ends of each
connection. The write of `-w` changes none of this and is part of the closing step;
tcp_sink and tcp_sink_epoll without `--epoll` have the same loop.

The run has a client with two connections that closes them and forces its source
port (connect() may fail with EADDRNOTAVAIL, which is retried, and with ETIMEDOUT at any
time, with ECONNRESET or ECONNREFUSED once sinks have ended), a client
with `--no-close`, a plain and an epoll sink with three iterations each, listen queues of
two and two events per epoll_wait(). Two descriptors of the epoll sink can
thus have events in one batch while a third connection is accepted. Every system
call that is checked may fail, the client's Close() included, and so may the unchecked
accept(). Deadlock is
checked: `Quiet` is the only state in which nothing more need happen. Fairness:
every process that can take a step is scheduled; failures are not forced.

Proved in `TcpSinkProofs`, for any finite number of clients, any sinks, counts, listen
queues and batches of events: `TypeOK`, `DescriptorsExact` and `EventsNotStale`. The
latter is kept only together with the rest of `IInv`: `Fresh` (a connection not yet
made has no server end), `Queued` (a connection waits in one place of one listen
queue), `Owned` (open connections and descriptors are one to one over all sinks),
`OneAtATime` (a sink without epoll has a descriptor only between accept and close)
and `EachOnce` (epoll_wait() reports a descriptor once). That accept() always finds
a free descriptor, which the table of the model is sized for, is a counting argument
(`FreeFdFacts`); it is what the finite number of clients is assumed for.

## 9. udp_flood and udp_sink together

`FloodSink` EXTENDS `UdpFlood` and INSTANCEs `UdpSink` with its variables renamed
(a leading `k`) and its own sender switched off: what the sink finds in its socket
buffer is what the flood's kernel took. The link keeps the order; a full buffer
drops (`dropped`), and a closed port swallows. `Packets` says what is on the wire:
a header with the sequence number and the time of fill_buf(), or the zeros that
malloc_payload_buffer() left where fill_buf() is not called, which is without
`--pktgen-hdr` and in the send() test. The flood's clock may be set back (`setback`).

The run checks the properties of the flood itself, for floods without a sink, and
of the pair for a chosen set of command lines of both: a remainder between single
packets, zero headers before numbered ones, consecutive numbers around the wrap
(numbers modulo 8), no headers at all, against sinks of one and of two tests and
levels 1 to 3. The buffer holds a batch and one packet, so that it fills and drops.
`Level3AlarmIsReal` says that an alarm has a reason, not that every gap is found (a packet
dropped after the last one checked is not); it speaks of sinks with one test: with
two, level 3 raises the false alarm of the run `sink_level3`.
`EnoughIsEnough` counts what a sink needs: one packet per test that only starts
it, and `--repeat` times `--count`, in whole batches for recvMmsg (the sinks here are
run without the options that make batches short); a sink with
the flood's `--count` therefore does not end after one test of the flood.
Fairness: both processes run; the sink's blocking call returns when there is a
packet.

Proved in the second part of `UdpFloodProofs`, for every pair of command lines: a
flood that meets a sink is a flood (`SameFlood`: `SpecBoth => Spec`), so that everything
of section 6 holds of it; `FloodRaisesNoAlarm`; and `Level3AlarmIsReal`. `BInv` says where the
sink's packets come from: those it has not checked (`Arrived`) are the end
of what is on the wire (`Fits`), and the last header it checked is the number
directly before them, or one further back when the packet that started recvmsg's test
lies between (`LastSeen`), as long as nothing was dropped, the clock was not set back
and the sink is running.
`MeetAssumption` asks that the tolerance of the check has room for two batches. In the
code it has: the room is 1.3*10^9 numbers, and a batch's payloads, 18 bytes each
by default, are one buffer whose size is an int. `EnoughIsEnough` stays
with TLC.

udp_pacer is not composed with the sink: its packets carry a latency where
the sink expects a sequence number, in network order, and are not meant for it.

## 10. udp_echo, udp_example02, udp_client_echo

`UdpEcho` has a server (`spc`: `down`, `bound`, `recv`, `send`), any number of runs of
the client (`cpc`: `start`, `connected`, `wait`, and how it ended) and a network that
loses, delays, reorders and duplicates (`net`). A port stands for a client's
address and port; the kernel hands a port out again when its owner has ended. `msg`
is the msghdr the server passes from recvmsg() to sendmsg(), including the local
address in the pktinfo; `pktinfo` holds the address families for which recvmsg()
delivers one, which is any set after the two setsockopt() calls, whose results are
not looked at. `family` gives each client's family; a v4-mapped client of the
dual-stack server is "v4". A request to a closed port comes back as an ICMP error,
which the connected client reads from its next call. `cl` in a datagram, `lost` and
`noaddr` are history. udp_example02 is the server in IPv4; its `-t` is left out.

The properties say what the client's verdicts mean. Three exceptions are part of
them because the code has them, and TLC finds each when it is left out:

- the client compares lengths only, and its connected socket accepts anything
  from the right address to its port: with the port of an earlier client it can
  take that one's late answer (`Alone`);
- in IPv4 the kernel notes the destination of a datagram when it is queued, and
  only with IP_PKTINFO set: between bind() and setsockopt() it does not, nor when
  setsockopt() failed, which in IPv6 counts when recvmsg() is called. Then
  the answer leaves from the host's primary address (`noaddr`), and a connected client
  on another address never sees it;
- nothing times out: a lost request, answer or error leaves the client waiting
  (`lost`), and so does a server that ends after `-c` answers with
  requests in its queue, or whose sendmsg(), which is not looked at, fails.

A datagram above 8192 bytes is cut by the server and fails the client's size check;
`-s 65536` is sent as 0 bytes, because send_packet() takes a uint16_t, and is OK.
A `-c` of 0 never ends the server: `--count` is tested after it was decremented.

Bounds: two clients of one family and two ports, so that ports are both distinct and
reused (clients of two families never share a port; the proofs have them); two
addresses, so that the wrong one exists; lengths at the frame, above it, and one that
the uint16_t cuts to 0 (FRAME = 3, U16 = 8); a queue of one, one duplicate, one
start of the server and two answers. One start is enough because a client may send
before the server is up, while it runs and after it has ended. Fairness: both programs run and the
network gets round to every datagram; nobody need start a program, and
losing is never forced. Deadlock is not checked: a waiting client is a legal
end.

Proved in `UdpEchoProofs`, for any number of clients, ports, addresses and lengths:
`TypeOK`, `OKMeansEchoed`, `SizeFailureMeansTooLong` and `RightSource`. `IInv` follows a
request all the way: every datagram on the network (`NetOK`), in the server's queue
(`QueueOK`), in the msghdr (`MsgOK`) and in a client's hands (`RcvdOK`) belongs to a
client that has sent, carries its port and its length (an answer: cut to the frame), and
the address it asked, unless pktinfo was missing; outside of an exchange the io-vector
is set up for a whole frame. `Verdict` ties the
client's exit to the two lengths it compared. `WaitingEnds` stays with TLC.

## 11. array_compare01

`ArraySearch` is main() with its five measurements. An element is whether it
equals `match`; `behind` are the words after `a[N]` that equal it, chosen
freely: what lies behind a static array is up to the build. `Match01` stands for
the searches with `==` and with `^`. `reads`, `cost` and `missed` are
history.

The search of measurement 4 has a wrong wrap-around (`index++ > N`) that it never
reaches: after the first hit it is started at that hit (`RemembersFirstHit`). Measurement 5 starts one further and does reach it: after a hit
in the last element it reads `a[N]`, and on from there as long as the words
match (`ReadsContained`), and its search of N positions misses the element that is
there; the -1 it returns, incremented, sends the next one to index 0
(`NeverMissesTwice`). What measurement 5 prints as "match index" is one past its last hit, or 0 after
a miss, and measurement 3 prints the smallest difference, not an index. Bounds: arrays of 1 to 4 elements (the source has 2), any
of two words behind, six searches per measurement, so that the last index goes round the array.

Proved in `ArraySearchProofs`, for every array whose last element matches, as main() fills it, and whatever lies
behind it: the three properties of the run; `NeverMissesTwice` is a property of
steps. `IInv` says where each search stands: the plain ones have passed no
match (`Scan`), measurement 4 counts up once and then stands on the first match
(`Remember`), measurement 5 is behind the array only after a match there (`Beyond`),
and after a miss counts up from 0 (`Recovers`).

## 12. Runs

| run | expected | properties | shows |
|---|---|---|---|
| `udp_pacer` | pass | `TypeOK`, `NoUseAfterFree`, `NoDrift`, `RateBound`, `LatencyAccurate`, `OneBatchAfterShutdown`, `ShutdownCompletes`, `CountedRunEnds`, `ImplementsPacedSender` | Both threads, the handler in either of them and late wake-ups: shutdown is orderly and complete, the schedule does not drift and the pacer implements PacedSender. |
| `sink_accounting` | pass | `AccountingExact`, `CallsBounded`, `DontwaitRunEnds` | All five receive loops with EAGAIN results, timeouts and short batches: the single-packet loops report exactly what they received, recvMmsg reports less by exactly its EAGAIN results, and --dontwait runs of the single-packet loops end. |
| `sink_mmsg_emptyq` | violation | `MeasuresReceived` | recvMmsg with --dontwait: an empty queue makes the run report fewer packets than it received. |
| `sink_level3` | violation | `OoOMeansDisorder` | Two tests at check level 3 on a perfect network: the packet that starts the second test is taken but not checked, and its successor is called out of order. |
| `header_walk` | pass | `ReadsInBounds`, `CountsTornHeaders` | Headers of 3 bytes over 1 to 6 buckets of 0 to 4 bytes, every packet length and every set of damaged repetitions: the walk stays in the packet and counts each damaged repetition once. |
| `flood_partial` | violation | `MeasuresSent` | A sendmmsg() that takes only part of a batch: the test still reports --count packets. |
| `mprq` | pass | `NoOverrun`, `NoDuplicates`, `OwnBuffer`, `BuffersComeBack` | Program and card around a ring of three descriptors, with failing calls at set-up, failing posts, faults and flushes: no overrun, no descriptor twice, no buffer shared, and every completed buffer goes back to the card unless a post fails. |
| `sink_checks` | pass | `ChecksOfThisRun`, `NoFalseOoO`, `Level3Consecutive` | The packet checks at each level, over repeated runs, with damaged and short packets and packets without a header, losses, reordering, a sender's clock that ticks and is set back, and a wrapping sequence: no verdict of an earlier run leaks into a later one, what arrives in order is never called out of order while the clock is not set back, and level 3 lets only consecutive numbers pass. |
| `tcp` | pass | `TypeOK`, `DescriptorsExact`, `EventsNotStale`, `NothingLeftOpen`, `ClientsEnd` | A closing client on a forced source port and a --no-close client against a plain and an epoll sink on one port, with failing calls on both sides: descriptors and connections agree, no event is stale or lost, no accept blocks, and every client ends. |
| `echo` | pass | `TypeOK`, `OKMeansEchoed`, `SizeFailureMeansTooLong`, `RightSource`, `WaitingEnds` | Two clients, of IPv4 or of IPv6, at once or one after the other on the same port, and a server with two addresses that may go without pktinfo, over a network that loses, delays and duplicates: what OK and a size failure mean, where answers come from, and when a client waits for ever. |
| `flood_sink` | pass | `ReportedIsSent`, `AtMostCount`, `WireOrder`, `FloodRaisesNoAlarm`, `Level3AlarmIsReal`, `EnoughIsEnough` | All five send tests with failing and short calls, alone and into a running udp_sink: reports are exact unless a batch was cut short, the numbers on the wire only move forward, the sink's checks raise no alarm over the flood's own gaps while the flood's clock is not set back, an alarm of level 3 has a reason, and a flood that reports enough packets ends the sink. |
| `array` | pass | `RemembersFirstHit`, `ReadsContained`, `NeverMissesTwice` | The five searches of array_compare01 over arrays of 1 to 4 elements, with any two words behind the array: what the wrong wrap-around reads, and what it costs. |

Every property of a passing run has a mutant: a form of a mapped definition, named
`MUT_...` and defined just before it, that is wrong the way the code could be and
under which TLC finds the property violated. The type invariants of `UdpSink`,
`HeaderWalk`, `UdpFlood` (as part of its inductive invariant) and `MpRq` and the bound
on udp_pacer's cycles (`CountRespected`) are proved and have no run.

## 13. Theorems

- `UdpPacerProofs!TypeCorrect` (`TypeOK`): next stays normalised and no latency is a wrapped negative number, for all units, intervals and batches.
- `UdpPacerProofs!FreeIsSafe` (`NoUseAfterFree`): main() frees the shared structures only after the timer thread has returned.
- `UdpPacerProofs!DriftFree` (`NoDrift`): The k-th deadline is exactly start + k intervals, for every unit size and interval.
- `UdpPacerProofs!RateIsBounded` (`RateBound`): The packets sent since the start never exceed the configured rate.
- `UdpPacerProofs!LatencyIsAccurate` (`LatencyAccurate`): calcdiff() is within one microsecond of the true delay across second boundaries.
- `UdpPacerProofs!CyclesAreBounded` (`OneBatchAfterShutdown`): --count bounds the cycles and a shutdown lets at most one more batch through.
- `UdpPacerProofs!Refinement` (`ImplementsPacedSender`): The two threads, the handler and the clock implement PacedSender.
- `UdpSinkProofs!TypeCorrect`: Every counter of the sink stays in range; a reported count is never negative, for every command line, queue and network.
- `UdpSinkProofs!AccountingIsExact` (`AccountingExact`): With any number of EAGAIN results, the count a run divides its time by is the number of packets received in the single-packet loops, and too small by exactly the EAGAIN results in recvMmsg. A single-packet run traps in the division only when nothing was received and never says "failed to recv packets"; recvMmsg does so only with as many, or more, EAGAIN results than packets.
- `UdpSinkProofs!CallsAreBounded` (`CallsBounded`): The single-packet loops make at most --count calls and recvMmsg passes --count by less than a batch.
- `UdpSinkProofs!ChecksAreOfThisRun` (`ChecksOfThisRun`): What the counters of the checks hold comes from packets of the run in progress, for every level, count and repeat.
- `UdpSinkProofs!Level3IsConsecutive` (`Level3Consecutive`): At level 3 the packets a run has accepted carry consecutive numbers, across the wrap, for every network.
- `UdpSinkProofs!NoFalseAlarm` (`NoFalseOoO`): On a network that only loses packets, from a sender whose clock is not set back, nothing is called out of order at levels 1 and 2, also behind the unchecked packet that starts a test and across the wrap, as long as the tolerance of the check covers two losses.
- `HeaderWalkProofs!TypeCorrect`: The lengths the walk keeps are never negative, for every header size and io-vector.
- `HeaderWalkProofs!WalkInBounds` (`ReadsInBounds`): The walk reads only received bytes, for every number and size of buckets, also when a header is longer than a bucket.
- `HeaderWalkProofs!WalkIsComplete` (`CountsTornHeaders`): Every complete repetition of the header is compared exactly once.
- `UdpFloodProofs!ReportIsExact` (`ReportedIsSent`): A test reports exactly what the kernel took unless sendmmsg() came back early, for every count and batch size.
- `UdpFloodProofs!CountIsBound` (`AtMostCount`): No test sends more than --count packets.
- `UdpFloodProofs!WireIsOrdered` (`WireOrder`): The numbers on the wire only move forward, by at most a batch, through every test, remainder, short batch and wrap, for every command line and modulus.
- `UdpFloodProofs!SameFlood`: A flood that meets a sink takes the steps of the flood alone: what is proved of UdpFlood holds in FloodSink.
- `UdpFloodProofs!FloodKeepsItsPromises`: With a sink on the other side the flood's reports, its --count and the order of its numbers are as without one, for every pair of command lines.
- `UdpFloodProofs!NoAlarmBetweenThem` (`FloodRaisesNoAlarm`): At levels 1 and 2 udp_sink calls nothing that udp_flood sends out of order while its buffer keeps every packet and the flood's clock is not set back: not the gap after a short batch or a remainder, not the wrap, not the packet behind the unchecked one that starts a test; for every pair of command lines.
- `UdpFloodProofs!Level3IsRight` (`Level3AlarmIsReal`): In a sink with one test, an alarm of level 3 means that a packet was dropped, that the flood skipped a number, that it sends payloads without a header, or that its clock was set back; for every pair of command lines.
- `MpRqProofs!TypeCorrect`: Descriptor identifiers stay in range, for every ring size.
- `MpRqProofs!RoomForCompletions` (`NoOverrun`): The completion queue never overruns, for every ring size.
- `MpRqProofs!BuffersAreOwn` (`OwnBuffer`): Every posted descriptor points to its own packet buffer.
- `MpRqProofs!NoDescriptorTwice` (`NoDuplicates`): A descriptor is in one place only, ring, completion queue or main()'s hands, for every ring size and with lost, faulted and flushed descriptors.
- `MpRqProofs!NothingLeaks`: Every descriptor posted at start-up is in the ring, in the completion queue, in main()'s hands, or one whose repost failed: no other step takes a buffer out of circulation, for every ring size.
- `TcpSinkProofs!TypeCorrect` (`TypeOK`): Counters of clients and sinks stay in their loops and descriptors in the table, for any number of clients, sinks and connections.
- `TcpSinkProofs!DescriptorsAreExact` (`DescriptorsExact`): A connection the sinks have open is behind exactly one descriptor of one sink: no leak and no double close while descriptors are reused.
- `TcpSinkProofs!EventsAreNotStale` (`EventsNotStale`): Every event in hand is still true when the epoll loop handles it: it belongs to the connection whose client closed, and accept4() does not block.
- `UdpEchoProofs!TypeCorrect` (`TypeOK`): Clients, server and datagrams keep their types and the io-vector's length stays within the frame, for any number of clients, ports and addresses.
- `UdpEchoProofs!OKIsEcho` (`OKMeansEchoed`): A client prints OK only for a request that fits the frame and an answer from the address it asked; with its port to itself, for the echo of its own whole request.
- `UdpEchoProofs!SizeFailureIsTooLong` (`SizeFailureMeansTooLong`): A size failure of a client that had its port to itself means that its request did not fit the server's frame, whatever the server handled before.
- `UdpEchoProofs!SourceIsRight` (`RightSource`): Answers leave from the address the request was sent to, to the port that sent it, except for requests whose local address the server was not told (queued before IP_PKTINFO was set, or setting it failed), for clients of either family.
- `ArraySearchProofs!FirstHitIsRemembered` (`RemembersFirstHit`): The plain searches and measurement 4 print the first match, and measurement 4 starts every later search at it, so that its wrong wrap-around is never reached; for every array.
- `ArraySearchProofs!ReadsAreContained` (`ReadsContained`): The first four measurements read only the array; measurement 5 reads behind it only as far as the words there match.
- `ArraySearchProofs!NoSecondMiss` (`NeverMissesTwice`): A search of measurement 5 that misses is followed by one that hits: a step property, for every array and whatever lies behind it.

The assumptions are those of the modules (the named ASSUMEs at their heads), and TLC
evaluates them in the runs: parameters are naturals, sizes and units positive; a batch is
smaller than the modulus of the sequence number (`FloodAssumption`); the clients
of `TcpSink` are finitely many (`TcpAssumption`); the tolerance of the sequence check
has room for two batches (`MeetAssumption`, only for the theorems about flood and sink
together). Each proof module states an inductive invariant `IInv`, one lemma per
action (or group of actions) that it is preserved, and the properties as
consequences. Where a property needs more, a second invariant is built on top of
`IInv` and proved with its help: `CInv` and `LInv` in `UdpSinkProofs`, `DInv` in
`MpRqProofs`, `WInv` in `UdpFloodProofs`, and there `BInv` on top of the theorems about
the flood.

Only model-checked are the liveness properties: `ShutdownCompletes`,
`CountedRunEnds`, `DontwaitRunEnds`, `BuffersComeBack`, `NothingLeftOpen`,
`ClientsEnd`, `WaitingEnds` and `EnoughIsEnough`. They rest on fairness, that is on
ENABLED, which TLAPS does not support. The properties of the three runs
that expect a violation are false of the code and have no theorem.

## 14. Findings

- `src/src/udp_sink.c:635`, run `sink_mmsg_emptyq`: The receive loop of recvMmsg has no i++ (614-623), so an EAGAIN never adds to cnt, yet `packets = cnt - r->try_again` takes it out: with --dontwait a run that received N packets after k EAGAIN results divides its time by N - k. src/src/udp_sink.c:7 says "This tool is a UDP sink that measures the incoming packet rate".
- `src/src/udp_sink.c:706`, run `sink_level3`: `last` is static and survives from one test to the next, but the packet that time_function() takes with recvfrom() to start a test is never checked: at --check-pktgen=3 the first measured packet of the second test is not last.seq_num + 1, is counted as out of order and ends the program, on a network that delivered everything in order. The exit message at src/src/udp_sink.c:228 says "OoO" of a packet that is not.
- `src/src/udp_flood.c:445`, run `flood_partial`: sendmmsg() may take only part of a batch (the socket is connected to see ICMP errors, 549-552); the loop ignores how many and `res = p->count` reports --count packets. src/src/udp_flood.c:7 says "This tool is a UDP flood that measures the outgoing packet rate."

## 15. Not modelled

- small tools (not modelled): One sequence of system calls each, with an exit at the first failure; no state that outlives a call.
- micro-benchmarks (not modelled): Straight-line timing loops; what they compute is elapsed time.
- build (not modelled): Build description.
- pktgen samples (not modelled): Sequences of pktgen control commands with fixed arguments.
- firewall and XDP scripts (not modelled): Option parsing and a fixed sequence of external commands.
- packet crafting and tracing (not modelled): Packet templates, scapy scripts and a graph printer: data, or a script of fixed packets run by hand.
- array_compare01 (partly): The five searches and their measurements. measure_cmp() and measure0Z() compare integers in a loop and search nothing; the times are not modelled.
- common: measurement (partly): time_bench_calc_stats() divides by the packet count: that division, what the record holds, the failing read of ip_early_demux and the zeroed payload buffer are part of UdpSink, UdpFlood and FloodSink. The clock and TSC readings, time_func()'s arithmetic on doubles and the printing are not modelled.
- common: checked socket calls (partly): Their failures are the exits of the actions that call them (UdpPacer, TcpSink, UdpEcho); address parsing and allocation are not modelled: they have no state.
- pcap readers (not modelled): Each hands one packet after the other from libpcap to printf or back to libpcap; the only state, pcap_timeread's last time stamp, is assigned and subtracted once per packet.
- pktgen control (not modelled): The scripts write strings to /proc/net/pktgen; the state they change, the threads and the lock around their device lists are kernel code that the scripts only poke.
- tc (not modelled): Sequences of tc commands and writes to sysfs; the state is the kernel's. The conversion of CPU numbers to XPS masks is one shift.
- counter samplers (not modelled): Perl scripts that subtract two samples of text files and print the difference; sequential, without shared state.

Within the modelled programs: option parsing, address set-up and printing are
left out (a command line is a record of its effects), times are only modelled
where a property is about them (udp_pacer), and payload bytes only as far as the
checks read them.
