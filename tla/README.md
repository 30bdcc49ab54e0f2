# TLA+ verification of ppi-chi-nettest

ppi-chi-nettest is a set of small programs that test the network a Chimaera
deployment will use: `chi_net_bench` measures ping, bulk I/O and metadata RPCs
between the hosts of a job, `chi_net_ping` checks that every server of a job
answers, `chi_net_find` writes the host file. They share an RPC layer over
Thallium/Mochi (`rpc_thallium.h`) and a table of hosts (`rpc.h`). This
directory models the RPC layer, the programs that use it, the data of their
bulk transfers, the host table and the program that writes its file, and two of
the shared value types; it checks the models with TLC and proves the main
results with TLAPS.

## 1. The system

### Components

| component | source | state | operations |
|---|---|---|---|
| `ThalliumRpc` | `include/test_networks/rpc_thallium.h` | client and server engine, RPC pool, `num_threads_` execution streams, registered RPCs | `ServerInit`, `ClientInit`, `RegisterRpc`, `Call`/`SyncCall`/`AsyncCall`, `IoCall`, `IoCallServerWrite`, `Wait`, `StopAllDaemons`, handler `RpcStopDaemon`, `RunDaemon` |
| `chi_net_bench` | `src/chi_net_bench.cc` | main thread of each host; on node 1 the loop of a test, its `responses`, its `count` | six tests, handlers `RpcPing`, `RpcTaskSubmit` |
| `chi_net_ping` | `src/chi_net_ping.cc` | a server per host, a client process, the shared-memory marker `nettest_<port>` of each host | modes `server`, `touchserver`, `client` |
| `RpcContext` | `include/test_networks/rpc.h` | `hosts_`, `node_id_` | `ServerInit`, `GetIpAddressFromNodeId`, `NumHosts` |
| bulk transfer | `serialize_defn.h`, `rpc_thallium.h:162-262` | segments with flags, buffers, bulk handles | `MakeBulk`, `AllocateBulksServer`, `serialize` |
| domain types | `chimaera_types.h:94-804` | values | constructors, equality, hash |
| `CacheTimer` | `chimaera_types.h:806-844` | three `size_t` counters | `Refresh`, `Tick`, `Resume`, `Pause`, `Reset` |
| `ServerConfig` | `config_server.h` | the command line | `BenchmarkInit`, `PingInit` |
| `chi_net_find` | `src/chi_net_find.cc` | one address per MPI rank | gather, write the host file |
| `fullping` | `src/fullping.cc` | libfabric objects | not built |
| Jarvis package | `test/` | launcher configuration | runs `chi_net_bench` |

### How they interact

Every process of `chi_net_bench` builds its own host table, starts a server
and a client engine, registers `RpcStopDaemon`, sleeps, registers the RPCs of
the test and branches: node 1 runs the test and then `StopAllDaemons`, the
others sit in `RunDaemon`. The only coordination at start-up is the sleep.
Requests are received by the progress loop of the server engine, which runs on
the main thread whenever main blocks inside an engine; handlers run on the
streams of `rpc_pool_`. The client engine has a progress thread of its own.
`StopAllDaemons` sends one stop message to each host, the caller itself first;
its handler answers, then finalizes the client engine and the server engine,
which ends `wait_for_finalize` on that host.

`chi_net_ping` has the same servers, but the client is a process of its own on
node 1, and server and client meet through a shared-memory marker.

`chi_net_find` is an MPI program that runs before the others: each rank looks
for the address of its machine on a fabric, rank 0 gathers the addresses and
writes the host file from which the others build their host tables.

`fullping` stands alone: a client and a server over libfabric, without the RPC
layer.

### What is hard

* Servers come up in any order relative to the calls of node 1.
* Handlers, the two progress loops and main interleave, in particular in the
  process that sends a stop message to itself.
* A response leaves before the work it announces (`RpcStopDaemon`).
* Asynchronous calls outlive the stack frame that made them; handlers use a
  local of `main`.
* Sender and receiver of a transfer select its segments each for itself, and
  the receiver allocates without checking or freeing.
* Hosts that never start, die, or throw in the middle of their shutdown.
* Two processes of one host share a port and a marker, one of which takes
  calls and answers none; a marker may be left from an earlier run.
* The program that writes the host file does not notice when it cannot.
* Each host derives its id alone, from a file and a resolver, and the file
  leaves out ranks that found no address.
* libfabric objects are released by hand, in a list for each failure.
* Factories of `DomainQuery` leave words of a union unset that equality and
  hash read.

`PROJECT.json` lists these as hazards, each at its line, with the properties
that cover it or the reason that none does yet.

### What makes each component correct

* RPC layer: a request never meets a server that lacks its RPC; a server goes
  down only after it was told to, and then does go down; a call has one
  outcome and is not repeated.
* Benchmark: the figures printed are computed from work that was done;
  the test ends; main returns only after every daemon acknowledged.
* Ping: status 0 means every node answered; daemons are stopped only after
  that; the client ends unless it waits for what crashed or never serves; the
  marker of a server is there for as long as the server is.
* Host table: a host's id leads back to the host, and no two hosts share one.
* Bulk transfer: what the sender selected is in the receiver's buffers when it
  answers; every request is answered; synchronous I/O ends a daemon only by
  exhausting its memory.
* Host file: it lists the ranks that have an address, in order, and becomes
  one node id for each of their machines.
* `fullping`: every failure releases what is open, once, children first.
* Timer: no time is lost or counted twice; nothing wraps while the cached time
  goes forward.
* Domain types: a query reads back what was asked for, and equality does not
  confuse two requests.

## 2. The modules

| module | models | extends |
|---|---|---|
| `ThalliumRpc` | `rpc_thallium.h` | |
| `NetBench` | `chi_net_bench.cc` | `ThalliumRpc` |
| `NetPing` | `chi_net_ping.cc` | `ThalliumRpc` |
| `DaemonGroup` | what a set of servers promises (abstract); implemented by `NetBench` and `NetPing` | |
| `BulkTransfer`, `MCBulkTransfer` | `SegmentedTransfer`, `IoCall` and its handler; an instance for TLC | |
| `HostTable`, `MCHostTable` | `RpcContext` of `rpc.h`; an instance for TLC | |
| `NetFind` | `chi_net_find.cc` | |
| `HostSetup`, `MCHostSetup` | `chi_net_find`, then `ServerConfig` and `RpcContext::ServerInit` on its file; an instance for TLC | `NetFind`; instantiates `HostTable` |
| `FullPing` | `fullping.cc` | |
| `CacheTimer` | `CacheTimer` of `chimaera_types.h` | |
| `DomainQuery` | `DomainQuery` of `chimaera_types.h` | |
| `NetBench_proofs`, `NetPing_proofs`, `BulkTransfer_proofs`, `HostTable_proofs`, `FullPing_proofs`, `CacheTimer_proofs`, `DomainQuery_proofs` | theorems about the module each is named for | that module |
| `HostSetup_proofs` | theorems about `NetFind` and `HostSetup` | `HostSetup`; instantiates `HostTable_proofs` |

An operator `F_Variant` beside an operator `F` is a plausible defect of `F`
(a dropped guard, a swapped order). No specification uses one; each property
is shown to fail when `F` is replaced by one of its variants.

### ThalliumRpc

`pc[p]` is the position of the main thread of process `p`, `server[p]` and
`client[p]` are its engines, `rpcs[p]` the names it has registered, `stop[p]`
the progress of its `RpcStopDaemon` handler. `call[c]` follows one call
through request, dispatch, handler, response and outcome. A single status is
enough because no call is issued twice, which `NoReissue` checks. `bulks`,
`responses` and `at` are locals of the caller: live bulk handles, the vector of
`async_response`, the loop variables.

| action | code |
|---|---|
| `Dispatch` | progress loop of the server engine and `RegisterRpc` |
| `RpcPing`, `IoCallServerWrite`, `RpcTaskSubmit`, `RpcStopDaemon` | the handlers, one action up to each visible effect |
| `FinalizeClient`, `FinalizeServer` | the two statements of `StopThisDaemon`, with the exception that skips the second |
| `CloseServer`, `RunDaemon` | finalization of the server engine after its handlers, end of `wait_for_finalize` |
| `Sends`, `FailsLater`, `Throws` | the ways `Call` can go |
| `Returns`, `Raises`, `Cut` | the ways `Wait` can go |
| `StopSend`, `StopSent`, `StopWait`, `StopThrow`, `StopCut` | `StopAllDaemons` |
| `Receive`, `Disconnect`, `Crash` | client progress thread, transport errors, death of a process |

Thallium, Margo and Mercury are not in the repository. What the model assumes
of them: a server engine made without a progress thread makes progress only
while main blocks in an engine; finalizing an engine from one of its own
handlers may throw on some hosts, and takes effect when its handlers have
returned; a call to a server that is not there fails either at once or when its
response is waited for; a pull from memory that is no longer exposed may
succeed or fail; a `Wait` on an engine that was finalized may throw or never
return.

### NetBench

`test` is the test that node 1 runs, `count` is that of `PingAll`. `SyncIssue`
and `SyncReturn` are the two halves of a blocking call, `AsyncIssue` and
`AsyncReturn` those of an asynchronous one: between them the locals of
`IoCall`, its bulk handle among them, are alive. `CallFails` is every `catch`
or its absence: `PingAll` swallows the exception, the other tests end in
`std::terminate`. `Issued`, `Collect`, `Collected` and `CollectFails` are the
loop over the responses. Durations and rates are not modelled; what they are
computed from is (`ReportSound`).

### NetPing

The caller is process 0, the client on node 1. `marker` is the set of hosts
whose shared-memory object exists, `touch` the state of a touchserver that
shares a host with a server. Initially `marker` is any set: an earlier run
leaves its markers behind when it crashes or `StopAllDaemons` throws. The three
steps of a server (destroy the old marker, bring up the engines and register,
create the marker) are three actions, since the client and the touchserver can
see the states between; each may be the last one on a host that cannot start.

A touchserver goes through the same steps and then returns from `main`. From
`ServerInit` until then its engine holds the port and takes requests, but main
never blocks inside it, so that none is dispatched: a call to its host is
`"held"` (`SendsToTouch`) and not refused. Nothing ever answers such a call;
the transport may report the end of the process (`TouchDisconnect`), as late as
it likes.
`NetPing!Group` maps its servers to a `DaemonGroup` whose caller is thorough:
`PingAll` ends the process at the first failure, so that no daemon is told to
stop unless each has answered.

### DaemonGroup

Daemons join, are asked, begin, serve, settle, are told, leave and depart. No
test call is made after the first daemon was told to stop; a call is answered
at most once and by a daemon that is there; a daemon leaves only after it was
told and is done with the calls in its handlers, unless it is one of
`mayVanish`. When the first daemon may be told depends on the caller's
`manner`, which never changes: a thorough caller has an answer from every
daemon and for every call, a patient one the outcome of every call, an
impatient one may abandon calls. `NetBench!Group` and `NetPing!Group` are the
refinement mappings. In the benchmark `ping_async` is impatient; `ping`, an
unknown test and a run of no repetitions are patient and the others thorough.
`mayVanish` is `Losable`: the hosts that fail to start or crash and node 1,
which an exception may end, but every host for `io_async`, and for `io` if
node 1 may crash: it then takes the exposed memory with it, and the pull that
fails ends a daemon that nothing was wrong with.

### BulkTransfer

The calls of `IoCalls` seen from their data. `xfer` is the vector `bulk_`, the
same in every request, `frame` the `IoCall` that has not returned, during which
its memory is exposed. `req[r]` follows one request through `Deserialize`,
`AllocateBulksServer` (one `malloc` per action, since handlers of a node
interleave), `MakeBulkServer`, `Pull` or `PullFails`, `RpcTaskSubmit` (the
answer) and `Receive`. The flags of a segment are any union of the macros, and
sizes are the cardinality of sets of bytes. `buf[r]` tells what the receiver's
`data_` points to for each segment: nothing that is allocated, null, an
allocated buffer, or one with the sender's bytes. `used[n]` counts the bytes
allocated on a node, which nothing gives back. `Selected` is the choice of
`MakeBulk`, applied on each side to its own flag.

Assumed: the sender's own buffer was allocated; a pull fails for the reasons
modelled (nothing exposed, no longer exposed, a bad target), not through the
transport; `expose` of a null address may throw, and a pull into one fails or
faults, and in both cases the process ends. `IoCalls` makes vectors of one
segment with `DT_WRITE` and passes `DT_WRITE`; longer vectors, other flags and
`DT_EXPOSE` are what the header offers to other programs. `NetBench` leaves
memory out: there `malloc` succeeds, and `DaemonsSurvive` says for how long.

### HostTable

Every machine runs `RpcContext::ServerInit` on the same file: `Resolve` is an
iteration of the loop over the names, with every answer the resolver may give;
`FindThisHost` an iteration of the search for a local address; `ResetIds` the
branch on `local_only_`. A name without an address ends the process. `Sane`
states what a file and a resolver must satisfy for the tables of the machines
to fit together: one answer per line, and none that is an address of two
machines. The uniqueness of ids is claimed under `Sane` only.

### NetFind and HostSetup

`FindIp` is `find_ip_from_fabric` of a rank over the list `fi_getinfo` gives on
its machine (the first of `Hits`, the entries on the fabric asked for),
`Gather` is `MPI_Gather` as each rank sees it (the others may leave before rank
0 has everything), `WriteLine` an iteration of rank 0's loop. The host file may
hold the lines of an earlier run. `OpenFile` truncates it or fails; the program
does not look which (`opened`), and in the second case its lines go nowhere and
the old file stays for the others to read. `HostSetup` starts `HostTable` on
every machine when all ranks are done, with the file as its input and a
resolver that returns a dotted address as it is, as `_GetIpAddress` does. On
the machines of `NoFabric` the `fi_getinfo` of `_IsAddressLocal` fails,
whatever that of `chi_net_find`, which asks for a provider and a domain, has
found there. `args` is the command line of the program that is started: with a
wrong number of arguments it ends in `HELOG(kFatal)`, with an empty host file
argument its only host is `localhost` (`HostNames`), and only `chi_net_ping`
can ask for a local table. One file is meant: the path given to `chi_net_find`
is that of the others.

### FullPing

`Rungs` lists the calls that open something in `PingAll` and `LaunchServer`,
`OnFail` the releases after each failure. `Climb` and `Fail` are the outcomes
of a call, `Close` one statement of a list of releases. The server that listens
returns 0 at once and leaves its objects to the end of the process, as the
code does.

### CacheTimer

One action per method that assigns; `Elapse` lets the clock of `timer_`
advance. The counters have `M` values in place of 2^64. Two history variables
serve the properties: `course` tells whether the cached time went back since
the last `Reset`, `skipped` adds up the time that `Resume` and `Reset` leave
out.

### DomainQuery

`Make` fills a slot by one of the six functions, `Copy` copies one slot to
another, as the copy and move operations do. The union `sel_` is two words; a
word that a function does not set takes any value, which is what an object on
the stack holds. The flags keep the bit numbers of the source.

## 3. What the runs check

| run | instance | checks |
|---|---|---|
| `bench` | 2 hosts, 2 repetitions, 1 stream, all six tests and an unknown one, free start-up order; host 2 may fail to start, either may die, `finalize` may throw on either; fair scheduling | `TypeOK`, `NoUnknownRpc`, `DaemonOutlivesTest`, `ReportSound`, `IoKeepsDaemons`, `CountSound`, `ExitClean`, `StoppedDaemonExits`, `TestEnds`, `NoReissue`, `ImplementsDaemonGroup` |
| `bulk` | 2 nodes, 2 requests to each, 3 bytes of memory, 5 vectors, two flags, synchronous or not; fair scheduling | `TypeOK`, `DataArrives`, `DaemonsSurvive`, `TransfersEnd` |
| `ping` | 3 servers, on any hosts a marker of an earlier run: host 1 is sound but its finalize may throw, host 2 may crash or fail to start and runs a touchserver too, host 3 may fail to start; fair scheduling | `TypeOK`, `MarkerShowsServer`, `ExitZeroSound`, `DaemonsLeave`, `ClientEnds`, `ImplementsDaemonGroup` |
| `hosts` | 2 machines, every file of at most 3 lines over 6 kinds of names | `TypeOK`, `RoutesToSelf`, `UniqueIds`, `FirstLineWins` |
| `setup` | 3 ranks placed in 3 ways, on, beside or off the fabric, an old host file or none, which may fail to open; one machine where `fi_getinfo` fails in `ServerInit`; either program, with its host file or without, local or not, arguments complete or not | `TypeOK`, `FileListsRanks`, `EveryLineIsANode`, `UnlistedStaysOut`, `SetupEnds` |
| `fullping` | client, server and neither; any call may fail | `TypeOK`, `NothingLeaks`, `ReleasesWhatIsOpen`, `ChildrenFirst` |
| `timer` | 3-bit counters, a clock up to 5, ticks 0, 1 and 3 | `TimeConserved`, `ForwardIsSound` |
| `query` | 2 queries, 2 subdomains, 2-valued words, three sets of iteration flags | `TypeOK`, `ReadsBack`, `EqualIsSafe` |
| `query_equal`, `bench_stops_all`, `bench_io_async`, `ping_marker` | smallest instance that shows it | a claim of the repository that the code does not keep (section 5) |

Bounds. Two hosts are the least for which "the caller stops itself first" and
"the other host" differ; the three servers of `ping` add a host after the one
that fails, and one that never does. In `bench` either host may die, so that
both are in `mayVanish` and the clause of `DaemonGroup!Depart` on when a daemon
departs asks nothing there; in `ping` it does of host 1, and the theorems of
section 4 cover every choice. Two repetitions separate the inner loop from the outer one. One
stream and many behave the same in the model, where a handler needs a stream
and gives it up only when it ends: what matters is zero or not zero. A file of
three lines holds a duplicate of a machine with another one before or between.
Three ranks allow a rank without an address before one that has it, and two on
a machine. Three bits let every sum and difference of the timer wrap and not
wrap. Two queries are compared and copied; two values tell a word that was set
from one that was not. The five vectors of `bulk` are the ones of the benchmark
with and without data, one that is no part of the transfer, and two that mix
the flags; three bytes hold the buffers of two requests for the smallest and
not for the largest, and a failing allocation may come first or last. All state
spaces are finite without a constraint; `MaxClock` stops the timer's clock.

`CHECK_DEADLOCK FALSE` is set for the programs because they stop: processes
leave main, and node 1 may block for ever in `Wait` on an engine its own
handler has finalized. `timer`, `query` and `query_equal`, whose values can
always be used once more, are checked for deadlock.

Fairness. `FairSpec` asks weak fairness of the steps of main threads and of
the RPC layer as two groups: threads that can run are scheduled. Weak fairness
of a group is enough since every step moves a call, a handler or a main thread
forward and none goes back; the graph has no cycle besides stuttering, so a
group that keeps being scheduled runs until nothing in it is enabled.
`HostSetup` and `BulkTransfer` ask weak fairness of one disjunction: every step
uses up one of a bounded number (a rank's stage, a line, a loop index; the
status of a request, an allocation), so that all of them are taken.
Nothing is assumed of `Disconnect` (the transport may notice a dead peer late
or never), of `Crash`, or of `StopCut` (a `Wait` that may never return).
With a dead peer and no time-out, `Wait` blocks: `TestEnds` grants that node 1
waits for ever when a daemon that was up is lost (`Lost`), and `ClientEnds`
that the client does for a server that crashed or for a call that a touchserver
has taken (`Held`); nothing else may keep it. `TransfersEnd` grants the same
once a process has ended.

## 4. What is proved

`NetBench_proofs` proves, for every number of hosts, repetitions and streams
and every set of failing hosts, under `RpcAssumption` and `BenchAssumption`
(the caller is node 1):

* `TypeCorrect`: `[]TypeOK`. The inductive form adds that the caller blocks in
  a call only when the loop has an iteration left, from which the loop
  variables stay in bounds.
* `UnknownRpcImpossible`: `[]NoUnknownRpc`. Inductive with `Registered`: a
  server that makes progress has registered all its RPCs. Each dispatch
  needs progress, and a server makes none before its `TestRunner` exists.
* `DaemonsOutliveTest`: `[]DaemonOutlivesTest`. By itself it is not inductive:
  the step that closes a server says nothing of the calls. `StopInv` adds
  `StopOrder` (a server closes only after its handler ran, the handler only
  after the stop call was sent, and that only in the last phase of main),
  `Tracked` (in the collect loop, every issued call that is not settled is
  still in `responses`) and `Drained` (in the last phase, no test call is
  outstanding, `ping_async` aside).
* `IoNeverKillsDaemons`: `[]IoKeepsDaemons`. The strengthening `IoInv` adds
  `SyncExposed`, which says that a call of the synchronous test keeps its bulk
  handle for as long as its handler may pull and node 1 lives, and `StartsDown`,
  which says that a process that has not started has no server: one that ends
  in `ServerInit` never had one.
* `CallsAreNotReissued`: `NoReissue`, an action property. `LoopInv` adds
  `LoopOrder`: the calls ahead of the loop variables, and those of another RPC,
  are idle, so that what `Issue` sends next has never been sent.
* `ReportsAreSound` and `ExitIsClean`: `[]ReportSound`, `[]ExitClean`. The first
  is about `IoCalls` and `MetadataCalls` only: what `PingAll` prints is the
  subject of `CountSound`. The second says that every daemon has acknowledged
  and that node 1 runs no handler of a test call; `ping_async` may have given up
  calls that other nodes still work on. Both rest on `AnswerInv`, which joins `StopInv` and `LoopInv` with `Answered` (where no
  exception is caught, a call the loops have passed was answered),
  `StopAnswered` (the same of stop messages) and `OwnCallFirst` (the first
  response `StopAllDaemons` waits for is its own process's).
* `CountIsSound`: `[]CountSound`. `CountInv` adds `CountKept`, which bounds
  `count` by the calls that were answered and passed, and `ResponsesPassed`,
  which says that `responses` holds each call once: otherwise one answer could
  be counted twice.
* `BenchIsDaemonGroup`: the specification implements `DaemonGroup`. Under
  `GroupInv` each step of `NetBench` is one of `DaemonGroup` or a stutter, by
  one lemma for each abstract step (`JoinStep` and those that follow it) and
  one case for each action of the benchmark. Beyond `AnswerInv` and `IoInv` it
  takes `Presence` (a process without a server is still starting, and one whose
  server is down works on nothing) and `SyncQuiet` (node 1 ends during an I/O
  call only by crashing). It is this proof that gave `Losable` its form: with
  only the hosts that fail and node 1 in `mayVanish`, no step of `DaemonGroup`
  matches the end of a daemon whose pull fails because node 1 crashed inside a
  synchronous `IoCall`.

`NetPing_proofs` proves, for every number of hosts and all sets of failing hosts
and touchservers, under `RpcAssumption` and `PingAssumption`:

* `TypeCorrect`: `[]TypeOK`.
* `MarkersAreRight`: `[]MarkerShowsServer`, for the hosts that run no
  touchserver, and `ExitStatusIsRight`: `[]ExitZeroSound`: every node answered
  its ping, a daemon that was not told to stop has crashed or comes after one
  that has, and all acknowledged unless one crashed. Daemons that are alive may
  be among those that did not: the exception of `StopAllDaemons` at a crashed
  host leaves out the hosts after it. Both are parts of `PingInv`, which adds
  where each server and the client are (`ServerPhases`, `ClientPhases`), that a
  server and a touchserver never hold one port (`OnePort`), that a call is made
  only by a client that got so far, of nodes it has passed (`CallsMade`,
  `PingOrder`, `StopOrder`), and that the only responses waited for later are
  those of stop messages (`Waited`).
* `PingIsDaemonGroup`: the specification implements `DaemonGroup` with a
  thorough caller, step by step from `PingInv`.

`BulkTransfer_proofs` proves, for every number of nodes and requests, every set
of segment vectors and every size of the memory, under `BulkAssumption`:

* `SelectedDataArrives`: `[]DataArrives`. `SameSelection` is the reason: no
  flags can hold the bit of `DT_WRITE` without that of `DT_EXPOSE`, so that
  both sides select the same segments.
* `DaemonsOutliveIo`: `[]DaemonsSurvive`, and `TypeCorrect`: `[]TypeOK`. The
  invariant `BulkInv` counts: `UsedInv` equates `used[n]` with the bytes of the
  buffers malloc gave, `Room` shows that these and the next buffer are bytes of
  the requests made, and `NullInv` concludes that a null buffer means too many
  requests. `SyncInv` says that the synchronous sender has one request open,
  whose memory it still exposes.

`HostTable_proofs` proves, for every set of machines, host file and resolver,
under `HostAssumption`:

* `TablesWellFormed`: `[]TypeOK`.
* `CallsReachTheirNode`: `[]RoutesToSelf`.
* `IdsAreUnique`: `[]UniqueIds`.
* `FirstLineIsTaken`: `[]FirstLineWins`.

All rest on `IInv`: every entry of a table carries one of the answers for its
line, no line before the search is local, and the id of a machine that is past
its search names a line with a local address; `SameAnswer` carries this from
one machine's table to another's.

`CacheTimer_proofs` proves, for every width `M`, clock and set of ticks, under
`TimerAssumption`:

* `ForwardTimeIsSound`: `[]ForwardIsSound`. It rests on `IInv`, which bounds the
  time counted and pending by the cached time while that goes forward, so that
  the sum of `Pause` does not wrap.
* `NoTimeLost`: `[]TimeConserved`. Sums and differences of words wrap at most
  once (`WrapOnce`), which reduces each step to linear arithmetic (`Moved`).

`HostSetup_proofs` proves, for every number of ranks and machines, every fabric
and old host file, under `FindAssumption` and the assumptions of `HostSetup`:

* `TypeCorrect`: `[]TypeOK`.
* `FileIsThatOfTheRun`: `[]FileListsRanks`. `FileInv` says that each line
  written so far to a file that could be opened is the address of the listed rank that counts to it; the
  number of listed ranks grows by at most one with each rank, and `StageInv`
  says that rank 0 writes only when it has all addresses.
* `OnlyListedMachinesRun`: `[]UnlistedStaysOut`, and `EveryLineRuns`:
  `[]EveryLineIsANode`. While `chi_net_find` runs, `FindInv` holds and no
  program has started; from then on its file is the input of `HostTable`, whose
  invariant and lemmas are used by instantiating `HostTable_proofs`. `FromFile`
  (an address of a table is a line of the file) and `StaysUp` (no program ends
  on a machine with a line, outside `NoFabric`) are what `HostTable` alone cannot know.

`FullPing_proofs` proves `TypeCorrect` (`[]TypeOK`), `EverythingIsReleased`
(`[]NothingLeaks`), `ReleasesAreRight` (`[]ReleasesWhatIsOpen`) and
`ChildrenCloseFirst` (`ChildrenFirst`, an action property) for any list of
hosts. `LadderInv` says what is open at each rung (`RungInv`), and of a list of
releases that it holds what is open and is not kept, each once, no parent
before a child (`ReleaseInv`).

`DomainQuery_proofs` proves `TypeCorrect` (`[]TypeOK`), `QueriesReadBack`
(`[]ReadsBack`) and `EqualQueriesAgree` (`[]EqualIsSafe`) for any values of the
words, subdomains and slots. What a query reads as does not determine which of
its words were on the stack; `MadeInv` remembers that it is one of the results
of the call that made it, and copies keep that.

Only model-checked: liveness (`StoppedDaemonExits`, `TestEnds`, `DaemonsLeave`,
`ClientEnds`, `SetupEnds`, `TransfersEnd`), which needs `ENABLED` under
fairness, out of reach of the proof system; and the four claims of section 5,
which are refuted by a behaviour each. Every invariant, action property and
refinement that a passing run checks is also proved. `ThalliumRpc` and
`NetFind` have no specification of their own: their actions are proved about in
`NetBench`, `NetPing` and `HostSetup`. `DaemonGroup` is what is implemented,
and has no theorem.

## 5. Where the code and what it says disagree

* `StopAllDaemons` stops its own process first. The handler of that message
  may finalize the client engine before the other messages are sent, and some
  daemons are never told (`bench_stops_all`).
* An asynchronous `IoCall` frees its bulk handle when it returns, while the
  receiver has yet to pull (`bench_io_async`).
* A second server or touchserver removes the marker of the first before it
  fails to bind the port; a client then reports that no server was started
  (`ping_marker`).
* Equality and hash of `DomainQuery` read words of `sel_` that five of its six
  functions leave unset: two queries of the same call may be unequal
  (`query_equal`). What does hold is that equal queries ask for the same
  (`EqualIsSafe`).

Seen while modelling, without a run of their own: the asynchronous `PingAll`
stops counting at the first failed response (`chi_net_bench.cc:62-68`; what
holds of its count is in `CountSound`); `DT_FREE_DATA`, "Free data_ when the
data transfer is complete" (`serialize_defn.h:12-13`), is implemented nowhere,
so that no buffer of a transfer is freed on either side; and `main` of
`fullping` drops the hosts `ParseHostfile` returns and pings `localhost`
(`fullping.cc:220-226`).

## 6. What is not modelled

* `ServerConfig` beyond what `HostSetup` takes from it: the conversion of text
  to numbers and names. Its results are the constants of the modules.
  `num_threads_` may be 0, which `ThalliumRpc` admits; `TestEnds` is checked for
  positive values.
* `UniqueId`, `SubDomainId`, `DomainId`, `SubDomainIdRange`, `UpdateDomainInfo`,
  `CreateContext` and `ResolvedDomainQuery` of `chimaera_types.h`: records of
  integers with member-wise copies, comparison and serialization. No program of
  the repository makes one, so that there is no state to relate them to.
* `GetRpcAddress` and `GetServerName` put text together. The models use the
  node the text names.
* `ServerInit` of `RpcContext` returns early when the table is filled already;
  the programs call it once per process.
* `RpcTaskSubmit` of `chi_net_ping.cc` is never registered, `PingAll<true>`
  of that file never instantiated.
* The Jarvis package and the build files.

## 7. Plan

What is left:

1. Consequences of `DaemonGroup` that hold of both programs (a daemon that left
   was told or is one of `mayVanish`; no call is answered after the last daemon
   departed), proved once of the abstract specification.
2. The same for a wrong file: what `HostTable` still promises without `Sane`.
3. The equality and hash of the remaining value types, once a program uses them.

## 8. Running

    tlc -workers 2 -config bench.cfg NetBench
    tlc -workers 2 -config ping.cfg NetPing
    tlc -workers 2 -config bulk.cfg MCBulkTransfer
    tlc -workers 2 -config hosts.cfg MCHostTable
    tlc -workers 2 -config setup.cfg MCHostSetup
    tlc -workers 2 -config fullping.cfg FullPing
    tlc -workers 2 -config timer.cfg CacheTimer
    tlc -workers 2 -config query.cfg DomainQuery
    tlapm NetBench_proofs.tla
    tlapm NetPing_proofs.tla
    tlapm BulkTransfer_proofs.tla
    tlapm HostTable_proofs.tla
    tlapm HostSetup_proofs.tla
    tlapm FullPing_proofs.tla
    tlapm CacheTimer_proofs.tla
    tlapm DomainQuery_proofs.tla

The violations of section 5, each a counterexample:

    tlc -workers 2 -config bench_stops_all.cfg NetBench
    tlc -workers 2 -config bench_io_async.cfg NetBench
    tlc -workers 2 -config ping_marker.cfg NetPing
    tlc -workers 2 -config query_equal.cfg DomainQuery
