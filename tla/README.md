# HASAS in TLA+

HASAS is a set of C++ programs that move audio from an input (a sound card, an
acquisition card, a recorded file) through a distributor to programs that
analyse it, and from those to graphical clients. This directory holds TLA+
specifications of its servers, the TLC configurations that check them and TLAPS
proofs about them. `PROJECT.json` maps every definition to
the lines it models and lists runs, mutants, findings, hazards and theorems.

    tlc -config StreamDist.cfg MCStreamDist      # a run; see "The runs"
    tlapm StreamDistProofs.tla                   # a proof; see "The proofs"

## The system

| component | state it keeps | operations | what makes it hard, and right |
|---|---|---|---|
| soundsrv2, soundsrva (`SoundSrv2.cc`, `SoundSrvA.cc`) | newest block, its size, header, encoder's header, block counter | read the card, encode, publish; accept; serve a client | threads around one mutex and condition; blocks change size; ends with its input |
| streamdist (`StreamDist.cc`) | newest block, sizes, header, block counter | read an input server, decode, publish; accept; serve all channels or one | the same, plus per-client requests and a decoder that resizes the block |
| filesrv (`FileSrv.cc`) | open file or decoder, format, decoded samples, block | play, stop, close; read and pace; accept; serve | the user changes the file under the Reader's hands |
| soundproxy (`SoundProxy.cc`) | first message, newest block, slot table | relay, accept, serve | two mutexes, timeouts, slots, shutdown |
| soundsrv (`SoundSrv.cc`) | client table, error count | read, accept, serve (Pth) | table full, error budget |
| comedisrv (`ComediSrv.cc`) | like soundsrv2 | like soundsrv2 | acquisition cards |
| uiserv (`UIServ.cc`) | children | accept, fork, exec | reaping, early disconnects |
| level, spectrum, lofardemon, direction 1-3, beamaudio | filter state | request, connect to streamdist, read, process, send | sequential; one failing end |
| savesrv (`SaveSrv.cc`) | open file, start time | read, write, rotate | rotation against the clock |
| beamsrv, beamsrv2 (`BeamSrv.cc`, `BeamSrv2.cc`) | queue, results | distribute a block, collect results | partial failures, semaphore |
| locate (`Locate.cc`, `Cluster.cc`) | result matrix | collect from MPI nodes, publish | any-source receives, shutdown |
| SockOp, SockServ, SockClie | descriptor | ReadN, WriteN, accept | partial transfers |
| Messages, CfgFile, LogFile; signal processing; GUIs | - | conversion, arithmetic, display | no shared state |

How they interact: input servers send one header and then blocks over TCP;
streamdist is a client of one of them and serves local clients over a UNIX
socket with a shorter header, a request (one channel or all) and blocks; uiserv
starts a processing program per connection, which is a client of streamdist;
soundproxy, savesrv, beamsrv and the GUIs are clients too. Inside a server,
threads share a block under a mutex and a condition. The comment in
`SoundSrv2.hh:53-66` calls this the freely spinning architecture: the input
never waits for a client, and a slow client "just misses n blocks of data".

## Modules

| module | what it is |
|---|---|
| `MtxCnd` | the monitor: clMutex and clCondition of the external library libDSP, as the servers use them |
| `BlockStream` | abstract: what the freely spinning servers promise a client |
| `BlockStreamProofs` | theorems about BlockStream, which its implementations inherit |
| `StreamDist` | streamdist, every thread; the inductive invariant |
| `StreamDistProofs` | theorems about StreamDist |
| `SoundSrv2` | soundsrv2, every thread; the inductive invariant |
| `SoundSrv2Proofs` | theorems about SoundSrv2 |
| `FileSrv` | filesrv, every thread; the inductive invariant |
| `FileSrvProofs` | theorems about FileSrv |
| `SoundProxy` | soundproxy, every thread; the inductive invariant |
| `SoundProxyProofs` | theorems about SoundProxy |
| `BeamSrv` | beamsrv: the master's threads, the slave processes, the sockets between them; the inductive invariant |
| `BeamSrvProofs` | theorems about BeamSrv |
| `Locate` | locate: master and slaves over MPI, the master's threads; the inductive invariant |
| `LocateProofs` | theorems about Locate |
| `UIServ` | uiserv, its children, and level as the program they become; the inductive invariant |
| `UIServProofs` | theorems about UIServ |
| `MCStreamDist`, `MCSoundSrv2`, `MCFileSrv`, `MCSoundProxy`, `MCBeamSrv`, `MCLocate`, `MCUIServ` | small instances for TLC |

`StreamDist`, `SoundSrv2`, `SoundProxy` and `BeamSrv` each instantiate
`BlockStream` with a refinement mapping; `StreamDist`, `SoundSrv2`, `FileSrv`
and `SoundProxy` share the monitor `MtxCnd`.

### How state and actions correspond to the code

A variable has the name of the member or local variable it stands for; `pc`,
`pcIn`, `pcReader`, `pcMain`, `pcGui`, `pcWait`, `pcServer`, `pcProc` and
`pcSlave` say where a thread or a process is. Each action is the
code from one place where another thread can interfere to the next: a lock, an
unlock, a wait, a socket call, or an access to shared data without the mutex.
`proc` is "fault" once the program has divided by zero, called the decoder with
NULL or copied beyond a buffer: nothing is known after that and the model stops.
In `SoundProxy` it is "undefined" when the object was deleted under a client
thread; that the main thread returns all the same is what `StopEnds` says.

Where a mutex protects exactly what one step touches, the step is the critical
section and the mutex has no variable: MutexClass of soundproxy, MtxIn and
MtxOut of beamsrv, MtxResMsg of locate. `BeamSrv` and `Locate` have messages in
sequences, one per direction and slave. A socket delivers what was written before
its end was closed; an MPI message can be there before MPI_Send() returns. In
`UIServ` a message is two pieces, so that a read can find half of one, and a
child is wherever the program it runs is: in uiserv's code, in level's, or
("stray") in the server's loop, where one that read less than a name goes.

Data is abstracted to what the properties tell apart. A block is the number of
its publication (in `FileSrv`: its number and the files in it), and a buffer
holds two of them, for its first part (`head`) and the rest (`tail`): a copy is
two steps, and a copy that is disturbed leaves head and tail different. Sizes
in `StreamDist` are samples or bytes, as in the code, and a sample has `GDTSize`
bytes: the code divides now one and now the other by the channels. In the other
modules they are abstract units. A header is its fields. The
history variables (`early`, `late`, `had`, `lost`, `copied`, `playing`,
`stale`, `repeats`, `spurious`, `plays`, `kind`, `blocks`, `decoderFailed`, `outBlk`, `newest`,
`missed`, `round`, `results`) are read by properties and bounds only; `FileSrv` numbers files and blocks with them.

Local variables of a thread are reset when it ends, and a private block is
forgotten after it was written, which keeps the state space small and
changes nothing another thread can see.

Definitions without a place in the code, with names like `SyncOneBack` or
`WakeUpUnlocked`, are plausible mistakes. They are not part of any
specification; `PROJECT.json` ("mutants") says which property fails if one of
them replaces the right definition.

## The runs

| run | instance | shows |
|---|---|---|
| streamdist | 2 interchangeable clients, headers for raw, FLAC and unknown compression, requests for all channels and for the second, which the mono FLAC stream has not got, 2 blocks | TypeOK, NoTornBlock, MutexHeldToCopyOnly, ImplementsBlockStream |
| streamdist_one | 1 client, the same headers and requests, frames of two sizes, blocks that are no multiple of the channels (5 samples of 2 bytes, 3 channels), 4 blocks, up to 2 spurious wakeups | LossesAddUp, LateRawClientServedRight, FaultNeedsEarlyClientOrFLAC |
| streamdist_live | 2 clients, one of whose peers may hang, 2 blocks, fair | StopEnds, WaitingClientIsServed |
| streamdist_flac | 1 client, frames larger than the header says | NoFaultAfterStart is violated |
| soundsrv2 | 2 clients, no, FLAC and unknown compression, 2 blocks, fair | TypeOK, CopyStaysInBuffers, RawSentAsCopied, LateClientIsToldAll, ImplementsBlockStream, InputDeathStops |
| soundsrv2_size | 1 client, FLAC blocks of two sizes | SentAsCopied is violated |
| filesrv | 1 client, 2 files of any kind, 3 blocks, 1 spurious wakeup, fair | TypeOK, FilesUsedLocked, NoTornBlock, HearsTheFileItIsTold, RepeatsExplained, ShutdownCompletes |
| filesrv_wakeup | 2 clients, 1 sound file | AllWokenUp is violated |
| soundproxy | 2 clients, 2 slots, 2 blocks, fair | TypeOK, OwnConnection, HeaderIsReal, NoTornBlock, ImplementsBlockStream, StopEnds |
| beamsrv | 2 slaves, 1 client, 2 blocks, every process may be killed, fair | TypeOK, SemaphoreCountsQueue, LiveChannelsAreRight, ImplementsBlockStream, SlavesDoNotSurvive, StopEndsUnlessCaught |
| locate | 2 slaves with a sensor each, 1 client, 2 results each and one more after the stop, fair | TypeOK, EveryResultInOneRound, ResultsMakeRounds, StopEndsUnlessCaught |
| uiserv | 2 connections, blocks of 2 samples, results of 3, with and without --debug, fair | TypeOK, ShutdownStops, ProcessesEnd |

**Bounds.** `MaxBlocks` bounds the input: afterwards it can only fail, or stall
until the server is stopped. Two blocks are enough for a client to miss one and
be told; four let it miss some twice and get others in between. `MaxPlays = 2`
is enough to change the file once, before, while and after a block is read.
In `StreamDist`
`MaxSpurious` bounds how far spurious wakeups may make the sum of the lost block reports
negative, in `FileSrv` how many a client has; one is enough for a block to be sent
twice, and for a block of an earlier file to be sent again. Two clients are enough for one to be
in the way of the other: threads only meet at the mutex, the condition and the
block, and no code compares clients. filesrv's run has one client because its
GUI and Reader threads are what a client there meets; two clients are covered
by the other servers, and by `filesrv_wakeup`. In `beamsrv` one client is enough
for the same reason, and two slaves are what it takes for one to be reached and
the other not, or for one to take the other's end of the socket into its grave.
In `locate` two slaves can send a round each or both from one, and
`MaxResults = 2` lets a fast one be a whole round ahead; the one more result
after the stop keeps the bound from ending the slaves by itself. In `soundproxy`
both slots fill up, and `WaitConnectThread` is seen to look for a third in vain.
In `uiserv` 2 and 3 samples make every remainder and a block that gives no result;
`sent` is bounded by the two messages a client has to send. A signal that sets
`bRun` is taken once: a second one sets it again.

**Fairness.** Every thread that can take a step by itself takes it some time
(weak fairness: the operating system schedules threads, a sound card delivers
or reports an error, a read from an input server ends by data, end of file or
error). Weak fairness is enough for a thread that waits for a mutex, because a
thread of these models holds or retakes it only finitely often (blocks and
plays are bounded), which stands for a mutex that starves nobody.
Nothing is assumed of a signal, a connection, the user, or a peer that is
`Stuck`; in `SoundSrv2` and `FileSrv` nothing is assumed of any client's peer.
The same goes for the other servers: select() with a timeout returns (soundproxy
reads and writes, uiserv's children wait for a first byte), a peer may stop
reading for ever, and whoever waits for it then is not fair. In `SoundProxy` the
real server is taken to finish a message it has begun, or to close, because
ReadN() has no timeout. In `BeamSrv` all threads and slaves are scheduled, nobody has to be
killed and the input ends or delivers. In `Locate` a slave's MPI_Send() is sure to
return only once the message was received, and direction servers deliver or
close. In `UIServ` level's write is fair only when the client has closed.

**What the violations say.** In streamdist a private buffer has the size a
block had when the client came, but FLAC frames resize the block
(`StreamDist.cc:470`). In soundsrv2 the size is read again after the mutex was
released (`SoundSrv2.cc:652`). In filesrv the last notification, meant to "wake
up all serveclients" (`FileSrv.cc:600`), is missed by a client that tested
`bRun` just before. `PROJECT.json` gives the details.

**What the properties leave open on purpose.** `LateRawClientServedRight` and
`LateClientIsToldAll` speak of clients that came when the stream was set up:
the header is filled in without the mutex while clients are already served, and
an early client can be sent zeros, or divide by zero. `LateRawClientServedRight` also
leaves room for less than one sample: the size to write is a division of bytes
(`StreamDist.cc:447`), the size to copy one of samples (`StreamDist.cc:133`), and
when the block is no multiple of the channels a client that asked for one channel
is written some bytes that were never copied. `FilesUsedLocked` and
`NoTornBlock` of filesrv end where the FLAC decoder fails, because the Reader
then loses the mutex and calls NULL. `ImplementsBlockStream` is checked and
proved without spurious wakeups: with one, a client is sent the same block
twice and -1 blocks are reported lost (`LossesAddUp` holds even then).
filesrv waits without asking what for (`FileSrv.cc:678`), so a block is sent again
each time a wait ends unnotified, and once when the window is closed and everybody is
woken: `RepeatsExplained` says that nothing else makes a client send one again.
`HearsTheFileItIsTold` allows one block of an earlier file, which is what the
code does: the Reader sleeps with a block in hand and does not look again; and it
allows the repetitions of it. Spurious wakeups are modelled in `StreamDist` and
`FileSrv`; soundsrv2, soundproxy, beamsrv and locate are modelled without, so what
is said of these holds for waits that end when they are notified or timed out.
`filesrv_wakeup` has none either: it is about a client that nothing wakes.

`StopEndsUnlessCaught` of beamsrv names what a stop can be caught in
(`Caught`): the process loop waits for a semaphore nobody will post again, because
`InDataThread` calls `Abort()` without a Post (`BeamSrv.cc:633`); or it waits for
the beam of a slave that lives and was sent nothing, because `SendInData()` gave
up at a dead one before it (`BeamSrv.cc:330`) and its result is ignored. `LiveChannelsAreRight`
speaks of slaves that live: the channel of a dead one is the last beam that was
received, perhaps another's. `StopEndsUnlessCaught` of locate has two such cases:
ProcessThread in the middle of a round while the slaves have ended before it
(`ProcCaught`), and a slave in MPI_Send() to a master that has gone (`SendCaught`).
`EveryResultInOneRound` does not say that a round has a result of every slave:
`Probe` takes any source, and a slave that is faster than another counts twice.
A setup that fails in locate returns without `Stop()`, so nothing is
claimed of its slaves. `ShutdownStops` of uiserv excepts a stray child, which looks for
the shutdown file in the loop it should not be in and may take it from the server;
`ProcessesEnd` without --debug says nothing of a client that is gone, because level
then runs on until the stream ends. In soundproxy a client that comes before the first
message is sent whatever the header buffer held, slots are never given back, and a block
that cannot be written in time is dropped: `HeaderIsReal` is about late clients
and half-read headers, and `ImplementsBlockStream` about blocks taken, not written.

## The proofs

    tlapm StreamDistProofs.tla
    tlapm SoundSrv2Proofs.tla
    tlapm FileSrvProofs.tla
    tlapm SoundProxyProofs.tla
    tlapm BeamSrvProofs.tla
    tlapm LocateProofs.tla
    tlapm UIServProofs.tla
    tlapm BlockStreamProofs.tla

Each module proves, for every value of the constants that its assumptions allow,
what a run shows on a small instance: every invariant the runs check, and every
refinement. The argument is the same everywhere: the
properties are not inductive by themselves, so the specification's module ends with an
inductive invariant `IInv`, whose named parts TLC was asked first. In the proofs
module one lemma per part says that every step preserves it, `StepInv`
puts them together, `Invariance` is `Spec => []IInv`, and each theorem follows
from it. Where there is a refinement, `StreamStep` maps each step to one of
`BlockStream` or to a stutter.

| module | theorems, and the property each states |
|---|---|
| `StreamDistProofs` | `TypeCorrect` (TypeOK), `MutexCorrect` (MutexHeldToCopyOnly), `BlocksAreWhole` (NoTornBlock), `LossesAreExact` (LossesAddUp), `LateRawClients` (LateRawClientServedRight), `FaultsExplained` (FaultNeedsEarlyClientOrFLAC), `Refinement` (if `MaxSpurious = 0`: ImplementsBlockStream), `StreamPromise`, `AbortStopsClients` |
| `SoundSrv2Proofs` | `TypeCorrect` (TypeOK), `CopiesFit` (CopyStaysInBuffers), `RawBlocksAreSentWhole` (RawSentAsCopied), `LateClientsAreTold` (LateClientIsToldAll), `Refinement` (ImplementsBlockStream), `StreamPromise` |
| `FileSrvProofs` | `TypeCorrect` (TypeOK), `FilesAreLocked` (FilesUsedLocked), `BlocksAreWhole` (NoTornBlock), `HeadersMatch` (HearsTheFileItIsTold), `BlocksInOrder` (RepeatsExplained) |
| `SoundProxyProofs` | `TypeCorrect` (TypeOK), `ConnectionsKeptApart` (OwnConnection), `HeadersAreReal` (HeaderIsReal), `BlocksAreWhole` (NoTornBlock), `Refinement` (ImplementsBlockStream), `StreamPromise` |
| `BeamSrvProofs` | `TypeCorrect` (TypeOK), `SemaphoreIsExact` (SemaphoreCountsQueue), `LiveChannels` (LiveChannelsAreRight), `Refinement` (ImplementsBlockStream), `StreamPromise`, `HangIsForGood` |
| `LocateProofs` | `TypeCorrect` (TypeOK), `ResultsInOneRound` (EveryResultInOneRound), `StopsArrive`, `HangIsForGood` |
| `UIServProofs` | `TypeCorrect` (TypeOK), `LevelsAreAsked`, `ShutdownNotLost` |
| `BlockStreamProofs` | `NoInventions`, `Promise` |

A theorem without a property in brackets states one that no run checks; it is defined
before the theorem.

**Assumptions.** `ThreadAssumption`: threads have different names, and soundproxy has
at least one slot. `InputAssumption`: headers of an input server have positive
channels, rate and fragment size, a sample has bytes, frames are not empty, compressions
and bounds (`MaxSpurious` among them) are natural numbers; a header with zero channels from upstream is therefore
outside both the runs and the proofs. `BeamAssumption`: there is at least one process.
`LocateAssumption`: mpirun starts at least one process, and the numbers of sensors and
results are natural. `UIServAssumption`: neither a block nor a result of level is empty.
BlockStream assumes nothing.

**streamdist.** `MutexInv`: a client holds the mutex exactly while it copies, and
AudioIn while it stores, so that the two halves of a copy see one block. `BlockInv`:
AudioBuf holds block `iBlockCntr`, its head one more while AudioIn stores. `HeaderInv`:
the header is one that was sent, and a client past the size computation cannot divide by
zero in the copy. `ClientInv`: a streaming client's counter is the blocks it had plus
those it lost, never beyond `iBlockCntr`. `WakeInv`: without spurious wakeups a client
that is awake has a block to take, which makes each `Count` a `Take` of `BlockStream`.
`SetupInv`: the description grows in the order the code fills it in, the shared buffer
last, and of an uncompressed stream it never changes again. `LateInv`: so the size of
the private buffer, the channel and the size to write, each worked out once without the
mutex, stay right for a client that came after that. `ShareInBytes` compares the two
divisions: a channel's share in bytes is the bytes of its share in samples and less than
one sample more. `LateInv` is also what `LateNoFault` needs to show that neither its
division nor its copy can fail.

**soundsrv2.** `MutexInv` and `ClientInv` are like streamdist's. `SetupInv` says how the
description grows and that a late client sees the whole of it. `BlockInv` adds that
once the shared buffer was allocated a block fits it; together with the mutex,
which only AudioIn and a copying client hold, that gives `CopyStaysInBuffers`: the size
cannot change between the growing of the private buffer and the end of the copy.

**filesrv.** All but the types and `FileInv` is claimed until the decoder fails, after
which the Reader holds a mutex that is another's. `FileInv`: at most one file is open, and
none while the button is up, so that `Play` cannot open a second one, and the
format is that of the open sound file. `BlockInv`: blocks are numbered in the order in
which they are read, and one the Reader sleeps on is newer than the published one.
`WakeInv`: while the window is open a client is woken for a block it has not got, or
by an unnotified end of its wait that no repetition has been counted for yet.
`StaleInv` is what `HeadersMatch` takes: while the file a client was told of
is open, only the block the Reader slept on can be of an earlier file; what the client has
got of it, with what it is about to take, is then at most one for its publication, once
that is past, and one per spurious wakeup.

**soundproxy.** `MutexInv` as above. `SlotInv`: a taken slot stays with the connection
that took it and the one about to be given is free, so that no two connections
share one. `FirstMsgInv`: FirstMsg is half-read only while SoundIn reads it,
or after a stop. `BlockInv`: DataMsg holds the block published, and who copies is
behind it.

**beamsrv.** `StartInv`: no input thread before the process loop's time. `SocketInv`: when a
block is sent, nothing is on its way to or from a slave that lives, so that the next beam
from it is of this block. `BeamsInv`: of the block in its hands the master has the
beams of the slaves before `iNode`, and of the others at most one message is under way.
`LiveChannelsAreRight` follows, whichever slaves die at whatever moment. `ClientInv` is
like streamdist's.

**BlockStream.** What the refinements are worth: in the abstract stream a client never has
a block from the future and never more losses than there were blocks (`NoInventions`),
and as long as it stays it gets newer blocks only, each the newest there is, while its losses grow
by exactly what lies in between (`Promise`). `StreamPromise` carries both over to the
four servers that implement it, by nothing but their `Refinement`.

**locate.** `EveryResultInOneRound` is nearly inductive: `InOrder` says of the newest round
and the sum together that each matrix of a slave is followed by the next one of that
slave, up to the last that was received, and the queues say where the next one is.
A received matrix is therefore always the one that fits at the end (`OrderWithNext`), and
publishing a round, which drops the round before, takes away a beginning, which leaves what
follows in order (`OrderOfRest`). `SumInv` types the sequences, and `CountInv` ties
the counter of the loop to the length of the sum, so that a round has as many matrices as
there are slaves. `StopInv` says that the parameters and the stop are sent once each. With
it `StopsArrive` shows the part of the stop that needs no scheduling: a slave has its stop
waiting exactly when `Stop()` has got past it, and `ProbeNB()`, which does not look at the
message, never takes the parameters for it.

**uiserv.** `TypeOK` is nearly inductive: `IInv` adds that a level has samples only
between its first block and its end. `ClientsAsked`, proved on top of it, follows what was
sent through the reads of a child; it is what `ShutdownNotLost` needs to say who can
take the shutdown file away from the server.

**Hangs.** The liveness properties make exceptions: a master caught at its semaphore or at the
beam of a slave that was sent nothing, a round of locate that lost its slaves, a mutex that
FLACWrite left locked. That these are no passing states is proved: `HangIsForGood` (beamsrv:
only the death of the slave frees the master; locate: nothing frees ProcessThread) and
`AbortStopsClients` (streamdist: no block is published and no waiting client wakes).

**Only model-checked:** liveness under fairness, which is out of the prover's reach (no
ENABLED), and the three violations.

## Not modelled, and why

Signal processing, display and conversions have no state that is shared or
that outlives a call; by lines they are most of the repository (`HRTF.h` alone, a
table of filter coefficients, is two thirds of it), so that the part of all lines that the
specifications stand for is small although they cover the servers. Scheduling priorities,
logging and the configuration file do not change what the threads may do to each other.
`iBlockCntr` is an `int` that would overflow after years of blocks; it is unbounded here.
`USE_RWLOCK` is off in the Makefiles' default build and left out. `~clSoundSrv2`
finishes the encoder while client threads may still run; filesrv's pacing by the clock only
decides how long the Reader sleeps. The FLAC library is external: the model of
filesrv takes "process single failed, EOF?" at its word, that is, a file may
end in a failure.

Programs left out:

- soundsrva and comedisrv are soundsrv2 with another card in front, and beamsrv2 is
  beamsrv with the beams formed in the process; their threads meet at the same places.
- soundsrv is an older server on the Pth library, whose threads yield only inside
  library calls; the full client table (`SoundSrv.cc:485`) is listed as a hazard.
- spectrum, lofardemon, direction and beamaudio have the shape of level: request, join,
  receive, process, send. What differs is arithmetic.
- savesrv is one thread; its rotation against the clock is in the plan.
- SockOp is taken at what its callers use of it: all of a message, or an error, in `UIServ`
  a part of one. The transfer loops themselves are in the plan.
- GUIs are event loops around one socket; their work is display.

In `BeamSrv`, beams and slaves are of the same number, and the header a client is
sent before the first block is left out with its `iOutDataCount`, which client threads
read without a mutex (`BeamSrv.cc:681`). In `Locate`, the parameters go to all slaves in
one step (`Locate.cc:177-191`): a stop comes before the first or after the last
of them, not in between. What MPI does with a rank that is not there or with a
call from a signal handler is its choice: the model lets it go on or abort.

## Plan

1. Done: `MtxCnd`, `BlockStream`, `StreamDist`, `SoundSrv2`, `FileSrv`, `SoundProxy`,
   `BeamSrv`, `Locate`, `UIServ` with level; proofs of all their invariants and
   refinements, and of what the refinements promise.
2. Proofs of the steps behind the liveness properties: that after a stop every step of an
   input thread brings it nearer to its end; that filesrv's exceptions are hangs too.
3. `SockOp` as an algorithm (ReadN and WriteN against "all or an error"),
   `SaveSrv`'s rotation, `SoundSrv`'s client table, soundsrva as a variant of soundsrv2.
4. level composed with `BlockStream` as its upstream, so that a block lost by streamdist
   is seen in the result.
