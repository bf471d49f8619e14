----------------------------- MODULE StreamDist -----------------------------
(***************************************************************************)
(* streamdist, the audio stream distributor (StreamDist.cc).               *)
(*                                                                         *)
(* One AudioIn thread reads blocks of samples from an input server, copies *)
(* each to the shared AudioBuf and broadcasts CndAudio.  One ServeClient   *)
(* thread per connection waits for the condition, copies AudioBuf to its   *)
(* private OutBuf and writes that to its socket with the mutex released.   *)
(* The main thread accepts connections.  bRun = FALSE asks all of them to  *)
(* end.  Locking is the default build's (USE_RWLOCK off, USE_FLAC on).     *)
(*                                                                         *)
(* iFragmentSize counts samples, of GDTSize bytes each; the sizes of       *)
(* buffers, and what is copied and written, are in bytes.  The content of  *)
(* a buffer is the number of the block its first sample (head) and its     *)
(* other samples (tail) come from; copying a buffer is two steps, so a     *)
(* copy that another thread disturbs shows as head # tail.                 *)
(*                                                                         *)
(* PublishToOne, MainJoinAll, ServeStartHalf, OutSizeWhole, SyncOneBack,   *)
(* WakeUpUnlocked, AdvanceOffByOne, AdvanceUnsynced and CountSendsLocked   *)
(* are mistakes the code does not make; PROJECT.json says which property   *)
(* each of them breaks.                                                    *)
(***************************************************************************)
EXTENDS Integers

CONSTANTS Clients,          \* connections, each served by a thread of its own
          Stuck,            \* those whose peer may stop reading or writing
          AudioIn,          \* the input thread
          NoThread,         \* holder of a free mutex
          Headers,          \* stream headers the input server may send
          GDTSize,          \* sizeof(GDT), the bytes of a sample
          FrameSizes,       \* samples a decoded FLAC frame may have
          Requests,         \* channels clients ask for
          MaxBlocks,        \* the input server sends at most so many blocks
          MaxSpurious       \* bounds the unnotified returns of
                            \* pthread_cond_wait(); 0 rules them out

MSG_SOUND_COMPRESS_NONE == 0
MSG_SOUND_COMPRESS_FLAC == 1

ASSUME ThreadAssumption ==
    /\ Stuck \subseteq Clients
    /\ AudioIn \notin Clients
    /\ NoThread \notin Clients \cup {AudioIn}

ASSUME InputAssumption ==
    /\ Headers \subseteq [iChannels : Nat \ {0}, dSampleRate : Nat \ {0},
                          iFragmentSize : Nat \ {0}, iCompress : Nat]
    /\ GDTSize \in Nat \ {0}
    /\ FrameSizes \subseteq Nat \ {0}
    /\ Requests \subseteq Int
    /\ MaxBlocks \in Nat
    /\ MaxSpurious \in Nat

VARIABLES
    bRun,            \* FALSE once somebody has called Stop()
    proc,            \* "running", "exited", or "fault": see Fault
    pcMain,          \* where the main thread is
    pcIn,            \* where the AudioIn thread is
    sInHdr,          \* AudioIn's own copy of the header it received
    iFragmentSize,   \* shared: samples in a block,
    iAudioBufSize,   \*   the bytes of it, and
    sHdr,            \*   the header clients are sent
    AudioBuf,        \* shared: the newest block
    iBlockCntr,      \* shared: the number of blocks published
    MtxAudio,        \* protects AudioBuf (and, in part, the above)
    CndAudio         \* "there is a new block"

inVars == <<sInHdr, iFragmentSize, iAudioBufSize, sHdr>>

VARIABLES
    pc,              \* c -> where the thread of c is
    bConnected,      \* c -> has no socket operation failed?
    OutBuf,          \* c -> the private buffer: its size and content
    sReq,            \* c -> the channel c asked for, -1 for all of them
    iOutSize,        \* c -> how many bytes are written to c per block
    iLocalBlockCntr  \* c -> the number of the block c is at

clVars == <<bConnected, OutBuf, sReq, iOutSize, iLocalBlockCntr>>

\* History, for the properties alone.
VARIABLES
    early,           \* c -> did its thread start before the buffers stood?
    copied,          \* c -> bytes copied for c that are not written yet
    had,             \* c -> iBlockCntr when c began to wait for blocks, plus
                     \*      the blocks it has copied since
    lost             \* c -> the sum of the "blocks lost" reports for c

hist == <<early, copied, had, lost>>

vars == <<bRun, proc, pcMain, pcIn, inVars, AudioBuf, iBlockCntr, MtxAudio,
          CndAudio, pc, clVars, hist>>

Audio == INSTANCE MtxCnd WITH Mtx <- MtxAudio, Cnd <- CndAudio

NoHdr == [iChannels |-> 0, dSampleRate |-> 0]

NoInHdr == [iChannels |-> 0, dSampleRate |-> 0, iFragmentSize |-> 0,
            iCompress |-> MSG_SOUND_COMPRESS_NONE]

EmptyBuf == [size |-> 0, head |-> 0, tail |-> 0]
-----------------------------------------------------------------------------
\* The global StreamDist object: zeroed, then constructed.
Init ==
    /\ bRun = TRUE
    /\ proc = "running"
    /\ pcMain = "accept"
    /\ pcIn = "connect"
    /\ sInHdr = NoInHdr            \* not read before the header arrives
    /\ iFragmentSize = 0
    /\ iAudioBufSize = 0
    /\ sHdr = NoHdr
    /\ AudioBuf = EmptyBuf
    /\ iBlockCntr = 0
    /\ MtxAudio = NoThread
    /\ CndAudio = {}
    /\ pc = [c \in Clients |-> "unborn"]
    /\ bConnected = [c \in Clients |-> TRUE]
    /\ OutBuf = [c \in Clients |-> EmptyBuf]
    /\ sReq = [c \in Clients |-> -1]
    /\ iOutSize = [c \in Clients |-> 0]
    /\ iLocalBlockCntr = [c \in Clients |-> 0]
    /\ early = [c \in Clients |-> FALSE]
    /\ copied = [c \in Clients |-> 0]
    /\ had = [c \in Clients |-> 0]
    /\ lost = [c \in Clients |-> 0]

\* The program divides by zero or copies beyond a buffer: nothing is known
\* of what it does from here on, and the model stops.
Fault == proc' = "fault"
-----------------------------------------------------------------------------
(* The main thread, and the signals it receives.                           *)

MainAt(p) == proc = "running" /\ pcMain = p

mainUnchanged == UNCHANGED <<pcIn, inVars, AudioBuf, iBlockCntr, MtxAudio,
                             CndAudio, clVars, hist>>

\* SIGINT, SIGHUP or SIGTERM: the handler calls Stop().
Signal ==
    /\ proc = "running"
    /\ bRun
    /\ bRun' = FALSE
    /\ UNCHANGED <<proc, pcMain, pc>> /\ mainUnchanged

\* The head of the accept loop finds ~bRun, or the shutdown file.
MainStop ==
    /\ MainAt("accept")
    /\ bRun' = FALSE
    /\ pcMain' = "join"
    /\ UNCHANGED <<proc, pc>> /\ mainUnchanged

\* WaitForConnect() returns a connection, whose thread is created and
\* detached; then bRun is tested.  Stop() may have been called meanwhile.
MainAccept(c) ==
    /\ MainAt("accept")
    /\ pc[c] = "unborn"
    /\ pc' = [pc EXCEPT ![c] = "start"]
    /\ pcMain' = IF bRun THEN "accept" ELSE "join"
    /\ UNCHANGED <<bRun, proc>> /\ mainUnchanged

Join ==
    /\ MainAt("join")
    /\ pcIn \in {"ended", "dead"}
    /\ pcMain' = "exit"
    /\ proc' = "exited"
    /\ UNCHANGED <<bRun, pc>> /\ mainUnchanged

MainJoinAll == Join /\ \A c \in Clients : pc[c] \in {"unborn", "gone"}

\* pthread_join(AudioIn), then main() returns: the process is gone, and with
\* it every ServeClient thread, whatever it is doing.
MainJoin == Join
-----------------------------------------------------------------------------
(* The AudioIn thread.                                                     *)

InAt(p) == proc = "running" /\ pcIn = p

inUnchanged == UNCHANGED <<bRun, proc, pcMain, pc, clVars, hist>>

\* InitCompress() knows FLAC alone, and may fail to set it up.
InitCompress(iCompress) ==
    IF iCompress = MSG_SOUND_COMPRESS_FLAC THEN {TRUE, FALSE} ELSE {FALSE}

\* Configuration, connection to the input server, header, decoder.  Every
\* failure ends the thread with status 2; none of them calls Stop().
AudioInConnect ==
    /\ InAt("connect")
    /\ \/ pcIn' = "dead" /\ sInHdr' = sInHdr
       \/ \E h \in Headers :
             /\ sInHdr' = h
             /\ \/ /\ h.iCompress = MSG_SOUND_COMPRESS_NONE
                   /\ pcIn' = "sizes"
                \/ /\ h.iCompress # MSG_SOUND_COMPRESS_NONE
                   /\ \E ok \in InitCompress(h.iCompress) :
                         pcIn' = IF ok THEN "sizes" ELSE "dead"
    /\ UNCHANGED <<iFragmentSize, iAudioBufSize, sHdr, AudioBuf, iBlockCntr,
                   MtxAudio, CndAudio>>
    /\ inUnchanged

\* The shared description of the stream is filled in without the mutex, one
\* assignment after the other, while client threads may be reading it.
AudioInSizes ==
    /\ InAt("sizes")
    /\ iFragmentSize' = sInHdr.iFragmentSize
    /\ iAudioBufSize' = sInHdr.iFragmentSize * GDTSize
    /\ pcIn' = "channels"
    /\ UNCHANGED <<sInHdr, sHdr, AudioBuf, iBlockCntr, MtxAudio, CndAudio>>
    /\ inUnchanged

AudioInChannels ==
    /\ InAt("channels")
    /\ sHdr' = [sHdr EXCEPT !.iChannels = sInHdr.iChannels]
    /\ pcIn' = "rate"
    /\ UNCHANGED <<sInHdr, iFragmentSize, iAudioBufSize, AudioBuf, iBlockCntr,
                   MtxAudio, CndAudio>>
    /\ inUnchanged

AudioInRate ==
    /\ InAt("rate")
    /\ sHdr' = [sHdr EXCEPT !.dSampleRate = sInHdr.dSampleRate]
    /\ pcIn' = "buffers"
    /\ UNCHANGED <<sInHdr, iFragmentSize, iAudioBufSize, AudioBuf, iBlockCntr,
                   MtxAudio, CndAudio>>
    /\ inUnchanged

AudioInBuffers ==
    /\ InAt("buffers")
    /\ AudioBuf' = [AudioBuf EXCEPT !.size = iAudioBufSize]
    /\ pcIn' = IF sInHdr.iCompress = MSG_SOUND_COMPRESS_FLAC
               THEN "decode" ELSE "loop"
    /\ UNCHANGED <<inVars, iBlockCntr, MtxAudio, CndAudio>>
    /\ inUnchanged

\* while (bRun), then ReadN() of a whole block; anything less is an error, and
\* the thread returns 2 without a Stop().
AudioInRead ==
    /\ InAt("loop")
    /\ \/ ~bRun /\ pcIn' = "ended"
       \/ bRun /\ iBlockCntr < MaxBlocks /\ pcIn' = "lock"
       \/ bRun /\ pcIn' = "dead"
    /\ UNCHANGED <<inVars, AudioBuf, iBlockCntr, MtxAudio, CndAudio>>
    /\ inUnchanged

\* MtxAudio.Wait(), and the first part of the copy.
AudioInCopy ==
    /\ InAt("lock")
    /\ Audio!Lock(AudioIn)
    /\ AudioBuf' = [AudioBuf EXCEPT !.head = iBlockCntr + 1]
    /\ pcIn' = "publish"
    /\ UNCHANGED <<inVars, iBlockCntr, CndAudio>>
    /\ inUnchanged

Store ==
    /\ AudioBuf' = [AudioBuf EXCEPT !.tail = iBlockCntr + 1]
    /\ iBlockCntr' = iBlockCntr + 1
    /\ Audio!Unlock
    /\ UNCHANGED inVars
    /\ inUnchanged

PublishToOne ==
    /\ Store
    /\ IF CndAudio = {} THEN UNCHANGED CndAudio
       ELSE \E t \in CndAudio : CndAudio' = CndAudio \ {t}

\* The rest of the copy, iBlockCntr++, NotifyAll() and Release().
Publish == Store /\ Audio!NotifyAll

AudioInPublish ==
    /\ InAt("publish")
    /\ pcIn' = "loop"
    /\ Publish
-----------------------------------------------------------------------------
(* The AudioIn thread inside the FLAC decoder.                             *)

\* The decoder has read enough for another frame and calls FLACWrite; or
\* FLACRead ends the stream: read error, end of file, or ~bRun.
FLACDecode ==
    /\ InAt("decode")
    /\ \/ iBlockCntr < MaxBlocks /\ pcIn' = "flacLock"
       \/ pcIn' = "idle"
    /\ UNCHANGED <<inVars, AudioBuf, iBlockCntr, MtxAudio, CndAudio>>
    /\ inUnchanged

\* FLACWrite: a frame of another size than the last block's resizes
\* everything that is shared.
Resize(uiSamples) ==
    IF uiSamples # iFragmentSize
    THEN /\ iFragmentSize' = uiSamples
         /\ iAudioBufSize' = uiSamples * GDTSize
    ELSE UNCHANGED <<iFragmentSize, iAudioBufSize>>

\* Samples of 8, 16 and 24 bits are copied.  Any other length aborts the
\* decoder by a return in the middle, which leaves MtxAudio locked.
FLACCopy ==
    /\ InAt("flacLock")
    /\ Audio!Lock(AudioIn)
    /\ \E uiSamples \in FrameSizes :
          /\ Resize(uiSamples)
          /\ \/ /\ AudioBuf' = [AudioBuf EXCEPT !.size = uiSamples * GDTSize,
                                                !.head = iBlockCntr + 1]
                /\ pcIn' = "flacPublish"
             \/ /\ AudioBuf' = [AudioBuf EXCEPT !.size = uiSamples * GDTSize]
                /\ pcIn' = "idle"
    /\ UNCHANGED <<sInHdr, sHdr, iBlockCntr, CndAudio>>
    /\ inUnchanged

FLACPublish ==
    /\ InAt("flacPublish")
    /\ pcIn' = "decode"
    /\ Publish

\* When the decoder is done the thread sleeps until ~bRun.
FLACIdle ==
    /\ InAt("idle")
    /\ ~bRun
    /\ pcIn' = "ended"
    /\ UNCHANGED <<inVars, AudioBuf, iBlockCntr, MtxAudio, CndAudio>>
    /\ inUnchanged
-----------------------------------------------------------------------------
(* The ServeClient thread of connection c.                                 *)

clUnchanged == UNCHANGED <<bRun, pcMain, pcIn, inVars, AudioBuf, iBlockCntr>>

Goto(c, from, to) ==
    /\ proc = "running"
    /\ pc[c] = from
    /\ pc' = [pc EXCEPT ![c] = to]

\* A socket operation fails: bConnected is cleared, the thread goes on.
Fail(c) == bConnected' = [bConnected EXCEPT ![c] = FALSE]

Start(c, n) ==
    /\ Goto(c, "start", "sendHdr")
    /\ OutBuf' = [OutBuf EXCEPT ![c].size = n]
    /\ early' = [early EXCEPT ![c] = AudioBuf.size = 0]
    /\ UNCHANGED <<proc, MtxAudio, CndAudio, bConnected, sReq, iOutSize,
                   iLocalBlockCntr, copied, had, lost>>
    /\ clUnchanged

ServeStartHalf(c) == Start(c, iAudioBufSize \div 2)

\* The constructor of OutBuf takes the size a block has now.
ServeStart(c) == Start(c, iAudioBufSize)

\* WriteN(sHdr): whatever it holds now.
SendHdr(c) ==
    /\ Goto(c, "sendHdr", "recvReq")
    /\ Fail(c) \/ UNCHANGED bConnected
    /\ UNCHANGED <<proc, MtxAudio, CndAudio, OutBuf, sReq, iOutSize,
                   iLocalBlockCntr, hist>>
    /\ clUnchanged

\* The request: a channel, refused if the stream has not got it.  When none
\* arrives, sReq stays what happened to be on the stack, and is used.
RecvReq(c) ==
    /\ Goto(c, "recvReq", "outSize")
    /\ \E ch \in Requests :
          /\ sReq' = [sReq EXCEPT ![c] = ch]
          /\ Fail(c) \/ (ch < sHdr.iChannels /\ UNCHANGED bConnected)
    /\ UNCHANGED <<proc, MtxAudio, CndAudio, OutBuf, iOutSize,
                   iLocalBlockCntr, hist>>
    /\ clUnchanged

SizeOf(c, one) ==
    /\ Goto(c, "outSize", "sync")
    /\ IF sReq[c] >= 0 /\ sHdr.iChannels = 0
       THEN Fault /\ UNCHANGED iOutSize
       ELSE /\ iOutSize' = [iOutSize EXCEPT ![c] =
                               IF sReq[c] < 0 THEN iAudioBufSize ELSE one]
            /\ UNCHANGED proc
    /\ UNCHANGED <<MtxAudio, CndAudio, bConnected, OutBuf, sReq,
                   iLocalBlockCntr, hist>>
    /\ clUnchanged

OutSizeWhole(c) == SizeOf(c, iAudioBufSize)

\* Computed once, and, for a single channel, by a division that is carried
\* out even when the request has just been refused.  It is bytes that are
\* divided, so that it need not be a whole number of samples.
OutSize(c) == SizeOf(c, iAudioBufSize \div sHdr.iChannels)

SyncAt(c, n) ==
    /\ Goto(c, "sync", "test")
    /\ iLocalBlockCntr' = [iLocalBlockCntr EXCEPT ![c] = n]
    /\ had' = [had EXCEPT ![c] = n]
    /\ UNCHANGED <<proc, MtxAudio, CndAudio, bConnected, OutBuf, sReq,
                   iOutSize, early, copied, lost>>
    /\ clUnchanged

SyncOneBack(c) == SyncAt(c, iBlockCntr - 1)

\* iLocalBlockCntr = iBlockCntr, read without the mutex.
Sync(c) == SyncAt(c, iBlockCntr)

\* while (bRun && bConnected)
Test(c) ==
    /\ bRun /\ bConnected[c]
    /\ Goto(c, "test", "lock")
    /\ UNCHANGED <<proc, MtxAudio, CndAudio, clVars, hist>>
    /\ clUnchanged

\* The thread ends, and its variables with it.
Leave(c) ==
    /\ ~bRun \/ ~bConnected[c]
    /\ Goto(c, "test", "gone")
    /\ bConnected' = [bConnected EXCEPT ![c] = TRUE]
    /\ OutBuf' = [OutBuf EXCEPT ![c] = EmptyBuf]
    /\ sReq' = [sReq EXCEPT ![c] = -1]
    /\ iOutSize' = [iOutSize EXCEPT ![c] = 0]
    /\ iLocalBlockCntr' = [iLocalBlockCntr EXCEPT ![c] = 0]
    /\ early' = [early EXCEPT ![c] = FALSE]
    /\ copied' = [copied EXCEPT ![c] = 0]
    /\ had' = [had EXCEPT ![c] = 0]
    /\ lost' = [lost EXCEPT ![c] = 0]
    /\ UNCHANGED <<proc, MtxAudio, CndAudio>>
    /\ clUnchanged

\* MtxAudio.Wait() and CndAudio.Wait(), with nothing in between.  There is no
\* predicate: the thread waits even if a block it has not had was published
\* since, and believes whatever wakes it up.
WaitAudio(c) ==
    /\ Goto(c, "lock", "wait")
    /\ MtxAudio = NoThread
    /\ Audio!Wait(c)
    /\ UNCHANGED <<proc, clVars, hist>>
    /\ clUnchanged

SpuriousWakeup(c) ==
    /\ proc = "running"
    /\ MaxSpurious > 0
    /\ lost[c] > -MaxSpurious
    /\ Audio!Spurious(c)
    /\ UNCHANGED <<proc, pc, MtxAudio, clVars, hist>>
    /\ clUnchanged

\* How much memcpy() (all channels) or CopyChannel() (one) moves: the latter
\* whole samples, as many as there are for each of the channels.
CopySize(c) ==
    IF sReq[c] < 0 THEN iAudioBufSize
    ELSE (iFragmentSize \div sHdr.iChannels) * GDTSize

\* The copy starts; one beyond either buffer is a fault.
CopyHead(c) ==
    /\ IF CopySize(c) > OutBuf[c].size \/ iAudioBufSize > AudioBuf.size
       THEN Fault /\ UNCHANGED <<OutBuf, copied>>
       ELSE /\ OutBuf' = [OutBuf EXCEPT ![c].head = AudioBuf.head]
            /\ copied' = [copied EXCEPT ![c] = CopySize(c)]
            /\ UNCHANGED proc
    /\ UNCHANGED <<CndAudio, bConnected, sReq, iOutSize, iLocalBlockCntr, early,
                   had, lost>>
    /\ clUnchanged

WakeUpUnlocked(c) ==
    /\ Goto(c, "wait", "count")
    /\ c \notin CndAudio
    /\ UNCHANGED MtxAudio
    /\ CopyHead(c)

\* Out of the wait set, pthread_cond_wait() locks the mutex again.
WakeUp(c) ==
    /\ Goto(c, "wait", "count")
    /\ c \notin CndAudio
    /\ Audio!Lock(c)
    /\ CopyHead(c)

AdvanceFrom(c, local, to) ==
    /\ lost' = [lost EXCEPT ![c] = @ + (iBlockCntr - local)]
    /\ iLocalBlockCntr' = [iLocalBlockCntr EXCEPT ![c] = to]

AdvanceOffByOne(c) == AdvanceFrom(c, iLocalBlockCntr[c], iBlockCntr)

AdvanceUnsynced(c) == AdvanceFrom(c, iLocalBlockCntr[c] + 1, iLocalBlockCntr[c] + 1)

\* iLocalBlockCntr++; if it is not iBlockCntr now, report the difference as
\* lost and catch up.
Advance(c) == AdvanceFrom(c, iLocalBlockCntr[c] + 1, iBlockCntr)

CopyTail(c) ==
    /\ Goto(c, "count", "send")
    /\ OutBuf' = [OutBuf EXCEPT ![c].tail = AudioBuf.tail]
    /\ had' = [had EXCEPT ![c] = @ + 1]
    /\ Advance(c)
    /\ UNCHANGED <<proc, CndAudio, bConnected, sReq, iOutSize, early, copied>>
    /\ clUnchanged

CountSendsLocked(c) == CopyTail(c) /\ UNCHANGED MtxAudio

\* The copy ends; the counters are compared and the mutex is released.
Count(c) == CopyTail(c) /\ Audio!Unlock

\* WriteN(OutBuf, iOutSize), outside the mutex; it may block for long.  What
\* OutBuf holds is not read again, and the model forgets it.
SendBlock(c) ==
    /\ Goto(c, "send", "test")
    /\ Fail(c) \/ UNCHANGED bConnected
    /\ OutBuf' = [OutBuf EXCEPT ![c].head = 0, ![c].tail = 0]
    /\ copied' = [copied EXCEPT ![c] = 0]
    /\ UNCHANGED <<proc, MtxAudio, CndAudio, sReq, iOutSize, iLocalBlockCntr,
                   early, had, lost>>
    /\ clUnchanged
-----------------------------------------------------------------------------
Main == MainStop \/ MainJoin \/ \E c \in Clients : MainAccept(c)

Input ==
    \/ AudioInConnect
    \/ AudioInSizes \/ AudioInChannels \/ AudioInRate \/ AudioInBuffers
    \/ AudioInRead \/ AudioInCopy \/ AudioInPublish
    \/ FLACDecode \/ FLACCopy \/ FLACPublish \/ FLACIdle

\* What the thread of c does by itself, and what it needs its peer for.
Compute(c) ==
    \/ ServeStart(c) \/ OutSize(c) \/ Sync(c) \/ Test(c)
    \/ Leave(c)
    \/ WaitAudio(c) \/ WakeUp(c) \/ Count(c)

Talk(c) == SendHdr(c) \/ RecvReq(c) \/ SendBlock(c)

Serve(c) == Compute(c) \/ Talk(c) \/ SpuriousWakeup(c)

Terminated ==
    /\ proc # "running"
    /\ UNCHANGED vars

Next == Signal \/ Main \/ Input \/ (\E c \in Clients : Serve(c)) \/ Terminated

Spec == Init /\ [][Next]_vars

\* The operating system lets every thread run.  A read from the input server
\* or a write to a client ends some time, by data, end of file or an error;
\* but not if the peer is Stuck, and neither a connection nor a signal has
\* to come.
Fairness ==
    /\ WF_vars(~bRun /\ MainStop)
    /\ WF_vars(MainJoin)
    /\ WF_vars(Input)
    /\ \A c \in Clients : WF_vars(Compute(c))
    /\ \A c \in Clients \ Stuck : WF_vars(Talk(c))

FairSpec == Spec /\ Fairness
-----------------------------------------------------------------------------
\* The states of a client thread that serves blocks.
Streaming == {"test", "lock", "wait", "count", "send"}

Raw == sInHdr.iCompress = MSG_SOUND_COMPRESS_NONE

\* Every variable keeps its type.
TypeOK ==
    /\ bRun \in BOOLEAN
    /\ proc \in {"running", "exited", "fault"}
    /\ pcMain \in {"accept", "join", "exit"}
    /\ pcIn \in {"connect", "sizes", "channels", "rate", "buffers",
                 "loop", "lock", "publish", "decode", "flacLock",
                 "flacPublish", "idle", "ended", "dead"}
    /\ sInHdr \in Headers \cup {NoInHdr}
    /\ iFragmentSize \in Nat
    /\ iAudioBufSize \in Nat
    /\ sHdr \in [iChannels : Nat, dSampleRate : Nat]
    /\ AudioBuf \in [size : Nat, head : Nat, tail : Nat]
    /\ iBlockCntr \in Nat
    /\ MtxAudio \in Clients \cup {AudioIn, NoThread}
    /\ CndAudio \subseteq Clients
    /\ pc \in [Clients -> {"unborn", "start", "sendHdr", "recvReq",
                           "outSize", "sync", "test", "lock", "wait", "count",
                           "send", "gone"}]
    /\ bConnected \in [Clients -> BOOLEAN]
    /\ OutBuf \in [Clients -> [size : Nat, head : Nat, tail : Nat]]
    /\ sReq \in [Clients -> Requests \cup {-1}]
    /\ iOutSize \in [Clients -> Nat]
    /\ iLocalBlockCntr \in [Clients -> Nat]
    /\ early \in [Clients -> BOOLEAN]
    /\ copied \in [Clients -> Nat]
    /\ had \in [Clients -> Nat]
    /\ lost \in [Clients -> Int]

\* What a client thread is about to write is one block, never a mixture of
\* the block it copied and the next one AudioIn stored meanwhile, and its
\* own counter names that block.
NoTornBlock ==
    \A c \in Clients :
        pc[c] = "send" => /\ OutBuf[c].head = OutBuf[c].tail
                          /\ OutBuf[c].tail = iLocalBlockCntr[c]

\* The "blocks lost" reports are exact: the block in a client's hands is the
\* one it joined at, plus the blocks it took, plus the blocks reported lost
\* to it, however slow it was, and it is not from the future.
LossesAddUp ==
    \A c \in Clients :
        pc[c] = "send" => /\ OutBuf[c].tail = had[c] + lost[c]
                          /\ OutBuf[c].tail <= iBlockCntr

\* The mutex is held to copy a block, never while a thread is blocked in a
\* socket operation or asleep; the one exception is the input thread after
\* FLACWrite has aborted.
MutexHeldToCopyOnly ==
    /\ \A c \in Clients : MtxAudio = c => pc[c] = "count"
    /\ MtxAudio = AudioIn =>
          \/ pcIn \in {"publish", "flacPublish"}
          \/ ~Raw /\ pcIn \in {"idle", "ended"}

\* What sHdr is once AudioIn has filled it in.
StreamHdr == [iChannels   |-> sInHdr.iChannels,
              dSampleRate |-> sInHdr.dSampleRate]

\* A client of an uncompressed stream whose thread started once the shared
\* buffers stood is sent the header of the stream, and per block, out of its
\* own buffer, what was copied for it: all of that and, because ServeClient
\* divides bytes where CopyChannel divides samples, less than a sample more,
\* and nothing more when the channels of a block have equally many samples.
LateRawClientServedRight ==
    \A c \in Clients :
        Raw /\ ~early[c] =>
            /\ pc[c] = "sendHdr" => sHdr = StreamHdr
            /\ pc[c] = "send" =>
                  /\ sReq[c] < sInHdr.iChannels
                  /\ iOutSize[c] <= OutBuf[c].size
                  /\ copied[c] <= iOutSize[c]
                  /\ iOutSize[c] < copied[c] + GDTSize
                  /\ sReq[c] < 0 \/ iFragmentSize % sInHdr.iChannels = 0 =>
                        iOutSize[c] = copied[c]

\* Dividing by zero and copying beyond a buffer take a client that came
\* before the stream, or a compressed stream.
FaultNeedsEarlyClientOrFLAC ==
    proc = "fault" => ~Raw \/ \E c \in Clients : early[c]

\* The same without the compressed stream as an excuse.
NoFaultAfterStart ==
    proc = "fault" => \E c \in Clients : early[c]

\* The "freely spinning" stream of blocks, seen in this server: a client
\* that is about to write a block has taken it, and stays at it until it has
\* copied another.
Stream == INSTANCE BlockStream WITH
    published <- iBlockCntr,
    joined    <- {c \in Clients : pc[c] \in Streaming},
    newest    <- [c \in Clients |-> IF pc[c] = "send" THEN OutBuf[c].tail
                                    ELSE iLocalBlockCntr[c]],
    missed    <- lost

\* Threads, mutex, condition and buffers together give every client that
\* stream: whole blocks, each newer than the one before, and a true count of
\* the blocks in between.
ImplementsBlockStream == Stream!Spec

\* Stop() ends the server, whatever its clients do: the threads that wait
\* for a block that will not come, or write to a peer that does not read,
\* do not keep the process alive.
StopEnds == ~bRun ~> proc # "running"

\* No lost wakeup: a client that sleeps when another block is published takes
\* that block or a newer one, whatever the other clients do.  (A mutex that
\* FLACWrite has left locked stops everybody.)
WaitingClientIsServed ==
    \A c \in Clients \ Stuck, n \in 0 .. MaxBlocks - 1 :
        []( c \in CndAudio /\ iBlockCntr = n /\ <>(iBlockCntr > n)
            => <>(\/ iLocalBlockCntr[c] > n
                  \/ proc # "running"
                  \/ MtxAudio = AudioIn /\ pcIn \in {"idle", "ended"}) )
-----------------------------------------------------------------------------
(* The inductive invariant of the proofs in StreamDistProofs.tla.          *)

\* A client thread holds the mutex exactly while it copies; AudioIn while it
\* stores a block, and for ever after FLACWrite has aborted.
MutexInv ==
    /\ \A c \in Clients : MtxAudio = c <=> pc[c] = "count"
    /\ pcIn \in {"publish", "flacPublish"} => MtxAudio = AudioIn
    /\ MtxAudio = AudioIn =>
          \/ pcIn \in {"publish", "flacPublish"}
          \/ ~Raw /\ pcIn \in {"idle", "ended"}
    /\ pcIn \in {"decode", "flacLock", "flacPublish", "idle"} => ~Raw

\* AudioBuf holds the block iBlockCntr counts, or is on its way to the next.
BlockInv ==
    /\ AudioBuf.tail = iBlockCntr
    /\ AudioBuf.head = IF pcIn \in {"publish", "flacPublish"}
                       THEN iBlockCntr + 1 ELSE iBlockCntr

\* The header AudioIn works with is one it was sent, and no thread gets past
\* OutSize with a division by zero ahead of it.
HeaderInv ==
    /\ pcIn \notin {"connect", "dead"} => sInHdr \in Headers
    /\ \A c \in Clients :
          /\ proc # "fault"
          /\ pc[c] \in Streaming \cup {"sync"}
          /\ sReq[c] >= 0
          => sHdr.iChannels > 0

\* What a client thread knows of the stream.
ClientInv ==
    \A c \in Clients :
        /\ c \in CndAudio => pc[c] = "wait"
        /\ pc[c] = "count" /\ proc # "fault" => OutBuf[c].head = iBlockCntr
        /\ pc[c] = "send" => /\ OutBuf[c].head = iLocalBlockCntr[c]
                             /\ OutBuf[c].tail = iLocalBlockCntr[c]
        /\ pc[c] \in Streaming => /\ iLocalBlockCntr[c] = had[c] + lost[c]
                                  /\ iLocalBlockCntr[c] <= iBlockCntr
        /\ pc[c] \notin Streaming => lost[c] = 0

\* Without spurious wakeups, a thread that is awake has a block to take.
WakeInv ==
    MaxSpurious = 0 =>
        \A c \in Clients :
            pc[c] = "count" \/ (pc[c] = "wait" /\ c \notin CndAudio)
                => iLocalBlockCntr[c] < iBlockCntr

\* The description of the stream grows while AudioIn sets it up; the shared
\* buffer comes last.  Of an uncompressed stream nothing changes from then on.
SetupInv ==
    /\ pcIn = "connect" => sInHdr = NoInHdr
    /\ pcIn \in {"connect", "sizes", "channels", "rate", "buffers"} =>
          AudioBuf.size = 0
    /\ pcIn \in {"channels", "rate", "buffers"} =>
          /\ iFragmentSize = sInHdr.iFragmentSize
          /\ iAudioBufSize = sInHdr.iFragmentSize * GDTSize
    /\ pcIn \in {"rate", "buffers"} => sHdr.iChannels = sInHdr.iChannels
    /\ pcIn = "buffers" => sHdr.dSampleRate = sInHdr.dSampleRate
    /\ Raw /\ AudioBuf.size # 0 =>
          /\ sInHdr \in Headers
          /\ sHdr = StreamHdr
          /\ iFragmentSize = sInHdr.iFragmentSize
          /\ iAudioBufSize = sInHdr.iFragmentSize * GDTSize
          /\ AudioBuf.size = sInHdr.iFragmentSize * GDTSize

\* What iOutSize is when nothing has gone wrong.
WriteSize(c) ==
    IF sReq[c] < 0 THEN iAudioBufSize ELSE iAudioBufSize \div sHdr.iChannels

\* So what a client thread that started then works out from it stays right:
\* its buffer holds a block, it goes on only with a channel the stream has,
\* and what it writes and what it copies are parts of the same block.
LateInv ==
    \A c \in Clients :
        Raw /\ ~early[c] /\ pc[c] \notin {"unborn", "start", "gone"} =>
            /\ AudioBuf.size # 0
            /\ OutBuf[c].size = sInHdr.iFragmentSize * GDTSize
            /\ pc[c] \in Streaming \ {"test"} => bConnected[c]
            /\ pc[c] \in Streaming \cup {"outSize", "sync"} /\ bConnected[c] =>
                  sReq[c] < sInHdr.iChannels
            /\ pc[c] \in Streaming \cup {"sync"} => iOutSize[c] = WriteSize(c)
            /\ pc[c] \in {"count", "send"} => copied[c] = CopySize(c)

IInv == /\ TypeOK /\ MutexInv /\ BlockInv /\ HeaderInv /\ ClientInv /\ WakeInv
        /\ SetupInv /\ LateInv /\ FaultNeedsEarlyClientOrFLAC
=============================================================================
