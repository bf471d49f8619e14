----------------------------- MODULE SoundSrv2 ------------------------------
(***************************************************************************)
(* soundsrv2, the sound card input server (SoundSrv2.cc): the architecture *)
(* of streamdist with a sound card in front, and an encoder in place of    *)
(* the decoder.  An encoded block has a size of its own, so iAudioBufSize  *)
(* changes with every block.  Locking is the default build's (USE_RWLOCK   *)
(* off, USE_FLAC on).                                                      *)
(*                                                                         *)
(* Sizes are abstract; what a buffer holds is the number of the block its  *)
(* first byte (head) and the others (tail) come from, as in StreamDist.    *)
(*                                                                         *)
(* FLACWriteNotFirst, ReadFails, EncodeRaw, SyncOneBack, NoGrow and        *)
(* AdvanceTwice are mistakes the code does not make; PROJECT.json says     *)
(* which property each of them breaks.                                     *)
(***************************************************************************)
EXTENDS Integers

CONSTANTS Clients,       \* connections, each served by a thread of its own
          AudioIn,       \* the input thread
          NoThread,      \* holder of a free mutex
          Compressions,  \* values the configuration may give "Compress"
          FragSize,      \* size of a block that is not compressed
          FrameSizes,    \* sizes a compressed block may have
          MaxBlocks      \* the sound card delivers at most so many blocks

MSG_SOUND_COMPRESS_NONE == 0
MSG_SOUND_COMPRESS_FLAC == 1

ASSUME ThreadAssumption ==
    /\ AudioIn \notin Clients
    /\ NoThread \notin Clients \cup {AudioIn}

ASSUME InputAssumption ==
    /\ Compressions \subseteq Nat
    /\ FragSize \in Nat \ {0}
    /\ FrameSizes \subseteq Nat \ {0}
    /\ MaxBlocks \in Nat

VARIABLES
    bRun,            \* FALSE once somebody has called Stop()
    proc,            \* "running", "exited", or "fault"
    pcMain,          \* where the main thread is
    pcIn,            \* where the AudioIn thread is
    iCompress,       \* AudioIn's copy of the configured compression
    iAudioBufSize,   \* shared: the size of the newest block
    sHdr,            \* shared: the header clients are sent
    CompHead,        \* shared: the encoder's own header, "none" of it,
                     \*   "part" of it, or the "whole"
    AudioBuf,        \* shared: the newest block
    iBlockCntr,      \* shared: the number of blocks published
    MtxAudio,        \* protects AudioBuf, iAudioBufSize and CompHead
    CndAudio         \* "there is a new block"

inVars == <<iCompress, iAudioBufSize, sHdr, CompHead, AudioBuf, iBlockCntr>>

VARIABLES
    pc,              \* c -> where the thread of c is
    bConnected,      \* c -> has no socket operation failed?
    OutBuf,          \* c -> the private buffer
    iLocalBlockCntr  \* c -> the number of the block c is at

clVars == <<bConnected, OutBuf, iLocalBlockCntr>>

\* History, for the properties alone.
VARIABLES
    late,            \* c -> did it come when the input had been set up?
    copied,          \* c -> the size of what was copied to OutBuf
    lost             \* c -> the sum of the "blocks lost" reports for c

hist == <<late, copied, lost>>

vars == <<bRun, proc, pcMain, pcIn, inVars, MtxAudio, CndAudio, pc, clVars, hist>>

Audio == INSTANCE MtxCnd WITH Mtx <- MtxAudio, Cnd <- CndAudio

NoHdr == [iFragmentSize |-> 0, iCompress |-> MSG_SOUND_COMPRESS_NONE]
EmptyBuf == [size |-> 0, head |-> 0, tail |-> 0]
-----------------------------------------------------------------------------
Init ==
    /\ bRun = TRUE
    /\ proc = "running"
    /\ pcMain = "accept"
    /\ pcIn = "open"
    /\ iCompress \in Compressions
    /\ iAudioBufSize = 0
    /\ sHdr = NoHdr
    /\ CompHead = "none"
    /\ AudioBuf = EmptyBuf
    /\ iBlockCntr = 0
    /\ MtxAudio = NoThread
    /\ CndAudio = {}
    /\ pc = [c \in Clients |-> "unborn"]
    /\ bConnected = [c \in Clients |-> TRUE]
    /\ OutBuf = [c \in Clients |-> EmptyBuf]
    /\ iLocalBlockCntr = [c \in Clients |-> 0]
    /\ late = [c \in Clients |-> FALSE]
    /\ copied = [c \in Clients |-> 0]
    /\ lost = [c \in Clients |-> 0]
-----------------------------------------------------------------------------
(* The main thread, and the signals it receives.                           *)

mainUnchanged == UNCHANGED <<pcIn, inVars, MtxAudio, CndAudio, clVars>>

Signal ==
    /\ proc = "running" /\ bRun
    /\ bRun' = FALSE
    /\ UNCHANGED <<proc, pcMain, pc, hist>> /\ mainUnchanged

\* The head of the accept loop finds ~bRun, or the shutdown file.
MainStop ==
    /\ proc = "running" /\ pcMain = "accept"
    /\ bRun' = FALSE
    /\ pcMain' = "join"
    /\ UNCHANGED <<proc, pc, hist>> /\ mainUnchanged

InputIsSetUp ==
    bRun /\ pcIn \notin {"open", "sizes", "hdr", "comp", "buffers", "init", "head"}

\* WaitForConnect() returns a connection, whose thread is created and
\* detached; then bRun is tested.  Stop() may have been called meanwhile.
MainAccept(c) ==
    /\ proc = "running" /\ pcMain = "accept"
    /\ pc[c] = "unborn"
    /\ pc' = [pc EXCEPT ![c] = "start"]
    /\ pcMain' = IF bRun THEN "accept" ELSE "join"
    /\ late' = [late EXCEPT ![c] = InputIsSetUp]
    /\ UNCHANGED <<bRun, proc, copied, lost>> /\ mainUnchanged

\* pthread_join(AudioIn) and the end of the process.
MainJoin ==
    /\ proc = "running" /\ pcMain = "join"
    /\ pcIn \in {"ended", "dead"}
    /\ pcMain' = "exit"
    /\ proc' = "exited"
    /\ UNCHANGED <<bRun, pc, hist>> /\ mainUnchanged
-----------------------------------------------------------------------------
(* The AudioIn thread.                                                     *)

InGoto(from, to) ==
    /\ proc = "running"
    /\ pcIn = from
    /\ pcIn' = to

inUnchanged == UNCHANGED <<proc, pcMain, iCompress, pc, clVars, hist>>

Stop == bRun' = FALSE

\* The device is opened, or the thread calls Stop() and returns 2.
AudioInOpen ==
    /\ \/ InGoto("open", "sizes") /\ UNCHANGED bRun
       \/ InGoto("open", "dead") /\ Stop
    /\ UNCHANGED <<inVars, MtxAudio, CndAudio>> /\ inUnchanged

\* As in streamdist, the shared description of the stream is filled in
\* without the mutex, the compression last.
AudioInSizes ==
    /\ InGoto("sizes", "hdr")
    /\ iAudioBufSize' = FragSize
    /\ UNCHANGED <<bRun, sHdr, CompHead, AudioBuf, iBlockCntr, MtxAudio, CndAudio>>
    /\ inUnchanged

AudioInHdr ==
    /\ InGoto("hdr", "comp")
    /\ sHdr' = [sHdr EXCEPT !.iFragmentSize = FragSize]
    /\ UNCHANGED <<bRun, iAudioBufSize, CompHead, AudioBuf, iBlockCntr, MtxAudio,
                   CndAudio>>
    /\ inUnchanged

AudioInComp ==
    /\ InGoto("comp", "buffers")
    /\ sHdr' = [sHdr EXCEPT !.iCompress = iCompress]
    /\ UNCHANGED <<bRun, iAudioBufSize, CompHead, AudioBuf, iBlockCntr, MtxAudio,
                   CndAudio>>
    /\ inUnchanged

AudioInBuffers ==
    /\ InGoto("buffers",
              IF iCompress = MSG_SOUND_COMPRESS_NONE THEN "loop" ELSE "init")
    /\ AudioBuf' = [AudioBuf EXCEPT !.size = iAudioBufSize]
    /\ UNCHANGED <<bRun, iAudioBufSize, sHdr, CompHead, iBlockCntr, MtxAudio, CndAudio>>
    /\ inUnchanged

\* The encoder is created and calls FLACWrite for the first time, with its
\* header; or that fails, and the thread calls Stop() but goes on.
InitCompress ==
    /\ \/ /\ iCompress = MSG_SOUND_COMPRESS_FLAC
          /\ InGoto("init", "head")
          /\ Audio!Lock(AudioIn)
          /\ CompHead' = "part"
          /\ UNCHANGED bRun
       \/ /\ InGoto("init", "loop")
          /\ Stop
          /\ UNCHANGED <<MtxAudio, CompHead>>
    /\ UNCHANGED <<iAudioBufSize, sHdr, AudioBuf, iBlockCntr, CndAudio>>
    /\ inUnchanged

FLACWriteNotFirst ==
    /\ InGoto("head", "loop")
    /\ Audio!Unlock
    /\ UNCHANGED <<bRun, iAudioBufSize, sHdr, CompHead, AudioBuf, iBlockCntr, CndAudio>>
    /\ inUnchanged

FLACWriteFirst ==
    /\ InGoto("head", "loop")
    /\ CompHead' = "whole"
    /\ Audio!Unlock
    /\ UNCHANGED <<bRun, iAudioBufSize, sHdr, AudioBuf, iBlockCntr, CndAudio>>
    /\ inUnchanged

ReadFails ==
    /\ bRun
    /\ InGoto("loop", "dead")
    /\ UNCHANGED <<inVars, MtxAudio, CndAudio, bRun>> /\ inUnchanged

\* Reading the device or the compression fails: Stop() and return 2.
AudioInFail ==
    /\ bRun
    /\ InGoto("loop", "dead")
    /\ Stop
    /\ UNCHANGED <<inVars, MtxAudio, CndAudio>> /\ inUnchanged

\* A block is read and, it may be, is enough for the encoder to call
\* FLACWrite; or the loop ends.
AudioInRead ==
    /\ \/ bRun /\ iBlockCntr < MaxBlocks /\ InGoto("loop", "lock")
       \/ ~bRun /\ InGoto("loop", "ended")
    /\ UNCHANGED <<bRun, inVars, MtxAudio, CndAudio>> /\ inUnchanged

EncodeRaw(n) == n \in FrameSizes \cup {FragSize}

\* The size of the block to be published.
Encode(n) ==
    IF iCompress = MSG_SOUND_COMPRESS_FLAC THEN n \in FrameSizes ELSE n = iAudioBufSize

AudioInCopy ==
    /\ InGoto("lock", "publish")
    /\ Audio!Lock(AudioIn)
    /\ \E n \in FrameSizes \cup {FragSize} :
          /\ Encode(n)
          /\ iAudioBufSize' = n
          /\ AudioBuf' = [AudioBuf EXCEPT !.size = IF n > @ THEN n ELSE @,
                                          !.head = iBlockCntr + 1]
    /\ UNCHANGED <<bRun, sHdr, CompHead, iBlockCntr, CndAudio>> /\ inUnchanged

\* The rest of the copy, iBlockCntr++, NotifyAll() and Release().  What was
\* read may be enough for the encoder to call FLACWrite once more.
AudioInPublish ==
    /\ \/ InGoto("publish", "loop")
       \/ /\ InGoto("publish", "lock")
          /\ iCompress = MSG_SOUND_COMPRESS_FLAC
          /\ iBlockCntr + 1 < MaxBlocks
    /\ AudioBuf' = [AudioBuf EXCEPT !.tail = iBlockCntr + 1]
    /\ iBlockCntr' = iBlockCntr + 1
    /\ Audio!NotifyAll
    /\ Audio!Unlock
    /\ UNCHANGED <<bRun, iAudioBufSize, sHdr, CompHead>> /\ inUnchanged
-----------------------------------------------------------------------------
(* The ServeClient thread of connection c.                                 *)

clUnchanged == UNCHANGED <<bRun, pcMain, pcIn, inVars>>

Goto(c, from, to) ==
    /\ proc = "running"
    /\ pc[c] = from
    /\ pc' = [pc EXCEPT ![c] = to]

\* A socket operation fails: bConnected is cleared, the thread goes on.
Fail(c) == bConnected' = [bConnected EXCEPT ![c] = FALSE]

ServeStart(c) ==
    /\ Goto(c, "start", "sendHdr")
    /\ OutBuf' = [OutBuf EXCEPT ![c].size = iAudioBufSize]
    /\ UNCHANGED <<proc, MtxAudio, CndAudio, bConnected, iLocalBlockCntr, hist>>
    /\ clUnchanged

SendHdr(c) ==
    /\ Goto(c, "sendHdr", "sendComp")
    /\ Fail(c) \/ UNCHANGED bConnected
    /\ UNCHANGED <<proc, MtxAudio, CndAudio, OutBuf, iLocalBlockCntr, hist>>
    /\ clUnchanged

\* The encoder's header follows if the stream is compressed now.
SendComp(c) ==
    /\ Goto(c, "sendComp", "sync")
    /\ \/ sHdr.iCompress # MSG_SOUND_COMPRESS_NONE /\ Fail(c)
       \/ UNCHANGED bConnected
    /\ UNCHANGED <<proc, MtxAudio, CndAudio, OutBuf, iLocalBlockCntr, hist>>
    /\ clUnchanged

SyncAt(c, n) ==
    /\ Goto(c, "sync", "test")
    /\ iLocalBlockCntr' = [iLocalBlockCntr EXCEPT ![c] = n]
    /\ UNCHANGED <<proc, MtxAudio, CndAudio, bConnected, OutBuf, hist>>
    /\ clUnchanged

SyncOneBack(c) == SyncAt(c, iBlockCntr - 1)

\* iLocalBlockCntr = iBlockCntr, read without the mutex.
Sync(c) == SyncAt(c, iBlockCntr)

\* while (bRun && bConnected)
Test(c) ==
    /\ bRun /\ bConnected[c]
    /\ Goto(c, "test", "lock")
    /\ UNCHANGED <<proc, MtxAudio, CndAudio, clVars, hist>>
    /\ clUnchanged

\* The thread ends, and its variables with it.
Leave(c) ==
    /\ ~bRun \/ ~bConnected[c]
    /\ Goto(c, "test", "gone")
    /\ bConnected' = [bConnected EXCEPT ![c] = TRUE]
    /\ OutBuf' = [OutBuf EXCEPT ![c] = EmptyBuf]
    /\ iLocalBlockCntr' = [iLocalBlockCntr EXCEPT ![c] = 0]
    /\ late' = [late EXCEPT ![c] = FALSE]
    /\ copied' = [copied EXCEPT ![c] = 0]
    /\ lost' = [lost EXCEPT ![c] = 0]
    /\ UNCHANGED <<proc, MtxAudio, CndAudio>>
    /\ clUnchanged

\* MtxAudio.Wait() and CndAudio.Wait(), without a predicate.
WaitAudio(c) ==
    /\ Goto(c, "lock", "wait")
    /\ MtxAudio = NoThread
    /\ Audio!Wait(c)
    /\ UNCHANGED <<proc, clVars, hist>>
    /\ clUnchanged

NoGrow(c) == OutBuf[c].size

\* OutBuf is made as large as the block, unless it is already.
Grow(c) == IF iAudioBufSize > OutBuf[c].size THEN iAudioBufSize ELSE OutBuf[c].size

\* Awake and in possession of the mutex, the thread starts to copy.
WakeUp(c) ==
    /\ Goto(c, "wait", "count")
    /\ c \notin CndAudio
    /\ Audio!Lock(c)
    /\ OutBuf' = [OutBuf EXCEPT ![c].size = Grow(c), ![c].head = AudioBuf.head]
    /\ copied' = [copied EXCEPT ![c] = iAudioBufSize]
    /\ UNCHANGED <<proc, CndAudio, bConnected, iLocalBlockCntr, late, lost>>
    /\ clUnchanged

AdvanceTo(c, n) ==
    LET local == iLocalBlockCntr[c] + 1
    IN /\ lost' = [lost EXCEPT ![c] = @ + (iBlockCntr - local)]
       /\ iLocalBlockCntr' = [iLocalBlockCntr EXCEPT ![c] = n]

AdvanceTwice(c) == AdvanceTo(c, iBlockCntr + 1)

\* iLocalBlockCntr++; if it is not iBlockCntr now, report the difference as
\* lost and catch up.
Advance(c) == AdvanceTo(c, iBlockCntr)

Count(c) ==
    /\ Goto(c, "count", "send")
    /\ OutBuf' = [OutBuf EXCEPT ![c].tail = AudioBuf.tail]
    /\ Advance(c)
    /\ Audio!Unlock
    /\ UNCHANGED <<proc, CndAudio, bConnected, late, copied>>
    /\ clUnchanged

\* WriteN(OutBuf, iAudioBufSize): the size is read again, and the mutex has
\* been released.  More than OutBuf holds is read from beyond its end.
SendBlock(c) ==
    /\ Goto(c, "send", "test")
    /\ \/ iAudioBufSize > OutBuf[c].size /\ proc' = "fault"
       \/ UNCHANGED proc
    /\ Fail(c) \/ UNCHANGED bConnected
    /\ OutBuf' = [OutBuf EXCEPT ![c].head = 0, ![c].tail = 0]
    /\ copied' = [copied EXCEPT ![c] = 0]
    /\ UNCHANGED <<MtxAudio, CndAudio, iLocalBlockCntr, late, lost>>
    /\ clUnchanged
-----------------------------------------------------------------------------
Main == MainStop \/ MainJoin \/ \E c \in Clients : MainAccept(c)

Input ==
    \/ AudioInOpen \/ AudioInSizes \/ AudioInHdr \/ AudioInComp
    \/ AudioInBuffers \/ InitCompress \/ FLACWriteFirst
    \/ AudioInRead \/ AudioInFail \/ AudioInCopy \/ AudioInPublish

\* What the thread of c does by itself, and what it needs its peer for.
Compute(c) ==
    \/ ServeStart(c) \/ Sync(c) \/ Test(c) \/ Leave(c)
    \/ WaitAudio(c) \/ WakeUp(c) \/ Count(c)

Talk(c) == SendHdr(c) \/ SendComp(c) \/ SendBlock(c)

Terminated ==
    /\ proc # "running"
    /\ UNCHANGED vars

Next == Signal \/ Main \/ Input \/ (\E c \in Clients : Compute(c) \/ Talk(c)) \/ Terminated

Spec == Init /\ [][Next]_vars

\* The operating system lets every thread run, and the sound card delivers or
\* fails; but no client has to read what it is sent.
Fairness ==
    /\ WF_vars(~bRun /\ MainStop)
    /\ WF_vars(MainJoin)
    /\ WF_vars(Input)
    /\ \A c \in Clients : WF_vars(Compute(c))

FairSpec == Spec /\ Fairness
-----------------------------------------------------------------------------
Streaming == {"test", "lock", "wait", "count", "send"}

\* Every variable keeps its type.
TypeOK ==
    /\ bRun \in BOOLEAN
    /\ proc \in {"running", "exited", "fault"}
    /\ pcMain \in {"accept", "join", "exit"}
    /\ pcIn \in {"open", "sizes", "hdr", "comp", "buffers", "init", "head",
                 "loop", "lock", "publish", "ended", "dead"}
    /\ iCompress \in Compressions
    /\ iAudioBufSize \in Nat
    /\ sHdr \in [iFragmentSize : Nat, iCompress : Nat]
    /\ CompHead \in {"none", "part", "whole"}
    /\ AudioBuf \in [size : Nat, head : Nat, tail : Nat]
    /\ iBlockCntr \in Nat
    /\ MtxAudio \in Clients \cup {AudioIn, NoThread}
    /\ CndAudio \subseteq Clients
    /\ pc \in [Clients -> {"unborn", "start", "sendHdr", "sendComp", "sync",
                           "gone"} \cup Streaming]
    /\ bConnected \in [Clients -> BOOLEAN]
    /\ OutBuf \in [Clients -> [size : Nat, head : Nat, tail : Nat]]
    /\ iLocalBlockCntr \in [Clients -> Nat]
    /\ late \in [Clients -> BOOLEAN]
    /\ copied \in [Clients -> Nat]
    /\ lost \in [Clients -> Int]

\* While a client thread copies, the block fits both buffers, although the
\* threads met them when blocks had another size.
CopyStaysInBuffers ==
    \A c \in Clients :
        pc[c] = "count" => /\ copied[c] = iAudioBufSize
                           /\ iAudioBufSize <= OutBuf[c].size
                           /\ iAudioBufSize <= AudioBuf.size

\* What is written to a client is what was copied for it.
SentAsCopied ==
    \A c \in Clients : pc[c] = "send" => iAudioBufSize = copied[c]

\* That holds of a stream that is not compressed, whenever the client came.
RawSentAsCopied ==
    iCompress = MSG_SOUND_COMPRESS_NONE => SentAsCopied

\* A client that came when the input was set up is told what it needs to
\* make sense of the blocks: the whole header and, of a compressed stream
\* that is not about to end, the whole header of the encoder.
LateClientIsToldAll ==
    \A c \in Clients :
        late[c] =>
            /\ pc[c] = "sendHdr" =>
                  sHdr = [iFragmentSize |-> FragSize, iCompress |-> iCompress]
            /\ pc[c] = "sendComp" /\ bRun /\ iCompress # MSG_SOUND_COMPRESS_NONE =>
                  CompHead = "whole"

Stream == INSTANCE BlockStream WITH
    published <- iBlockCntr,
    joined    <- {c \in Clients : pc[c] \in Streaming},
    newest    <- [c \in Clients |-> IF pc[c] = "send" THEN OutBuf[c].tail
                                    ELSE iLocalBlockCntr[c]],
    missed    <- lost

\* The server gives every client the stream that BlockStream describes.
ImplementsBlockStream == Stream!Spec

\* Without its input the server does not linger, whatever its clients do.
InputDeathStops == pcIn \in {"dead", "ended"} ~> proc # "running"
-----------------------------------------------------------------------------
(* The inductive invariant of the proofs in SoundSrv2Proofs.tla.           *)

\* Who holds MtxAudio, and who waits.
MutexInv ==
    /\ \A c \in Clients : MtxAudio = c <=> pc[c] = "count"
    /\ MtxAudio = AudioIn <=> pcIn \in {"head", "publish"}
    /\ \A c \in CndAudio : pc[c] = "wait"

\* The description of the stream grows while AudioIn sets it up, and is what
\* it should be from then on, if AudioIn got that far; so late clients see
\* the whole of it.
SetupInv ==
    /\ pcIn \in {"comp", "buffers"} => sHdr.iFragmentSize = FragSize
    /\ pcIn \in {"buffers", "init", "head", "loop", "lock", "publish", "ended"} =>
          sHdr = [iFragmentSize |-> FragSize, iCompress |-> iCompress]
    /\ pcIn \in {"loop", "lock", "publish"} /\ bRun
          /\ iCompress # MSG_SOUND_COMPRESS_NONE => CompHead = "whole"
    /\ pcIn \in {"ended", "dead"} => ~bRun
    /\ \A c \in Clients :
          late[c] =>
            /\ pcIn \in {"loop", "lock", "publish", "ended", "dead"}
            /\ sHdr = [iFragmentSize |-> FragSize, iCompress |-> iCompress]

\* AudioBuf holds block iBlockCntr, its head one more while AudioIn stores,
\* and is large enough for it once it has been allocated; no block is
\* published before.
BlockInv ==
    /\ AudioBuf.tail = iBlockCntr
    /\ AudioBuf.head = IF pcIn = "publish" THEN iBlockCntr + 1 ELSE iBlockCntr
    /\ pcIn \in {"open", "sizes"} => iAudioBufSize = 0
    /\ pcIn \in {"hdr", "comp", "buffers"} \/ iAudioBufSize <= AudioBuf.size
    /\ pcIn \in {"open", "sizes", "hdr", "comp", "buffers", "init", "head"} =>
          iBlockCntr = 0

\* A streaming client is never ahead of the input, and one that is awake has
\* a block to take; the block in its hands is the one its counter names.
ClientInv ==
    \A c \in Clients :
        /\ pc[c] \in Streaming => iLocalBlockCntr[c] <= iBlockCntr
        /\ pc[c] = "count" \/ (pc[c] = "wait" /\ c \notin CndAudio) =>
              iLocalBlockCntr[c] < iBlockCntr
        /\ pc[c] = "send" => /\ OutBuf[c].tail = iLocalBlockCntr[c]
                             /\ iLocalBlockCntr[c] > 0
        /\ pc[c] \notin Streaming => iLocalBlockCntr[c] = 0 /\ lost[c] = 0

IInv == /\ TypeOK /\ MutexInv /\ SetupInv /\ BlockInv /\ ClientInv
        /\ CopyStaysInBuffers /\ RawSentAsCopied /\ LateClientIsToldAll
=============================================================================
