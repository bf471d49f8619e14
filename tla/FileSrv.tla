------------------------------- MODULE FileSrv ------------------------------
(***************************************************************************)
(* filesrv, the input server that plays recorded files (FileSrv.cc).       *)
(*                                                                         *)
(* The GUI thread opens and closes the file.  The Reader thread reads it   *)
(* block by block, sleeps until a block is due and publishes it.  The      *)
(* Server thread accepts connections; a ServeClient thread per connection  *)
(* sends one header and then the blocks.  MtxAudio protects the file and   *)
(* the block, CndReady announces a block.  The build has USE_FLAC.         *)
(*                                                                         *)
(* Every file that is played has a number, from 1; sFileInfo and samples   *)
(* are represented by the number of the file they come from.  Pacing (the  *)
(* clock, iBlockCntr of the Reader) is left out: it only decides how long  *)
(* the Reader sleeps.  An AudioBlock is [no, files]: its own number, for   *)
(* the properties, and the files whose samples are in it.                  *)
(*                                                                         *)
(* StopUnlocked, StopDangling, MainJoinAll, ReaderIdleGoesOn,             *)
(* ReadSndGoesOn and WakeUpUnlocked are mistakes the code does not make;   *)
(* PROJECT.json says which property each of them breaks.                   *)
(***************************************************************************)
EXTENDS Integers, Sequences, FiniteSets

CONSTANTS Clients,      \* connections, each served by a thread of its own
          Reader,       \* the Reader thread
          NoThread,     \* holder of a free mutex
          Kinds,        \* kinds of files there are: "snd", "flac"
          MaxPlays,     \* the user presses Play at most so often
          MaxBlocks,    \* at most so many blocks are read from all files
          MaxSpurious   \* pthread_cond_wait() returns unnotified at most so
                        \* often to each client

ASSUME ThreadAssumption ==
    /\ Reader \notin Clients
    /\ NoThread \notin Clients \cup {Reader}

ASSUME InputAssumption ==
    /\ Kinds \subseteq {"snd", "flac"}
    /\ MaxPlays \in Nat
    /\ MaxBlocks \in Nat
    /\ MaxSpurious \in Nat

VARIABLES
    bRun,            \* FALSE once the window is closed
    proc,            \* "running", "exited", or "fault"
    pcGui,           \* "play" or "stop": the toggle button; or "join", "exit"
    pcServer,        \* where the Server thread is
    pcReader,        \* where the Reader thread is
    sndfileFile,     \* the open sound file, 0 for NULL
    flacDecoder,     \* the open FLAC file, 0 for NULL
    sFileInfo,       \* the file whose format this is, 0 at first
    StreamBuf,       \* decoded FLAC samples, in half blocks
    dpFileBlock,     \* the Reader's private block
    AudioBlock,      \* the published block, its first half and its second
    MtxAudio,
    CndReady

fileVars == <<sndfileFile, flacDecoder, sFileInfo>>
blockVars == <<StreamBuf, dpFileBlock, AudioBlock>>

VARIABLES
    pc,              \* c -> where the thread of c is
    sHdr,            \* c -> the file whose format c was told
    LAudioBlock      \* c -> the private block

clVars == <<sHdr, LAudioBlock>>

\* History, for the properties alone.
VARIABLES
    plays,           \* how often Play was pressed
    kind,            \* the kind of each file played
    blocks,          \* how many blocks were read
    decoderFailed,   \* has process_single() failed?
    playing,         \* c -> the sound file that was open when c was told a format
    stale,           \* c -> how many blocks from earlier sound files c got
    repeats,         \* c -> how many blocks c got that were not new to it
    spurious         \* c -> how often c was woken though nobody notified

clHist == <<playing, stale, repeats, spurious>>
hist == <<plays, kind, blocks, decoderFailed, clHist>>

vars == <<bRun, proc, pcGui, pcServer, pcReader, fileVars, blockVars, MtxAudio,
          CndReady, pc, clVars, hist>>

Audio == INSTANCE MtxCnd WITH Mtx <- MtxAudio, Cnd <- CndReady

NoBlock == [no |-> 0, files |-> {}]
NoBuf == [head |-> NoBlock, tail |-> NoBlock]
-----------------------------------------------------------------------------
Init ==
    /\ bRun = TRUE
    /\ proc = "running"
    /\ pcGui = "stop"
    /\ pcServer = "accept"
    /\ pcReader = "test"
    /\ sndfileFile = 0
    /\ flacDecoder = 0
    /\ sFileInfo = 0
    /\ StreamBuf = <<>>
    /\ dpFileBlock = NoBlock
    /\ AudioBlock = NoBuf
    /\ MtxAudio = NoThread
    /\ CndReady = {}
    /\ pc = [c \in Clients |-> "unborn"]
    /\ sHdr = [c \in Clients |-> 0]
    /\ LAudioBlock = [c \in Clients |-> NoBuf]
    /\ plays = 0
    /\ kind = <<>>
    /\ blocks = 0
    /\ decoderFailed = FALSE
    /\ playing = [c \in Clients |-> 0]
    /\ stale = [c \in Clients |-> 0]
    /\ repeats = [c \in Clients |-> 0]
    /\ spurious = [c \in Clients |-> 0]
-----------------------------------------------------------------------------
(* The GUI thread.                                                         *)

guiUnchanged == UNCHANGED <<proc, pcServer, pcReader, blockVars, MtxAudio, CndReady,
                            pc, clVars, blocks, decoderFailed, clHist>>

\* The window is closed: gtk_main() returns, and Main waits for the threads.
OnDelete ==
    /\ proc = "running" /\ pcGui \in {"play", "stop"}
    /\ bRun' = FALSE
    /\ pcGui' = "join"
    /\ guiUnchanged
    /\ UNCHANGED <<fileVars, plays, kind>>

\* OnPlayStopToggle, pressed: with the mutex, the file is opened; or that
\* fails, and nothing is open.  A FLAC file tells its format later.
Play ==
    /\ proc = "running" /\ pcGui = "stop"
    /\ plays < MaxPlays
    /\ MtxAudio = NoThread
    /\ pcGui' = "play"
    /\ plays' = plays + 1
    /\ \E k \in Kinds :
          /\ kind' = Append(kind, k)
          /\ \/ /\ k = "snd"
                /\ sndfileFile' = plays + 1
                /\ sFileInfo' = plays + 1
                /\ UNCHANGED flacDecoder
             \/ /\ k = "flac"
                /\ flacDecoder' = plays + 1
                /\ UNCHANGED <<sndfileFile, sFileInfo>>
             \/ UNCHANGED fileVars
    /\ UNCHANGED bRun
    /\ guiUnchanged

Close(null) ==
    /\ proc = "running" /\ pcGui = "play"
    /\ pcGui' = "stop"
    /\ sndfileFile' = null
    /\ flacDecoder' = 0
    /\ UNCHANGED <<bRun, sFileInfo, plays, kind>>
    /\ guiUnchanged

StopUnlocked == Close(0)

StopDangling == MtxAudio = NoThread /\ Close(-1)

\* OnPlayStopToggle, released: with the mutex, what is open is closed.
Stop == MtxAudio = NoThread /\ Close(0)

Join ==
    /\ proc = "running" /\ pcGui = "join"
    /\ pcServer = "ended" /\ pcReader = "ended"
    /\ pcGui' = "exit"
    /\ proc' = "exited"
    /\ UNCHANGED <<bRun, pcServer, pcReader, fileVars, blockVars, MtxAudio, CndReady,
                   pc, clVars, hist>>

MainJoinAll == Join /\ \A c \in Clients : pc[c] \in {"unborn", "gone"}

\* Main() has waited for the Server and the Reader thread, and returns.
MainJoin == Join
-----------------------------------------------------------------------------
(* The Reader thread.                                                      *)

ReaderGoto(from, to) ==
    /\ proc = "running"
    /\ pcReader = from
    /\ pcReader' = to

readerUnchanged == UNCHANGED <<bRun, pcGui, pcServer, pc, clVars, plays, kind,
                               clHist>>

\* while (bRun)
ReaderTest ==
    /\ ReaderGoto("test", IF bRun THEN "lock" ELSE "final")
    /\ UNCHANGED <<proc, fileVars, blockVars, MtxAudio, CndReady, blocks, decoderFailed>>
    /\ readerUnchanged

IdleThen(next) ==
    /\ ReaderGoto("lock", next)
    /\ MtxAudio = NoThread
    /\ sndfileFile = 0 /\ flacDecoder = 0
    /\ UNCHANGED <<proc, fileVars, blockVars, MtxAudio, CndReady, blocks, decoderFailed>>
    /\ readerUnchanged

ReaderIdleGoesOn == IdleThen("sleep")

\* Nothing is open: the mutex is given back, and the thread sleeps a while.
ReaderIdle == IdleThen("test")

ReaderLock ==
    /\ ReaderGoto("lock", IF sndfileFile # 0 THEN "readSnd" ELSE "decode")
    /\ sndfileFile # 0 \/ flacDecoder # 0
    /\ Audio!Lock(Reader)
    /\ UNCHANGED <<proc, fileVars, blockVars, CndReady, blocks, decoderFailed>>
    /\ readerUnchanged

ReadSndThen(atEnd) ==
    /\ \/ /\ ReaderGoto("readSnd", "sleep")
          /\ blocks < MaxBlocks
          /\ blocks' = blocks + 1
          /\ dpFileBlock' = [no |-> blocks + 1, files |-> {sndfileFile}]
       \/ ReaderGoto("readSnd", atEnd) /\ UNCHANGED <<blocks, dpFileBlock>>
    /\ Audio!Unlock
    /\ UNCHANGED <<proc, fileVars, StreamBuf, AudioBlock, CndReady, decoderFailed>>
    /\ readerUnchanged

ReadSndGoesOn == ReadSndThen("sleep")

\* A whole block is read; or the file is at its end, and starts over.
ReadSnd == ReadSndThen("test")

\* StreamBuf.Get() finds a block; the mutex is released, whoever holds it.
DecodeGet ==
    /\ ReaderGoto("decode", "sleep")
    /\ Len(StreamBuf) >= 2
    /\ blocks' = blocks + 1
    /\ dpFileBlock' = [no |-> blocks + 1, files |-> {StreamBuf[1], StreamBuf[2]}]
    /\ StreamBuf' = SubSeq(StreamBuf, 3, Len(StreamBuf))
    /\ Audio!Unlock
    /\ UNCHANGED <<proc, fileVars, AudioBlock, CndReady, decoderFailed>>
    /\ readerUnchanged

\* It does not, and the decoder delivers a frame, of half a block or of one
\* and a half.
DecodeFrame ==
    /\ ReaderGoto("decode", "decode")
    /\ Len(StreamBuf) < 2
    /\ flacDecoder # 0
    /\ blocks < MaxBlocks
    /\ sFileInfo' = flacDecoder
    /\ \E n \in {1, 3} : StreamBuf' = StreamBuf \o [i \in 1 .. n |-> flacDecoder]
    /\ UNCHANGED <<proc, sndfileFile, flacDecoder, dpFileBlock, AudioBlock, MtxAudio,
                   CndReady, blocks, decoderFailed>>
    /\ readerUnchanged

\* It does not, and process_single() fails: the decoder is deleted, the mutex
\* released, and `continue' goes on with the inner loop.
DecodeFail ==
    /\ ReaderGoto("decode", "decode")
    /\ Len(StreamBuf) < 2
    /\ flacDecoder # 0
    /\ flacDecoder' = 0
    /\ Audio!Unlock
    /\ decoderFailed' = TRUE
    /\ UNCHANGED <<proc, sndfileFile, sFileInfo, blockVars, CndReady, blocks>>
    /\ readerUnchanged

\* process_single(NULL).
DecodeNull ==
    /\ ReaderGoto("decode", "decode")
    /\ Len(StreamBuf) < 2
    /\ flacDecoder = 0
    /\ proc' = "fault"
    /\ UNCHANGED <<fileVars, blockVars, MtxAudio, CndReady, blocks, decoderFailed>>
    /\ readerUnchanged

\* ShortSleep(), without the mutex, until the block is due; then the mutex
\* and the first half of the copy.
ReaderCopy ==
    /\ ReaderGoto("sleep", "publish")
    /\ Audio!Lock(Reader)
    /\ AudioBlock' = [AudioBlock EXCEPT !.head = dpFileBlock]
    /\ UNCHANGED <<proc, fileVars, StreamBuf, dpFileBlock, CndReady, blocks,
                   decoderFailed>>
    /\ readerUnchanged

ReaderPublish ==
    /\ ReaderGoto("publish", "test")
    /\ AudioBlock' = [AudioBlock EXCEPT !.tail = dpFileBlock]
    /\ Audio!NotifyAll
    /\ Audio!Unlock
    /\ UNCHANGED <<proc, fileVars, StreamBuf, dpFileBlock, blocks, decoderFailed>>
    /\ readerUnchanged

\* wake up all serveclients: NotifyAll() without the mutex, and the end.
ReaderEnd ==
    /\ ReaderGoto("final", "ended")
    /\ Audio!NotifyAll
    /\ UNCHANGED <<proc, fileVars, blockVars, MtxAudio, blocks, decoderFailed>>
    /\ readerUnchanged
-----------------------------------------------------------------------------
(* The Server thread.                                                      *)

\* WaitForConnect() returns a connection, whose thread is created, or runs
\* into its timeout; then bRun is tested.
ServerAccept ==
    /\ proc = "running" /\ pcServer = "accept"
    /\ \/ UNCHANGED pc
       \/ \E c \in Clients : pc[c] = "unborn" /\ pc' = [pc EXCEPT ![c] = "start"]
    /\ pcServer' = IF bRun THEN "accept" ELSE "ended"
    /\ UNCHANGED <<bRun, proc, pcGui, pcReader, fileVars, blockVars, MtxAudio,
                   CndReady, clVars, hist>>
-----------------------------------------------------------------------------
(* The ServeClient thread of connection c.                                 *)

clUnchanged == UNCHANGED <<bRun, proc, pcGui, pcServer, pcReader, fileVars, blockVars,
                           plays, kind, blocks, decoderFailed>>

Goto(c, from, to) ==
    /\ proc = "running"
    /\ pc[c] = from
    /\ pc' = [pc EXCEPT ![c] = to]

\* With the mutex, the format is read, whether a file is open or not.
ServeStart(c) ==
    /\ Goto(c, "start", "sendHdr")
    /\ MtxAudio = NoThread
    /\ sHdr' = [sHdr EXCEPT ![c] = sFileInfo]
    /\ playing' = [playing EXCEPT ![c] = sndfileFile]
    /\ UNCHANGED <<MtxAudio, CndReady, LAudioBlock, stale, repeats, spurious>>
    /\ clUnchanged

\* The header is written; if that fails the thread ends.
SendHdr(c) ==
    /\ Goto(c, "sendHdr", "test") \/ Goto(c, "sendHdr", "gone")
    /\ UNCHANGED <<MtxAudio, CndReady, clVars, clHist>>
    /\ clUnchanged

\* while (bRun)
Test(c) ==
    /\ Goto(c, "test", IF bRun THEN "lock" ELSE "gone")
    /\ UNCHANGED <<MtxAudio, CndReady, clVars, clHist>>
    /\ clUnchanged

\* MtxAudio.Wait() and CndReady.Wait(), without a predicate.
WaitReady(c) ==
    /\ Goto(c, "lock", "wait")
    /\ MtxAudio = NoThread
    /\ Audio!Wait(c)
    /\ UNCHANGED <<clVars, clHist>>
    /\ clUnchanged

\* The wait may end unnotified, and the thread does not ask why it ended.
SpuriousWakeup(c) ==
    /\ proc = "running"
    /\ spurious[c] < MaxSpurious
    /\ Audio!Spurious(c)
    /\ spurious' = [spurious EXCEPT ![c] = @ + 1]
    /\ UNCHANGED <<pc, MtxAudio, clVars, playing, stale, repeats>>
    /\ clUnchanged

CopyHead(c) ==
    /\ Goto(c, "wait", "copy")
    /\ c \notin CndReady
    /\ LAudioBlock' = [LAudioBlock EXCEPT ![c].head = AudioBlock.head]
    /\ UNCHANGED <<CndReady, sHdr, clHist>>
    /\ clUnchanged

WakeUpUnlocked(c) == CopyHead(c) /\ UNCHANGED MtxAudio

\* Awake and in possession of the mutex, the thread starts to copy.
WakeUp(c) == CopyHead(c) /\ Audio!Lock(c)

\* History: the file c was told of is still open, and the block that c has
\* copied is from one before it.
IsStale(c) ==
    /\ playing[c] # 0 /\ playing[c] = sndfileFile
    /\ \E f \in AudioBlock.tail.files : f < playing[c]

\* History: c has had the block before, or there has been none yet.
IsRepeat(c) == AudioBlock.tail.no <= LAudioBlock[c].tail.no

\* The rest of the copy, and MtxAudio.Release().
Copy(c) ==
    /\ Goto(c, "copy", "send")
    /\ LAudioBlock' = [LAudioBlock EXCEPT ![c].tail = AudioBlock.tail]
    /\ stale' = [stale EXCEPT ![c] = IF IsStale(c) THEN @ + 1 ELSE @]
    /\ repeats' = [repeats EXCEPT ![c] = IF IsRepeat(c) THEN @ + 1 ELSE @]
    /\ Audio!Unlock
    /\ UNCHANGED <<CndReady, sHdr, playing, spurious>>
    /\ clUnchanged

\* The block is written; if that fails the thread ends.
SendBlock(c) ==
    /\ Goto(c, "send", "test") \/ Goto(c, "send", "gone")
    /\ UNCHANGED <<MtxAudio, CndReady, clVars, clHist>>
    /\ clUnchanged
-----------------------------------------------------------------------------
Gui == OnDelete \/ Play \/ Stop \/ MainJoin

Read ==
    \/ ReaderTest \/ ReaderIdle \/ ReaderLock \/ ReadSnd
    \/ DecodeGet \/ DecodeFrame \/ DecodeFail \/ DecodeNull
    \/ ReaderCopy \/ ReaderPublish \/ ReaderEnd

\* What the thread of c does by itself, and what it needs its peer for.
Compute(c) == ServeStart(c) \/ Test(c) \/ WaitReady(c) \/ WakeUp(c) \/ Copy(c)

Talk(c) == SendHdr(c) \/ SendBlock(c)

Terminated ==
    /\ proc # "running"
    /\ UNCHANGED vars

Next ==
    \/ Gui \/ Read \/ ServerAccept
    \/ \E c \in Clients : Compute(c) \/ Talk(c) \/ SpuriousWakeup(c)
    \/ Terminated

Spec == Init /\ [][Next]_vars

\* The operating system lets every thread run.  Nobody has to press a button
\* or to read what is sent, and no wait has to end unnotified.
Fairness ==
    /\ WF_vars(MainJoin)
    /\ WF_vars(Read)
    /\ WF_vars(ServerAccept)
    /\ \A c \in Clients : WF_vars(Compute(c))

FairSpec == Spec /\ Fairness
-----------------------------------------------------------------------------
Files == 0 .. MaxPlays
Blocks == [no : Nat, files : SUBSET Files]

ReaderTypeOK ==
    /\ StreamBuf \in Seq(Files)
    /\ dpFileBlock \in Blocks
    /\ AudioBlock \in [head : Blocks, tail : Blocks]

ClientTypeOK ==
    /\ pc \in [Clients -> {"unborn", "start", "sendHdr", "test", "lock", "wait",
                           "copy", "send", "gone"}]
    /\ sHdr \in [Clients -> Files]
    /\ LAudioBlock \in [Clients -> [head : Blocks, tail : Blocks]]
    /\ playing \in [Clients -> 0 .. plays]
    /\ stale \in [Clients -> Nat]
    /\ repeats \in [Clients -> Nat]
    /\ spurious \in [Clients -> Nat]

\* Every variable keeps its type.
TypeOK ==
    /\ bRun \in BOOLEAN
    /\ proc \in {"running", "exited", "fault"}
    /\ pcGui \in {"play", "stop", "join", "exit"}
    /\ pcServer \in {"accept", "ended"}
    /\ pcReader \in {"test", "lock", "readSnd", "decode", "sleep", "publish",
                     "final", "ended"}
    /\ {sndfileFile, flacDecoder, sFileInfo} \subseteq Files
    /\ ReaderTypeOK
    /\ MtxAudio \in Clients \cup {Reader, NoThread}
    /\ CndReady \subseteq Clients
    /\ plays \in Files
    /\ blocks \in Nat
    /\ decoderFailed \in BOOLEAN
    /\ ClientTypeOK

\* What the Reader has open, it uses with the mutex, and the GUI thread does
\* not close it meanwhile, so that the Reader never uses NULL - until the
\* decoder fails: the Reader goes on without the mutex then, and gives back
\* one that is another's.
FilesUsedLocked ==
    ~decoderFailed =>
        /\ (MtxAudio = Reader) <=> (pcReader \in {"readSnd", "decode", "publish"})
        /\ pcReader = "readSnd" => sndfileFile # 0
        /\ pcReader = "decode" => flacDecoder # 0
        /\ proc # "fault"

\* A client is sent whole blocks: its two halves are of the same one.
NoTornBlock ==
    \A c \in Clients :
        pc[c] = "send" /\ ~decoderFailed => LAudioBlock[c].head = LAudioBlock[c].tail

\* How often the thread of c may have been woken without a block to take: by
\* each spurious return and, when the window is closed, by the notification at
\* the end of the Reader.
EmptyWakeups(c) == spurious[c] + (IF bRun THEN 0 ELSE 1)

\* A client is sent the blocks in the order they are read.  One that it has
\* had already, or none at all, it is sent only because nothing tells the
\* thread why it was woken: as often as its wait ended unnotified and once
\* more when the window is closed, whatever is played and stopped meanwhile.
RepeatsExplained ==
    ~decoderFailed => \A c \in Clients : repeats[c] <= EmptyWakeups(c)

\* A client that connects while a sound file plays is told the format of
\* that file, and gets at most one block of an earlier file while it plays:
\* the one the Reader slept on when the file was changed.  It may be sent that
\* block again, but as it may any other.
HearsTheFileItIsTold ==
    \A c \in Clients :
        playing[c] # 0 /\ ~decoderFailed =>
            /\ sHdr[c] = playing[c]
            /\ stale[c] <= 1 + EmptyWakeups(c)

\* wake up all serveclients: when the Reader has ended, nobody waits for it.
AllWokenUp == pcReader = "ended" => CndReady = {}

\* Once the window is closed the program ends, whatever its clients do.
ShutdownCompletes == ~bRun ~> proc # "running"
-----------------------------------------------------------------------------
(* The inductive invariant behind the safety properties; see FileSrvProofs. *)
(* Its parts hold until the decoder fails.                                  *)

\* The client that copies has the mutex, and who waits is in Wait().
MutexInv ==
    /\ \A c \in Clients : MtxAudio = c <=> pc[c] = "copy"
    /\ \A c \in CndReady : pc[c] = "wait"

\* At most one file is open, and none when the button is up; the format is
\* that of an open sound file.
FileInv ==
    /\ sndfileFile = 0 \/ flacDecoder = 0
    /\ pcGui = "stop" => sndfileFile = 0 /\ flacDecoder = 0
    /\ {sndfileFile, flacDecoder} \subseteq 0 .. plays
    /\ sndfileFile # 0 => sFileInfo = sndfileFile
    /\ \A c \in Clients : playing[c] # 0 => sHdr[c] = playing[c]

\* The Reader has read a block that it has not published yet.
Pending == pcReader \in {"sleep", "publish"}

\* Blocks are published in the order they are read.  AudioBlock is whole but
\* while the Reader copies, and what a client holds of it is whole.
BlockInv ==
    /\ dpFileBlock.no <= blocks
    /\ AudioBlock.tail.no <= dpFileBlock.no
    /\ Pending => AudioBlock.tail.no < dpFileBlock.no
    /\ AudioBlock.head = IF pcReader = "publish" THEN dpFileBlock ELSE AudioBlock.tail
    /\ \A c \in Clients : pc[c] = "copy" => LAudioBlock[c].head = AudioBlock.head

\* c was notified and has not taken the block yet.
Awake(c) == pc[c] = "copy" \/ (pc[c] = "wait" /\ c \notin CndReady)

\* Closing the window lets a client that has not seen it yet take one block
\* more than it is notified of; this is whether c has taken it.
LastTaken(c) == IF bRun \/ pc[c] \in {"lock", "wait", "copy"} THEN 0 ELSE 1

\* While the window is open, a client is woken for a block it has not got, or
\* for nothing: then its wait has ended unnotified once more than it has been
\* sent something it had already.
WakeInv ==
    /\ pcReader \in {"final", "ended"} => ~bRun
    /\ \A c \in Clients :
          /\ LAudioBlock[c].tail.no <= AudioBlock.tail.no
          /\ repeats[c] <= spurious[c] + LastTaken(c)
          /\ bRun /\ Awake(c) => \/ LAudioBlock[c].tail.no < AudioBlock.tail.no
                                 \/ repeats[c] < spurious[c]

Old(c, b) == \E f \in b.files : f < playing[c]

\* Is c about to take a block of an earlier file?
Owed(c) == IF Awake(c) /\ Old(c, AudioBlock.tail) THEN 1 ELSE 0

\* Is the block the Reader may have slept on, the only one from an earlier
\* file that can be published while the file c was told of is open, past?
Past(c) == IF Pending /\ Old(c, dpFileBlock) THEN 0 ELSE 1

\* Who has not been sent that block, nor been woken for it, has been sent none
\* but for spurious returns.
StaleInv ==
    \A c \in Clients :
        /\ pc[c] \in {"unborn", "start"} => playing[c] = 0 /\ stale[c] = 0
        /\ stale[c] <= 1 + spurious[c] + LastTaken(c)
        /\ bRun /\ playing[c] # 0 /\ playing[c] = sndfileFile =>
              stale[c] + Owed(c) <= spurious[c] + Past(c)

SafeInv == MutexInv /\ BlockInv /\ WakeInv /\ StaleInv

IInv == /\ TypeOK /\ FileInv
        /\ ~decoderFailed => SafeInv
        /\ FilesUsedLocked /\ NoTornBlock
=============================================================================
