---------------------------- MODULE FileSrvProofs ---------------------------
(***************************************************************************)
(* Proofs about FileSrv, for any number of clients, plays, blocks and      *)
(* spurious wakeups and any kinds of files.                                *)
(***************************************************************************)
EXTENDS FileSrv, SequenceTheorems, TLAPS

USE DEF ReaderGoto, Goto, guiUnchanged, readerUnchanged, clUnchanged, fileVars,
        blockVars, clVars, clHist, hist, NoBlock, NoBuf

\* The initial state satisfies the inductive invariant.
LEMMA InitInv == Init => IInv
<1> SUFFICES ASSUME Init PROVE IInv
  OBVIOUS
<1>0. 0 \in Files
  BY InputAssumption DEF Files
<1>1. TypeOK
  <2>1. [no |-> 0, files |-> {}] \in Blocks
    BY DEF Blocks
  <2>2. StreamBuf \in Seq(Files)
    BY DEF Init
  <2>3. ReaderTypeOK
    BY <2>1, <2>2 DEF Init, ReaderTypeOK
  <2>4. ClientTypeOK
    BY <1>0, <2>1 DEF Init, ClientTypeOK
  <2> QED
    BY <1>0, <2>3, <2>4 DEF Init, TypeOK
<1>2. FileInv /\ FilesUsedLocked
  BY ThreadAssumption DEF Init, FileInv, FilesUsedLocked
<1>3. MutexInv /\ BlockInv /\ NoTornBlock
  BY ThreadAssumption DEF Init, MutexInv, BlockInv, NoTornBlock, Pending
<1>4. WakeInv /\ StaleInv
  BY DEF Init, WakeInv, StaleInv, Awake, Owed, Past, Pending, Old, LastTaken
<1> QED
  BY <1>1, <1>2, <1>3, <1>4 DEF IInv, SafeInv
-----------------------------------------------------------------------------
\* What the threads leave alone that are not named.
LEMMA GuiLeaves ==
    ASSUME Gui
    PROVE  /\ UNCHANGED <<pcServer, pcReader, blockVars, MtxAudio, CndReady, pc, clVars,
                          blocks, decoderFailed, clHist>>
           /\ bRun' => bRun
BY DEF Gui, OnDelete, Play, Stop, Close, MainJoin, Join

LEMMA ReadLeaves ==
    ASSUME Read
    PROVE  UNCHANGED <<bRun, pcGui, pcServer, sndfileFile, pc, clVars, plays, kind,
                       clHist>>
BY DEF Read, ReaderTest, ReaderIdle, IdleThen, ReaderLock, ReadSnd, ReadSndThen,
       DecodeGet, DecodeFrame, DecodeFail, DecodeNull, ReaderCopy, ReaderPublish,
       ReaderEnd

LEMMA ServerLeaves ==
    ASSUME ServerAccept \/ Terminated \/ UNCHANGED vars
    PROVE  /\ UNCHANGED <<bRun, proc, pcGui, pcReader, fileVars, blockVars, MtxAudio,
                          CndReady, clVars, hist>>
           /\ \/ UNCHANGED pc
              \/ \E c \in Clients : pc[c] = "unborn" /\ pc' = [pc EXCEPT ![c] = "start"]
BY DEF ServerAccept, Terminated, vars

LEMMA ServeLeaves ==
    ASSUME NEW c \in Clients, Compute(c) \/ Talk(c) \/ SpuriousWakeup(c)
    PROVE  clUnchanged
BY DEF Compute, Talk, ServeStart, SendHdr, Test, WaitReady, WakeUp, CopyHead, Copy,
       SendBlock, SpuriousWakeup

\* Where the steps of a client thread that concern nobody else lead.
LEMMA ServesAlone ==
    ASSUME NEW c \in Clients, SendHdr(c) \/ Test(c) \/ SendBlock(c)
    PROVE  /\ UNCHANGED <<MtxAudio, CndReady, clVars, clHist>>
           /\ pc[c] \in {"sendHdr", "test", "send"}
           /\ \E p \in {"test", "lock", "gone"} :
                 pc' = [pc EXCEPT ![c] = p] /\ (p = "lock" => bRun)
BY DEF SendHdr, Test, SendBlock
-----------------------------------------------------------------------------
\* The decoder's samples stay samples.
LEMMA StreamBufType == TypeOK /\ Read => ReaderTypeOK' /\ blocks' \in Nat
<1> SUFFICES ASSUME TypeOK, Read PROVE ReaderTypeOK' /\ blocks' \in Nat
  OBVIOUS
<1> USE DEF TypeOK, ReaderTypeOK
<1>0. /\ StreamBuf \in Seq(Files) /\ dpFileBlock \in Blocks
      /\ AudioBlock \in [head : Blocks, tail : Blocks]
      /\ blocks \in Nat /\ sndfileFile \in Files /\ flacDecoder \in Files
  OBVIOUS
<1>1. CASE ReaderTest \/ ReaderIdle \/ ReaderLock \/ DecodeFail \/ DecodeNull
                      \/ ReaderEnd
  BY <1>0, <1>1 DEF ReaderTest, ReaderIdle, IdleThen, ReaderLock, DecodeFail,
                    DecodeNull, ReaderEnd
<1>2. CASE ReadSnd
  <2>1. [no |-> blocks + 1, files |-> {sndfileFile}] \in Blocks
    BY <1>0 DEF Blocks
  <2>2. /\ UNCHANGED <<StreamBuf, AudioBlock>>
        /\ \/ /\ blocks' = blocks + 1
              /\ dpFileBlock' = [no |-> blocks + 1, files |-> {sndfileFile}]
           \/ UNCHANGED <<blocks, dpFileBlock>>
    BY <1>2 DEF ReadSnd, ReadSndThen
  <2>3. dpFileBlock' \in Blocks
    BY <1>0, <2>1, <2>2, Zenon
  <2>4. blocks' \in Nat
    BY <1>0, <2>2
  <2> QED
    BY <1>0, <2>2, <2>3, <2>4
<1>3. CASE DecodeGet
  <2>1. StreamBuf[1] \in Files /\ StreamBuf[2] \in Files
    <3>1. Len(StreamBuf) >= 2
      BY <1>3 DEF DecodeGet
    <3> QED
      BY <1>0, <3>1, ElementOfSeq
  <2>2. [no |-> blocks + 1, files |-> {StreamBuf[1], StreamBuf[2]}] \in Blocks
    BY <1>0, <2>1 DEF Blocks
  <2>3. SubSeq(StreamBuf, 3, Len(StreamBuf)) \in Seq(Files)
    <3>1. Len(StreamBuf) \in Nat /\ 3 \in Int
      BY <1>0, LenProperties
    <3>2. \A i \in 3 .. Len(StreamBuf) : StreamBuf[i] \in Files
      BY <1>0, <3>1, ElementOfSeq
    <3> QED
      BY <1>0, <3>1, <3>2, SubSeqProperties
  <2> QED
    BY <1>0, <1>3, <2>2, <2>3 DEF DecodeGet
<1>4. CASE DecodeFrame
  <2>1. PICK n \in {1, 3} : StreamBuf' = StreamBuf \o [i \in 1 .. n |-> flacDecoder]
    BY <1>4 DEF DecodeFrame
  <2>2. [i \in 1 .. n |-> flacDecoder] \in Seq(Files)
    BY <1>0, <2>1, IsASeq
  <2>3. StreamBuf' \in Seq(Files)
    BY <1>0, <2>1, <2>2, ConcatProperties
  <2> QED
    BY <1>0, <1>4, <2>3 DEF DecodeFrame
<1>5. CASE ReaderCopy
  BY <1>0, <1>5 DEF ReaderCopy
<1>6. CASE ReaderPublish
  BY <1>0, <1>6 DEF ReaderPublish
<1> QED
  BY <1>1, <1>2, <1>3, <1>4, <1>5, <1>6 DEF Read

\* Every step keeps the types; the files there are come from 0 .. plays.
LEMMA TypeStep == IInv /\ [Next]_vars => TypeOK' /\ FileInv'
<1> SUFFICES ASSUME IInv, [Next]_vars PROVE TypeOK' /\ FileInv'
  OBVIOUS
<1>0. /\ TypeOK /\ FileInv /\ MaxPlays \in Nat /\ plays \in Nat
      /\ ClientTypeOK /\ ReaderTypeOK
      /\ sFileInfo \in 0 .. MaxPlays
  BY InputAssumption DEF IInv, TypeOK, Files
<1>1. CASE Gui
  <2>0. UNCHANGED <<pcServer, pcReader, blockVars, MtxAudio, CndReady, pc, clVars,
                    blocks, decoderFailed, clHist>>
    BY <1>1, GuiLeaves
  <2>1. CASE Play
    <3>1. /\ plays' = plays + 1 /\ plays + 1 \in Files
          /\ pcGui = "stop" /\ pcGui' = "play" /\ UNCHANGED <<bRun, proc>>
      BY <1>0, <2>1 DEF Play, Files
    <3>2. \/ sndfileFile' = plays + 1 /\ sFileInfo' = plays + 1 /\ UNCHANGED flacDecoder
          \/ flacDecoder' = plays + 1 /\ UNCHANGED <<sndfileFile, sFileInfo>>
          \/ UNCHANGED fileVars
      BY <2>1 DEF Play
    <3>3. FileInv'
      BY <1>0, <2>0, <3>1, <3>2 DEF FileInv
    <3>4. {sndfileFile, flacDecoder, sFileInfo}' \subseteq Files
      BY <1>0, <3>1, <3>2 DEF TypeOK
    <3>5. ClientTypeOK'
      <4>1. playing \in [Clients -> 0 .. plays + 1]
        BY <1>0 DEF ClientTypeOK
      <4> QED
        BY <1>0, <2>0, <3>1, <4>1 DEF ClientTypeOK
    <3>6. ReaderTypeOK'
      BY <1>0, <2>0 DEF ReaderTypeOK
    <3> QED
      BY <1>0, <2>0, <3>1, <3>3, <3>4, <3>5, <3>6 DEF TypeOK
  <2>2. CASE OnDelete \/ Stop \/ MainJoin
    <3>1. /\ ClientTypeOK' /\ ReaderTypeOK'
      BY <1>0, <2>0, <2>2 DEF ClientTypeOK, ReaderTypeOK, OnDelete, Stop, Close,
                              MainJoin, Join
    <3>2. FileInv'
      BY <1>0, <2>0, <2>2 DEF FileInv, OnDelete, Stop, Close, MainJoin, Join
    <3>3. 0 \in Files
      BY <1>0 DEF Files
    <3>4. CASE OnDelete
      BY <1>0, <2>0, <3>1, <3>2, <3>4 DEF OnDelete, TypeOK
    <3>5. CASE Stop
      BY <1>0, <2>0, <3>1, <3>2, <3>3, <3>5 DEF Stop, Close, TypeOK
    <3>6. CASE MainJoin
      BY <1>0, <2>0, <3>1, <3>2, <3>6 DEF MainJoin, Join, TypeOK
    <3> QED
      BY <2>2, <3>4, <3>5, <3>6
  <2> QED
    BY <1>1, <2>1, <2>2 DEF Gui
<1>2. CASE Read
  <2>0. UNCHANGED <<bRun, pcGui, pcServer, sndfileFile, pc, clVars, plays, kind,
                    clHist>>
    BY <1>2, ReadLeaves
  <2>1. ReaderTypeOK' /\ blocks' \in Nat
    BY <1>0, <1>2, StreamBufType
  <2>2. ClientTypeOK'
    BY <1>0, <2>0 DEF ClientTypeOK
  <2>3. /\ proc' \in {"running", "exited", "fault"}
        /\ pcReader' \in {"test", "lock", "readSnd", "decode", "sleep", "publish",
                          "final", "ended"}
        /\ MtxAudio' \in Clients \cup {Reader, NoThread}
        /\ CndReady' \subseteq Clients
        /\ decoderFailed' \in BOOLEAN
        /\ \/ UNCHANGED <<sFileInfo, flacDecoder>>
           \/ flacDecoder' = 0 /\ UNCHANGED sFileInfo
           \/ sFileInfo' = flacDecoder /\ flacDecoder # 0 /\ UNCHANGED flacDecoder
    <3> USE DEF TypeOK, Audio!Lock, Audio!Unlock, Audio!NotifyAll
    <3>1. CASE ReaderTest \/ ReaderIdle
      BY <1>0, <3>1 DEF ReaderTest, ReaderIdle, IdleThen
    <3>2. CASE ReaderLock
      BY <1>0, <3>2 DEF ReaderLock
    <3>3. CASE ReadSnd
      BY <1>0, <3>3 DEF ReadSnd, ReadSndThen
    <3>4. CASE DecodeGet \/ DecodeFrame
      BY <1>0, <3>4 DEF DecodeGet, DecodeFrame
    <3>5. CASE DecodeFail \/ DecodeNull
      BY <1>0, <3>5 DEF DecodeFail, DecodeNull
    <3>6. CASE ReaderCopy \/ ReaderPublish \/ ReaderEnd
      BY <1>0, <3>6 DEF ReaderCopy, ReaderPublish, ReaderEnd
    <3> QED
      BY <1>2, <3>1, <3>2, <3>3, <3>4, <3>5, <3>6 DEF Read
  <2>4. {sndfileFile, flacDecoder, sFileInfo}' \subseteq Files
    BY <1>0, <2>0, <2>3 DEF TypeOK, Files
  <2>5. FileInv'
    BY <1>0, <2>0, <2>3 DEF FileInv
  <2>6. bRun' \in BOOLEAN /\ plays' \in Files
    BY <1>0, <2>0 DEF TypeOK
  <2>7. pcGui' \in {"play", "stop", "join", "exit"} /\ pcServer' \in {"accept", "ended"}
    BY <1>0, <2>0 DEF TypeOK
  <2> QED
    BY <2>1, <2>2, <2>3, <2>4, <2>5, <2>6, <2>7 DEF TypeOK
<1>3. CASE ServerAccept \/ Terminated \/ UNCHANGED vars
  <2>1. /\ UNCHANGED <<bRun, proc, pcGui, pcReader, fileVars, blockVars, MtxAudio,
                       CndReady, clVars, hist>>
        /\ \/ UNCHANGED pc
           \/ \E c \in Clients : pc[c] = "unborn" /\ pc' = [pc EXCEPT ![c] = "start"]
    BY <1>3, ServerLeaves
  <2>2. ClientTypeOK'
    BY <1>0, <2>1 DEF ClientTypeOK
  <2>3. FileInv' /\ ReaderTypeOK'
    BY <1>0, <2>1 DEF FileInv, ReaderTypeOK
  <2>4. pcServer' \in {"accept", "ended"}
    BY <1>0, <1>3 DEF ServerAccept, Terminated, vars, TypeOK
  <2> QED
    BY <1>0, <2>1, <2>2, <2>3, <2>4 DEF TypeOK
<1>4. ASSUME NEW c \in Clients, Compute(c) \/ Talk(c) \/ SpuriousWakeup(c) PROVE TypeOK' /\ FileInv'
  <2>0. clUnchanged
    BY <1>4, ServeLeaves
  <2>1. ClientTypeOK' /\ FileInv' /\ MtxAudio' \in Clients \cup {Reader, NoThread}
                      /\ CndReady' \subseteq Clients
    <3>0. MtxAudio \in Clients \cup {Reader, NoThread} /\ CndReady \subseteq Clients
      BY <1>0 DEF TypeOK
    <3>1. CASE SendHdr(c) \/ Test(c) \/ SendBlock(c)
      <4>1. /\ UNCHANGED <<MtxAudio, CndReady, clVars, clHist>>
            /\ \E p \in {"test", "lock", "gone"} : pc' = [pc EXCEPT ![c] = p]
        BY <3>1, ServesAlone
      <4> QED
        BY <1>0, <2>0, <3>0, <4>1 DEF ClientTypeOK, FileInv
    <3>2. CASE ServeStart(c)
      <4>1. sndfileFile \in 0 .. plays /\ sFileInfo \in Files
        BY <1>0 DEF FileInv, TypeOK
      <4>2. ClientTypeOK'
        BY <1>0, <2>0, <3>2, <4>1 DEF ServeStart, ClientTypeOK
      <4>3. FileInv'
        BY <1>0, <2>0, <3>2 DEF ServeStart, FileInv, ClientTypeOK
      <4> QED
        BY <3>0, <3>2, <4>2, <4>3 DEF ServeStart
    <3>3. CASE WaitReady(c)
      <4>1. FileInv'
        BY <1>0, <2>0, <3>3 DEF WaitReady, FileInv
      <4> QED
        BY <1>0, <2>0, <3>0, <3>3, <4>1 DEF WaitReady, Audio!Wait, Audio!Unlock,
                                           ClientTypeOK
    <3>4. CASE WakeUp(c)
      <4>1. FileInv'
        BY <1>0, <2>0, <3>4 DEF WakeUp, CopyHead, FileInv
      <4>2. ClientTypeOK'
        BY <1>0, <2>0, <3>4 DEF WakeUp, CopyHead, ClientTypeOK, ReaderTypeOK
      <4> QED
        BY <3>0, <3>4, <4>1, <4>2 DEF WakeUp, CopyHead, Audio!Lock
    <3>5. CASE Copy(c)
      <4>1. FileInv'
        BY <1>0, <2>0, <3>5 DEF Copy, FileInv
      <4>2. stale' \in [Clients -> Nat] /\ repeats' \in [Clients -> Nat]
        BY <1>0, <3>5 DEF Copy, ClientTypeOK
      <4>3. LAudioBlock' \in [Clients -> [head : Blocks, tail : Blocks]]
        BY <1>0, <3>5 DEF Copy, ClientTypeOK, ReaderTypeOK
      <4>4. ClientTypeOK'
        BY <1>0, <2>0, <3>5, <4>2, <4>3 DEF Copy, ClientTypeOK
      <4> QED
        BY <3>0, <3>5, <4>1, <4>4 DEF Copy, Audio!Unlock
    <3>6. CASE SpuriousWakeup(c)
      <4>1. FileInv'
        BY <1>0, <2>0, <3>6 DEF SpuriousWakeup, FileInv
      <4>2. spurious' \in [Clients -> Nat]
        BY <1>0, <3>6 DEF SpuriousWakeup, ClientTypeOK
      <4>3. ClientTypeOK'
        BY <1>0, <2>0, <3>6, <4>2 DEF SpuriousWakeup, ClientTypeOK
      <4> QED
        BY <3>0, <3>6, <4>1, <4>3 DEF SpuriousWakeup, Audio!Spurious
    <3> QED
      BY <1>4, <3>1, <3>2, <3>3, <3>4, <3>5, <3>6 DEF Compute, Talk
  <2>2. ReaderTypeOK'
    BY <1>0, <2>0 DEF ReaderTypeOK
  <2> QED
    BY <1>0, <2>0, <2>1, <2>2 DEF TypeOK
<1> QED
  BY <1>1, <1>2, <1>3, <1>4 DEF Next
-----------------------------------------------------------------------------
\* Until the decoder fails the Reader has something to read from.
LEMMA Works ==
    ASSUME IInv, [Next]_vars, ~decoderFailed'
    PROVE  /\ ~decoderFailed /\ SafeInv /\ TypeOK /\ FileInv
           /\ ~DecodeFail /\ ~DecodeNull
<1>1. ~decoderFailed
  <2>1. CASE Gui
    BY <2>1, GuiLeaves
  <2>2. CASE Read
    BY <2>2 DEF Read, ReaderTest, ReaderIdle, IdleThen, ReaderLock, ReadSnd,
                ReadSndThen, DecodeGet, DecodeFrame, DecodeFail, DecodeNull,
                ReaderCopy, ReaderPublish, ReaderEnd
  <2>3. CASE ServerAccept \/ Terminated \/ UNCHANGED vars
    BY <2>3, ServerLeaves
  <2>4. ASSUME NEW c \in Clients, Compute(c) \/ Talk(c) \/ SpuriousWakeup(c) PROVE ~decoderFailed
    BY <2>4, ServeLeaves
  <2> QED
    BY <2>1, <2>2, <2>3, <2>4 DEF Next
<1>2. ~DecodeFail
  BY DEF DecodeFail
<1>3. ~DecodeNull
  BY <1>1 DEF IInv, DecodeNull, FilesUsedLocked
<1> QED
  BY <1>1, <1>2, <1>3 DEF IInv

\* The file and the block are used with the mutex.
LEMMA MutexStep ==
    IInv /\ [Next]_vars => (~decoderFailed' => MutexInv') /\ FilesUsedLocked'
<1> SUFFICES ASSUME IInv, [Next]_vars, ~decoderFailed'
             PROVE  MutexInv' /\ FilesUsedLocked'
  BY DEF FilesUsedLocked
<1> USE ThreadAssumption DEF Audio!Lock, Audio!Unlock
<1>0. /\ ~decoderFailed /\ MutexInv /\ FileInv /\ FilesUsedLocked
      /\ ~DecodeFail /\ ~DecodeNull
      /\ pc \in [Clients -> {"unborn", "start", "sendHdr", "test", "lock", "wait",
                             "copy", "send", "gone"}]
      /\ CndReady \subseteq Clients
  BY Works DEF SafeInv, IInv, TypeOK, ClientTypeOK
<1>1. CASE Gui
  <2>0. UNCHANGED <<pcReader, MtxAudio, CndReady, pc>>
    BY <1>1, GuiLeaves
  <2>1. MutexInv'
    BY <1>0, <2>0 DEF MutexInv
  <2>2. proc' # "fault"
    BY <1>0, <1>1 DEF Gui, OnDelete, Play, Stop, Close, MainJoin, Join,
                      FilesUsedLocked
  <2>3. UNCHANGED <<sndfileFile, flacDecoder>> \/ MtxAudio = NoThread
    BY <1>1 DEF Gui, OnDelete, Play, Stop, Close, MainJoin, Join
  <2> QED
    BY <1>0, <2>0, <2>1, <2>2, <2>3 DEF FilesUsedLocked
<1>2. CASE Read
  <2>0. UNCHANGED <<pc, sndfileFile>>
    BY <1>2, ReadLeaves
  <2> USE DEF MutexInv, FilesUsedLocked
  <2>1. CASE ReaderTest
    BY <1>0, <2>0, <2>1 DEF ReaderTest
  <2>2. CASE ReaderIdle
    BY <1>0, <2>0, <2>2 DEF ReaderIdle, IdleThen
  <2>3. CASE ReaderLock
    BY <1>0, <2>0, <2>3 DEF ReaderLock
  <2>4. CASE ReadSnd
    BY <1>0, <2>0, <2>4 DEF ReadSnd, ReadSndThen
  <2>5. CASE DecodeGet
    BY <1>0, <2>0, <2>5 DEF DecodeGet
  <2>6. CASE DecodeFrame
    BY <1>0, <2>0, <2>6 DEF DecodeFrame
  <2>7. CASE ReaderCopy
    BY <1>0, <2>0, <2>7 DEF ReaderCopy
  <2>8. CASE ReaderPublish
    BY <1>0, <2>0, <2>8 DEF ReaderPublish, Audio!NotifyAll
  <2>9. CASE ReaderEnd
    BY <1>0, <2>0, <2>9 DEF ReaderEnd, Audio!NotifyAll
  <2> QED
    BY <1>0, <1>2, <2>1, <2>2, <2>3, <2>4, <2>5, <2>6, <2>7, <2>8, <2>9 DEF Read
<1>3. CASE ServerAccept \/ Terminated \/ UNCHANGED vars
  <2>1. /\ UNCHANGED <<proc, pcReader, fileVars, MtxAudio, CndReady>>
        /\ \/ UNCHANGED pc
           \/ \E c \in Clients : pc[c] = "unborn" /\ pc' = [pc EXCEPT ![c] = "start"]
    BY <1>3, ServerLeaves
  <2> QED
    BY <1>0, <2>1 DEF MutexInv, FilesUsedLocked
<1>4. ASSUME NEW c \in Clients, Compute(c) \/ Talk(c) \/ SpuriousWakeup(c)
      PROVE  MutexInv' /\ FilesUsedLocked'
  <2>0. UNCHANGED <<proc, pcReader, fileVars>>
    BY <1>4, ServeLeaves
  <2> USE DEF MutexInv, FilesUsedLocked
  <2>1. CASE SendHdr(c) \/ Test(c) \/ SendBlock(c)
    <3>1. /\ UNCHANGED <<MtxAudio, CndReady>>
          /\ pc[c] \in {"sendHdr", "test", "send"}
          /\ \E p \in {"test", "lock", "gone"} : pc' = [pc EXCEPT ![c] = p]
      BY <2>1, ServesAlone
    <3> QED
      BY <1>0, <2>0, <3>1
  <2>2. CASE ServeStart(c)
    BY <1>0, <2>0, <2>2 DEF ServeStart
  <2>3. CASE WaitReady(c)
    BY <1>0, <2>0, <2>3 DEF WaitReady, Audio!Wait
  <2>4. CASE WakeUp(c)
    BY <1>0, <2>0, <2>4 DEF WakeUp, CopyHead
  <2>5. CASE Copy(c)
    BY <1>0, <2>0, <2>5 DEF Copy
  <2>6. CASE SpuriousWakeup(c)
    BY <1>0, <2>0, <2>6 DEF SpuriousWakeup, Audio!Spurious
  <2> QED
    BY <1>4, <2>1, <2>2, <2>3, <2>4, <2>5, <2>6 DEF Compute, Talk
<1> QED
  BY <1>1, <1>2, <1>3, <1>4 DEF Next
-----------------------------------------------------------------------------
\* What the Reader does to the blocks and to who waits for them.
LEMMA ReaderBlocks ==
    ASSUME IInv, Read, ~decoderFailed'
    PROVE  \/ /\ UNCHANGED <<dpFileBlock, AudioBlock, CndReady, blocks>>
              /\ pcReader' \in {"test", "lock", "readSnd", "decode", "final"}
              /\ pcReader \in {"test", "lock", "readSnd", "decode"}
              /\ pcReader' = "final" => ~bRun
           \/ /\ UNCHANGED <<AudioBlock, CndReady>>
              /\ pcReader \in {"readSnd", "decode"} /\ pcReader' = "sleep"
              /\ blocks' = blocks + 1 /\ dpFileBlock'.no = blocks + 1
              /\ sndfileFile # 0 => dpFileBlock'.files = {sndfileFile}
           \/ ReaderCopy \/ ReaderPublish \/ ReaderEnd
<1>0. ~DecodeFail /\ ~DecodeNull /\ FilesUsedLocked /\ ~decoderFailed /\ FileInv
  BY Works DEF IInv, Next
<1>1. CASE ReaderTest \/ ReaderIdle \/ ReaderLock
  BY <1>1 DEF ReaderTest, ReaderIdle, IdleThen, ReaderLock
<1>2. CASE ReadSnd
  BY <1>2 DEF ReadSnd, ReadSndThen
<1>3. CASE DecodeGet
  <2>1. sndfileFile = 0
    BY <1>0, <1>3 DEF DecodeGet, FilesUsedLocked, FileInv
  <2> QED
    BY <1>3, <2>1 DEF DecodeGet
<1>4. CASE DecodeFrame
  BY <1>4 DEF DecodeFrame
<1> QED
  BY <1>0, <1>1, <1>2, <1>3, <1>4 DEF Read

\* Blocks are published in order and copied whole.
LEMMA BlockStep ==
    IInv /\ [Next]_vars => (~decoderFailed' => BlockInv') /\ NoTornBlock'
<1> SUFFICES ASSUME IInv, [Next]_vars, ~decoderFailed'
             PROVE  BlockInv' /\ NoTornBlock'
  BY DEF NoTornBlock
<1> USE DEF Pending
<1>0. /\ ~decoderFailed /\ MutexInv /\ BlockInv /\ FilesUsedLocked /\ NoTornBlock
      /\ pc \in [Clients -> {"unborn", "start", "sendHdr", "test", "lock", "wait",
                             "copy", "send", "gone"}]
      /\ LAudioBlock \in [Clients -> [head : Blocks, tail : Blocks]]
      /\ AudioBlock \in [head : Blocks, tail : Blocks]
      /\ dpFileBlock.no \in Nat /\ AudioBlock.tail.no \in Nat /\ blocks \in Nat
  BY Works DEF SafeInv, IInv, TypeOK, ClientTypeOK, ReaderTypeOK, Blocks
<1>1. CASE Gui
  <2>1. UNCHANGED <<pcReader, dpFileBlock, AudioBlock, blocks, pc, LAudioBlock>>
    BY <1>1, GuiLeaves
  <2> QED
    BY <1>0, <2>1 DEF BlockInv, NoTornBlock
<1>2. CASE Read
  <2>0. UNCHANGED <<pc, LAudioBlock>>
    BY <1>2, ReadLeaves
  <2>1. NoTornBlock'
    BY <1>0, <2>0 DEF NoTornBlock
  <2>2. CASE /\ UNCHANGED <<dpFileBlock, AudioBlock, CndReady, blocks>>
             /\ pcReader' \in {"test", "lock", "readSnd", "decode", "final"}
             /\ pcReader \in {"test", "lock", "readSnd", "decode"}
    BY <1>0, <2>0, <2>1, <2>2 DEF BlockInv
  <2>3. CASE /\ UNCHANGED <<AudioBlock, CndReady>>
             /\ pcReader \in {"readSnd", "decode"} /\ pcReader' = "sleep"
             /\ blocks' = blocks + 1 /\ dpFileBlock'.no = blocks + 1
    BY <1>0, <2>0, <2>1, <2>3 DEF BlockInv
  <2>4. CASE ReaderCopy
    <3>1. \A c \in Clients : pc[c] # "copy"
      BY <1>0, <2>4, ThreadAssumption DEF ReaderCopy, Audio!Lock, MutexInv
    <3>2. /\ AudioBlock'.head = dpFileBlock /\ AudioBlock'.tail = AudioBlock.tail
          /\ UNCHANGED <<dpFileBlock, blocks>>
          /\ pcReader = "sleep" /\ pcReader' = "publish"
      BY <1>0, <2>4 DEF ReaderCopy
    <3> QED
      BY <1>0, <2>0, <2>1, <3>1, <3>2 DEF BlockInv
  <2>5. CASE ReaderPublish
    <3>1. \A c \in Clients : pc[c] # "copy"
      BY <1>0, <2>5, ThreadAssumption DEF ReaderPublish, FilesUsedLocked, MutexInv
    <3>2. /\ AudioBlock'.head = AudioBlock.head /\ AudioBlock'.tail = dpFileBlock
          /\ UNCHANGED <<dpFileBlock, blocks>>
          /\ pcReader = "publish" /\ pcReader' = "test"
      BY <1>0, <2>5 DEF ReaderPublish
    <3> QED
      BY <1>0, <2>0, <2>1, <3>1, <3>2 DEF BlockInv
  <2>6. CASE ReaderEnd
    BY <1>0, <2>0, <2>1, <2>6 DEF BlockInv, ReaderEnd
  <2> QED
    BY <1>2, <2>2, <2>3, <2>4, <2>5, <2>6, ReaderBlocks
<1>3. CASE ServerAccept \/ Terminated \/ UNCHANGED vars
  <2>1. /\ UNCHANGED <<pcReader, dpFileBlock, AudioBlock, LAudioBlock, blocks>>
        /\ \/ UNCHANGED pc
           \/ \E c \in Clients : pc[c] = "unborn" /\ pc' = [pc EXCEPT ![c] = "start"]
    BY <1>3, ServerLeaves
  <2> QED
    BY <1>0, <2>1 DEF BlockInv, NoTornBlock
<1>4. ASSUME NEW c \in Clients, Compute(c) \/ Talk(c) \/ SpuriousWakeup(c) PROVE BlockInv' /\ NoTornBlock'
  <2>0. UNCHANGED <<pcReader, dpFileBlock, AudioBlock, blocks>>
    BY <1>4, ServeLeaves
  <2> USE DEF BlockInv, NoTornBlock
  <2>1. CASE SendHdr(c) \/ Test(c) \/ SendBlock(c)
    <3>1. /\ UNCHANGED LAudioBlock
          /\ \E p \in {"test", "lock", "gone"} : pc' = [pc EXCEPT ![c] = p]
      BY <2>1, ServesAlone
    <3> QED
      BY <1>0, <2>0, <3>1
  <2>2. CASE ServeStart(c)
    BY <1>0, <2>0, <2>2 DEF ServeStart
  <2>3. CASE WaitReady(c)
    BY <1>0, <2>0, <2>3 DEF WaitReady
  <2>4. CASE WakeUp(c)
    BY <1>0, <2>0, <2>4 DEF WakeUp, CopyHead
  <2>5. CASE Copy(c)
    <3>1. pcReader # "publish"
      BY <1>0, <2>5, ThreadAssumption DEF Copy, FilesUsedLocked, MutexInv
    <3> QED
      BY <1>0, <2>0, <2>5, <3>1 DEF Copy
  <2>6. CASE SpuriousWakeup(c)
    BY <1>0, <2>0, <2>6 DEF SpuriousWakeup
  <2> QED
    BY <1>4, <2>1, <2>2, <2>3, <2>4, <2>5, <2>6 DEF Compute, Talk
<1> QED
  BY <1>1, <1>2, <1>3, <1>4 DEF Next
-----------------------------------------------------------------------------
\* A client is woken for a block it has not got, or for nothing.
LEMMA WakeStep == IInv /\ [Next]_vars => (~decoderFailed' => WakeInv')
<1> SUFFICES ASSUME IInv, [Next]_vars, ~decoderFailed' PROVE WakeInv'
  OBVIOUS
<1> USE DEF Pending, Awake
<1>0. /\ ~decoderFailed /\ MutexInv /\ BlockInv /\ WakeInv
      /\ pc \in [Clients -> {"unborn", "start", "sendHdr", "test", "lock", "wait",
                             "copy", "send", "gone"}]
      /\ LAudioBlock \in [Clients -> [head : Blocks, tail : Blocks]]
      /\ AudioBlock.tail.no \in Nat /\ dpFileBlock.no \in Nat
      /\ \A c \in Clients : LAudioBlock[c].tail.no \in Nat
      /\ repeats \in [Clients -> Nat] /\ spurious \in [Clients -> Nat]
      /\ bRun \in BOOLEAN
  BY Works DEF SafeInv, IInv, TypeOK, ClientTypeOK, ReaderTypeOK, Blocks
<1>a. \A c \in Clients : repeats[c] \in Nat /\ spurious[c] \in Nat
  BY <1>0
<1>b. \A c \in Clients : LastTaken(c) \in {0, 1} /\ LastTaken(c)' \in {0, 1}
  BY DEF LastTaken
<1>1. CASE Gui
  <2>1. /\ UNCHANGED <<pcReader, AudioBlock, CndReady, pc, LAudioBlock, repeats, spurious>>
        /\ bRun' => bRun
    BY <1>1, GuiLeaves
  <2>2. \A c \in Clients : LastTaken(c) <= LastTaken(c)'
    BY <1>0, <2>1 DEF LastTaken
  <2>3. \A c \in Clients : repeats[c] <= spurious[c] + LastTaken(c)'
    BY <1>0, <1>a, <1>b, <2>2 DEF WakeInv
  <2> QED
    BY <1>0, <2>1, <2>3 DEF WakeInv
<1>2. CASE Read
  <2>0. UNCHANGED <<bRun, pc, LAudioBlock, repeats, spurious>>
    BY <1>2, ReadLeaves
  <2>a. \A c \in Clients : LastTaken(c)' = LastTaken(c)
    BY <2>0 DEF LastTaken
  <2>1. CASE /\ UNCHANGED <<AudioBlock, CndReady>>
             /\ pcReader' \notin {"final", "ended"} \/ ~bRun
    BY <1>0, <2>0, <2>a, <2>1 DEF WakeInv
  <2>2. CASE ReaderCopy
    <3>1. AudioBlock'.tail = AudioBlock.tail /\ UNCHANGED CndReady /\ pcReader' = "publish"
      BY <2>2 DEF ReaderCopy
    <3> QED
      BY <1>0, <2>0, <2>a, <3>1 DEF WakeInv
  <2>3. CASE ReaderPublish
    <3>1. AudioBlock'.tail = dpFileBlock /\ pcReader = "publish" /\ pcReader' = "test"
      BY <1>0, <2>3 DEF ReaderPublish
    <3>2. AudioBlock.tail.no < AudioBlock'.tail.no
      BY <1>0, <3>1 DEF BlockInv
    <3>3. AudioBlock'.tail.no \in Nat
      BY <1>0, <3>1
    <3>4. \A c \in Clients : LAudioBlock[c].tail.no < AudioBlock'.tail.no
      BY <1>0, <3>2, <3>3 DEF WakeInv
    <3> QED
      BY <1>0, <2>0, <2>a, <3>1, <3>3, <3>4 DEF WakeInv
  <2>4. CASE ReaderEnd
    BY <1>0, <2>0, <2>a, <2>4 DEF ReaderEnd, WakeInv
  <2> QED
    BY <1>2, <2>1, <2>2, <2>3, <2>4, ReaderBlocks
<1>3. CASE ServerAccept \/ Terminated \/ UNCHANGED vars
  <2>1. /\ UNCHANGED <<bRun, pcReader, AudioBlock, CndReady, LAudioBlock, repeats, spurious>>
        /\ \/ UNCHANGED pc
           \/ \E c \in Clients : pc[c] = "unborn" /\ pc' = [pc EXCEPT ![c] = "start"]
    BY <1>3, ServerLeaves
  <2>2. \A c \in Clients : LastTaken(c)' = LastTaken(c) /\ (Awake(c)' => Awake(c))
    BY <1>0, <2>1 DEF LastTaken
  <2> QED
    BY <1>0, <2>1, <2>2 DEF WakeInv
<1>4. ASSUME NEW c \in Clients, Compute(c) \/ Talk(c) \/ SpuriousWakeup(c) PROVE WakeInv'
  <2>0. UNCHANGED <<bRun, pcReader, AudioBlock>>
    BY <1>4, ServeLeaves
  <2> USE DEF WakeInv
  <2>1. CASE SendHdr(c) \/ Test(c) \/ SendBlock(c)
    <3>1. /\ UNCHANGED <<CndReady, LAudioBlock, repeats, spurious>>
          /\ pc[c] \in {"sendHdr", "test", "send"}
          /\ \E p \in {"test", "lock", "gone"} :
                pc' = [pc EXCEPT ![c] = p] /\ (p = "lock" => bRun)
      BY <2>1, ServesAlone
    <3>2. \A d \in Clients : LastTaken(d)' = LastTaken(d) /\ (Awake(d)' => Awake(d))
      BY <1>0, <2>0, <3>1 DEF LastTaken
    <3> QED
      BY <1>0, <2>0, <3>1, <3>2
  <2>2. CASE ServeStart(c) \/ WaitReady(c)
    <3>1. UNCHANGED <<LAudioBlock, repeats, spurious>>
      BY <2>2 DEF ServeStart, WaitReady
    <3>2. \A d \in Clients : LastTaken(d)' = LastTaken(d) /\ (Awake(d)' => Awake(d))
      BY <1>0, <2>0, <2>2 DEF ServeStart, WaitReady, Audio!Wait, LastTaken
    <3> QED
      BY <1>0, <2>0, <3>1, <3>2
  <2>3. CASE SpuriousWakeup(c)
    <3>1. /\ UNCHANGED <<pc, LAudioBlock, repeats>>
          /\ spurious' = [spurious EXCEPT ![c] = @ + 1]
          /\ CndReady' = CndReady \ {c}
      BY <2>3 DEF SpuriousWakeup, Audio!Spurious
    <3>2. \A d \in Clients : LastTaken(d)' = LastTaken(d)
      BY <2>0, <3>1 DEF LastTaken
    <3>3. /\ spurious'[c] = spurious[c] + 1
          /\ \A d \in Clients \ {c} : spurious'[d] = spurious[d] /\ (Awake(d)' => Awake(d))
      BY <1>0, <3>1
    <3>4. repeats[c] <= spurious'[c] + LastTaken(c)
      BY <1>0, <1>a, <1>b, <3>3
    <3>5. bRun => repeats[c] < spurious'[c]
      BY <1>0, <1>a, <3>3 DEF LastTaken
    <3> QED
      BY <1>0, <2>0, <3>1, <3>2, <3>3, <3>4, <3>5
  <2>4. CASE WakeUp(c)
    <3>1. /\ \A d \in Clients : LAudioBlock'[d].tail = LAudioBlock[d].tail
          /\ UNCHANGED <<repeats, spurious>>
      BY <1>0, <2>4 DEF WakeUp, CopyHead
    <3>2. \A d \in Clients : LastTaken(d)' = LastTaken(d) /\ (Awake(d)' => Awake(d))
      BY <1>0, <2>0, <2>4 DEF WakeUp, CopyHead, LastTaken
    <3> QED
      BY <1>0, <2>0, <3>1, <3>2
  <2>5. CASE Copy(c)
    <3>1. /\ \A d \in Clients : LAudioBlock'[d].tail =
                                 IF d = c THEN AudioBlock.tail ELSE LAudioBlock[d].tail
          /\ pc[c] = "copy" /\ UNCHANGED spurious
      BY <1>0, <2>5 DEF Copy
    <3>2. \A d \in Clients : Awake(d)' => d # c /\ Awake(d)
      BY <1>0, <2>5 DEF Copy
    <3>3. /\ repeats'[c] = IF IsRepeat(c) THEN repeats[c] + 1 ELSE repeats[c]
          /\ \A d \in Clients \ {c} : repeats'[d] = repeats[d]
      BY <1>0, <2>5 DEF Copy
    <3>4. /\ LastTaken(c) = 0 /\ LastTaken(c)' = IF bRun THEN 0 ELSE 1
          /\ \A d \in Clients \ {c} : LastTaken(d)' = LastTaken(d)
      BY <1>0, <2>0, <2>5 DEF Copy, LastTaken
    <3>5. bRun /\ IsRepeat(c) => repeats[c] < spurious[c]
      BY <1>0, <3>1 DEF IsRepeat
    <3>6. repeats'[c] <= spurious[c] + LastTaken(c)'
      BY <1>0, <1>a, <3>3, <3>4, <3>5
    <3> QED
      BY <1>0, <2>0, <3>1, <3>2, <3>3, <3>4, <3>6
  <2> QED
    BY <1>4, <2>1, <2>2, <2>3, <2>4, <2>5 DEF Compute, Talk
<1> QED
  BY <1>1, <1>2, <1>3, <1>4 DEF Next
-----------------------------------------------------------------------------
\* Who joins a file gets at most one block from before it, but for repetitions.
LEMMA StaleStep == IInv /\ [Next]_vars => (~decoderFailed' => StaleInv')
<1> SUFFICES ASSUME IInv, [Next]_vars, ~decoderFailed' PROVE StaleInv'
  OBVIOUS
<1> USE DEF Pending, Awake
<1>0. /\ ~decoderFailed /\ MutexInv /\ BlockInv /\ StaleInv /\ FileInv /\ WakeInv
      /\ FilesUsedLocked
      /\ pc \in [Clients -> {"unborn", "start", "sendHdr", "test", "lock", "wait",
                             "copy", "send", "gone"}]
      /\ plays \in Nat
      /\ playing \in [Clients -> 0 .. plays] /\ stale \in [Clients -> Nat]
      /\ spurious \in [Clients -> Nat]
      /\ bRun \in BOOLEAN
  BY Works, InputAssumption DEF SafeInv, IInv, TypeOK, ClientTypeOK, Files
<1>a. \A c \in Clients : stale[c] \in Nat /\ spurious[c] \in Nat
  BY <1>0
<1>b. \A c \in Clients :
         /\ LastTaken(c) \in {0, 1} /\ LastTaken(c)' \in {0, 1}
         /\ Owed(c) \in {0, 1} /\ Owed(c)' \in {0, 1}
         /\ Past(c) \in {0, 1} /\ Past(c)' \in {0, 1}
  BY DEF LastTaken, Owed, Past
<1>1. CASE Gui
  <2>1. /\ UNCHANGED <<pcReader, dpFileBlock, AudioBlock, CndReady, pc, playing, stale,
                       spurious>>
        /\ bRun' => bRun
    BY <1>1, GuiLeaves
  <2>2. sndfileFile' \in {sndfileFile, 0, plays + 1}
    BY <1>1 DEF Gui, OnDelete, Play, Stop, Close, MainJoin, Join
  <2>3. \A c \in Clients : playing[c] # 0 /\ playing[c] = sndfileFile' =>
                               sndfileFile' = sndfileFile
    BY <1>0, <2>2
  <2>4. \A c \in Clients : /\ LastTaken(c) <= LastTaken(c)'
                           /\ Owed(c)' = Owed(c) /\ Past(c)' = Past(c)
    BY <1>0, <2>1 DEF LastTaken, Owed, Past, Old
  <2>5. \A c \in Clients : stale[c] <= 1 + spurious[c] + LastTaken(c)'
    BY <1>0, <1>a, <1>b, <2>4 DEF StaleInv
  <2> QED
    BY <1>0, <2>1, <2>3, <2>4, <2>5 DEF StaleInv
<1>2. CASE Read
  <2>0. UNCHANGED <<bRun, pc, sndfileFile, playing, stale, spurious>>
    BY <1>2, ReadLeaves
  <2>a. \A c \in Clients : LastTaken(c)' = LastTaken(c)
    BY <2>0 DEF LastTaken
  <2>1. CASE /\ UNCHANGED <<dpFileBlock, AudioBlock, CndReady, blocks>>
             /\ pcReader' \in {"test", "lock", "readSnd", "decode", "final"}
             /\ pcReader \in {"test", "lock", "readSnd", "decode"}
    <3>1. \A c \in Clients : Owed(c)' = Owed(c) /\ Past(c)' = Past(c)
      BY <2>0, <2>1 DEF Owed, Past, Old
    <3> QED
      BY <1>0, <2>0, <2>a, <3>1 DEF StaleInv
  <2>2. CASE /\ UNCHANGED <<AudioBlock, CndReady>>
             /\ pcReader \in {"readSnd", "decode"}
             /\ sndfileFile # 0 => dpFileBlock'.files = {sndfileFile}
    <3>1. \A c \in Clients : Owed(c)' = Owed(c) /\ Past(c) = 1
      BY <2>0, <2>2 DEF Owed, Past, Old
    <3>2. ASSUME NEW c \in Clients, playing[c] # 0, playing[c] = sndfileFile
          PROVE  Past(c)' = 1
      <4>1. ~Old(c, dpFileBlock)'
        BY <1>0, <2>0, <2>2, <3>2 DEF Old
      <4> QED
        BY <4>1 DEF Past
    <3> QED
      BY <1>0, <2>0, <2>a, <3>1, <3>2 DEF StaleInv
  <2>3. CASE ReaderCopy
    <3>1. /\ AudioBlock'.tail = AudioBlock.tail
          /\ UNCHANGED <<CndReady, dpFileBlock>>
          /\ pcReader = "sleep" /\ pcReader' = "publish"
      BY <2>3 DEF ReaderCopy
    <3>2. \A c \in Clients : Owed(c)' = Owed(c) /\ Past(c)' = Past(c)
      BY <2>0, <3>1 DEF Owed, Past, Old
    <3> QED
      BY <1>0, <2>0, <2>a, <3>2 DEF StaleInv
  <2>4. CASE ReaderPublish
    <3>1. /\ AudioBlock'.tail = dpFileBlock
          /\ pcReader = "publish" /\ pcReader' = "test"
      BY <1>0, <2>4 DEF ReaderPublish
    <3>2. \A c \in Clients : Past(c)' = 1 /\ (Owed(c)' = 1 => Past(c) = 0)
      BY <2>0, <3>1 DEF Owed, Past, Old
    <3>3. ASSUME NEW c \in Clients, stale[c] + Owed(c) <= spurious[c] + Past(c)
          PROVE  stale[c] + Owed(c)' <= spurious[c] + Past(c)'
      BY <1>a, <1>b, <3>2, <3>3
    <3> QED
      BY <1>0, <2>0, <2>a, <3>3 DEF StaleInv
  <2>5. CASE ReaderEnd
    BY <1>0, <2>0, <2>a, <2>5 DEF ReaderEnd, StaleInv, WakeInv
  <2> QED
    BY <1>2, <2>1, <2>2, <2>3, <2>4, <2>5, ReaderBlocks
<1>3. CASE ServerAccept \/ Terminated \/ UNCHANGED vars
  <2>1. /\ UNCHANGED <<bRun, sndfileFile, pcReader, dpFileBlock, AudioBlock, CndReady,
                       playing, stale, spurious>>
        /\ \/ UNCHANGED pc
           \/ \E c \in Clients : pc[c] = "unborn" /\ pc' = [pc EXCEPT ![c] = "start"]
    BY <1>3, ServerLeaves
  <2>2. \A c \in Clients : /\ LastTaken(c)' = LastTaken(c)
                           /\ Owed(c)' = Owed(c) /\ Past(c)' = Past(c)
                           /\ pc'[c] \in {"unborn", "start"} => pc[c] \in {"unborn", "start"}
    BY <1>0, <2>1 DEF LastTaken, Owed, Past, Old
  <2> QED
    BY <1>0, <2>1, <2>2 DEF StaleInv
<1>4. ASSUME NEW c \in Clients, Compute(c) \/ Talk(c) \/ SpuriousWakeup(c) PROVE StaleInv'
  <2>0. UNCHANGED <<bRun, sndfileFile, pcReader, dpFileBlock, AudioBlock>>
    BY <1>4, ServeLeaves
  <2>1. CASE SendHdr(c) \/ Test(c) \/ SendBlock(c)
    <3>1. /\ UNCHANGED <<CndReady, playing, stale, spurious>>
          /\ pc[c] \in {"sendHdr", "test", "send"}
          /\ \E p \in {"test", "lock", "gone"} :
                pc' = [pc EXCEPT ![c] = p] /\ (p = "lock" => bRun)
      BY <2>1, ServesAlone
    <3>2. \A d \in Clients : /\ LastTaken(d)' = LastTaken(d)
                             /\ Owed(d)' = Owed(d) /\ Past(d)' = Past(d)
                             /\ pc'[d] \in {"unborn", "start"} => pc'[d] = pc[d]
      BY <1>0, <2>0, <3>1 DEF LastTaken, Owed, Past, Old
    <3> QED
      BY <1>0, <2>0, <3>1, <3>2 DEF StaleInv
  <2>2. CASE ServeStart(c)
    <3>1. /\ pc[c] = "start" /\ pc' = [pc EXCEPT ![c] = "sendHdr"]
          /\ playing' = [playing EXCEPT ![c] = sndfileFile]
          /\ UNCHANGED <<CndReady, stale, spurious>>
      BY <2>2 DEF ServeStart
    <3>2. \A d \in Clients : LastTaken(d)' = LastTaken(d)
      BY <1>0, <2>0, <3>1 DEF LastTaken
    <3>3. stale[c] = 0 /\ Owed(c)' = 0 /\ pc'[c] = "sendHdr"
      BY <1>0, <3>1 DEF StaleInv, Owed
    <3>4. stale[c] + Owed(c)' <= spurious[c] + Past(c)'
      BY <1>a, <1>b, <3>3
    <3>5. \A d \in Clients \ {c} : playing'[d] = playing[d] /\ pc'[d] = pc[d]
      BY <1>0, <3>1
    <3>6. \A d \in Clients \ {c} : Owed(d)' = Owed(d) /\ Past(d)' = Past(d)
      BY <2>0, <3>1, <3>5 DEF Owed, Past, Old
    <3> QED
      BY <1>0, <2>0, <3>1, <3>2, <3>3, <3>4, <3>5, <3>6 DEF StaleInv
  <2>3. CASE WaitReady(c) \/ WakeUp(c)
    <3>1. UNCHANGED <<playing, stale, spurious>>
      BY <2>3 DEF WaitReady, WakeUp, CopyHead
    <3>2. \A d \in Clients : /\ LastTaken(d)' = LastTaken(d)
                             /\ Awake(d)' = Awake(d)
                             /\ pc'[d] \in {"unborn", "start"} => pc'[d] = pc[d]
      BY <1>0, <2>0, <2>3 DEF WaitReady, WakeUp, CopyHead, Audio!Wait, LastTaken
    <3>3. \A d \in Clients : Owed(d)' = Owed(d) /\ Past(d)' = Past(d)
      BY <2>0, <3>1, <3>2 DEF Owed, Past, Old
    <3> QED
      BY <1>0, <2>0, <3>1, <3>2, <3>3 DEF StaleInv
  <2>4. CASE SpuriousWakeup(c)
    <3>1. /\ UNCHANGED <<pc, playing, stale>>
          /\ spurious' = [spurious EXCEPT ![c] = @ + 1]
          /\ CndReady' = CndReady \ {c}
      BY <2>4 DEF SpuriousWakeup, Audio!Spurious
    <3>2. \A d \in Clients : LastTaken(d)' = LastTaken(d) /\ Past(d)' = Past(d)
      BY <2>0, <3>1 DEF LastTaken, Past, Old
    <3>3. /\ spurious'[c] = spurious[c] + 1
          /\ \A d \in Clients \ {c} : spurious'[d] = spurious[d] /\ Owed(d)' = Owed(d)
      BY <1>0, <2>0, <3>1 DEF Owed, Old
    <3>4. stale[c] + Owed(c) <= spurious[c] + Past(c) =>
             stale[c] + Owed(c)' <= spurious'[c] + Past(c)
      BY <1>a, <1>b, <3>3
    <3>5. stale[c] <= 1 + spurious[c] + LastTaken(c) =>
             stale[c] <= 1 + spurious'[c] + LastTaken(c)
      BY <1>a, <1>b, <3>3
    <3> QED
      BY <1>0, <2>0, <3>1, <3>2, <3>3, <3>4, <3>5 DEF StaleInv
  <2>5. CASE Copy(c)
    <3>1. /\ pc[c] = "copy" /\ pc' = [pc EXCEPT ![c] = "send"]
          /\ UNCHANGED <<CndReady, playing, spurious>>
      BY <2>5 DEF Copy
    <3>2. /\ stale'[c] = IF IsStale(c) THEN stale[c] + 1 ELSE stale[c]
          /\ \A d \in Clients \ {c} : stale'[d] = stale[d] /\ pc'[d] = pc[d]
      BY <1>0, <2>5 DEF Copy
    <3>3. /\ LastTaken(c) = 0 /\ LastTaken(c)' = IF bRun THEN 0 ELSE 1
          /\ Owed(c)' = 0 /\ pc'[c] = "send"
          /\ \A d \in Clients : Past(d)' = Past(d)
      BY <1>0, <2>0, <3>1 DEF LastTaken, Owed, Past, Old
    <3>4. \A d \in Clients \ {c} : Owed(d)' = Owed(d) /\ LastTaken(d)' = LastTaken(d)
      BY <2>0, <3>1, <3>2 DEF LastTaken, Owed, Old
    <3>5. IsStale(c) => Owed(c) = 1 /\ playing[c] # 0 /\ playing[c] = sndfileFile
      BY <3>1 DEF IsStale, Owed, Old
    <3>6. bRun /\ playing[c] # 0 /\ playing[c] = sndfileFile =>
             stale[c] + Owed(c) <= spurious[c] + Past(c)
      BY <1>0 DEF StaleInv
    <3>7. stale[c] <= 1 + spurious[c] + LastTaken(c)
      BY <1>0 DEF StaleInv
    <3>8. stale'[c] <= 1 + spurious[c] + LastTaken(c)'
      BY <1>0, <1>a, <1>b, <3>2, <3>3, <3>5, <3>6, <3>7
    <3>9. bRun /\ playing[c] # 0 /\ playing[c] = sndfileFile =>
             stale'[c] + Owed(c)' <= spurious[c] + Past(c)
      BY <1>a, <1>b, <3>2, <3>3, <3>5, <3>6
    <3> QED
      BY <1>0, <2>0, <3>1, <3>2, <3>3, <3>4, <3>8, <3>9 DEF StaleInv
  <2> QED
    BY <1>4, <2>1, <2>2, <2>3, <2>4, <2>5 DEF Compute, Talk
<1> QED
  BY <1>1, <1>2, <1>3, <1>4 DEF Next
-----------------------------------------------------------------------------
\* Every step preserves the inductive invariant, which thus always holds.
LEMMA StepInv == IInv /\ [Next]_vars => IInv'
BY TypeStep, MutexStep, BlockStep, WakeStep, StaleStep DEF IInv, SafeInv

THEOREM Invariance == Spec => []IInv
BY InitInv, StepInv, PTL DEF Spec

\* Every variable keeps its type.
THEOREM TypeCorrect == Spec => []TypeOK
<1>1. IInv => TypeOK
  BY DEF IInv
<1> QED
  BY Invariance, <1>1, PTL

\* Until the decoder fails, whatever the user does, the Reader uses what is
\* open, with the mutex, and never NULL.
THEOREM FilesAreLocked == Spec => []FilesUsedLocked
<1>1. IInv => FilesUsedLocked
  BY DEF IInv
<1> QED
  BY Invariance, <1>1, PTL

\* What a client is sent is one whole block.
THEOREM BlocksAreWhole == Spec => []NoTornBlock
<1>1. IInv => NoTornBlock
  BY DEF IInv
<1> QED
  BY Invariance, <1>1, PTL

\* The header is that of the file which plays, and at most one block is of
\* an earlier one, but for repetitions of it.
THEOREM HeadersMatch == Spec => []HearsTheFileItIsTold
<1>1. ASSUME IInv, ~decoderFailed, NEW c \in Clients, playing[c] # 0
      PROVE  sHdr[c] = playing[c] /\ stale[c] <= 1 + EmptyWakeups(c)
  <2>1. sHdr[c] = playing[c] /\ stale[c] <= 1 + spurious[c] + LastTaken(c)
    BY <1>1 DEF IInv, SafeInv, FileInv, StaleInv
  <2>2. stale[c] \in Nat /\ spurious[c] \in Nat
    BY <1>1 DEF IInv, TypeOK, ClientTypeOK
  <2>3. LastTaken(c) \in {0, 1} /\ (bRun => LastTaken(c) = 0)
    BY DEF LastTaken
  <2> QED
    BY <2>1, <2>2, <2>3 DEF EmptyWakeups
<1>2. IInv => HearsTheFileItIsTold
  BY <1>1 DEF HearsTheFileItIsTold
<1> QED
  BY Invariance, <1>2, PTL

\* A client gets the blocks in the order they were read, and the same one again
\* only when its thread is woken without a new one.
THEOREM BlocksInOrder == Spec => []RepeatsExplained
<1>1. ASSUME IInv, ~decoderFailed, NEW c \in Clients
      PROVE  repeats[c] <= EmptyWakeups(c)
  <2>1. repeats[c] <= spurious[c] + LastTaken(c)
    BY <1>1 DEF IInv, SafeInv, WakeInv
  <2>2. repeats[c] \in Nat /\ spurious[c] \in Nat
    BY <1>1 DEF IInv, TypeOK, ClientTypeOK
  <2>3. LastTaken(c) \in {0, 1} /\ (bRun => LastTaken(c) = 0)
    BY DEF LastTaken
  <2> QED
    BY <2>1, <2>2, <2>3 DEF EmptyWakeups
<1>2. IInv => RepeatsExplained
  BY <1>1 DEF RepeatsExplained
<1> QED
  BY Invariance, <1>2, PTL
=============================================================================
