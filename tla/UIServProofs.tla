---------------------------- MODULE UIServProofs ----------------------------
(***************************************************************************)
(* Proofs about UIServ, for any number of clients and any sizes of blocks  *)
(* and results.                                                            *)
(***************************************************************************)
EXTENDS UIServ, TLAPS

USE DEF ServerGoto, ChildGoto, serverVars, clientVars, UIServChild, LevelChild

\* The initial state satisfies the inductive invariant.
LEMMA InitInv == Init => IInv
<1> SUFFICES ASSUME Init PROVE IInv
  OBVIOUS
<1>1. \A c \in Clients : pc[c] = "none" /\ level[c] = 0
  BY DEF Init
<1>2. /\ sent \in [Clients -> 0 .. 4] /\ closed \in [Clients -> BOOLEAN]
      /\ pc \in [Clients -> {"none", "pending", "accepted", "zombie", "reaped"}
                             \cup UIServChild \cup LevelChild]
      /\ level \in [Clients -> Nat]
  BY DEF Init
<1> QED
  BY <1>1, <1>2, UIServAssumption DEF Init, IInv, TypeOK
-----------------------------------------------------------------------------
(* What the processes leave alone that are not named.                      *)

LEMMA ServerLeaves ==
    ASSUME Server
    PROVE  UNCHANGED <<bDebug, stream, clientVars, level>>
BY DEF Server, ServerAccess, ServerSelect, ServerReap, ServerFork, SeesFile

\* The server touches at most one connection that is its own to take, to hand
\* over or to reap.
LEMMA ServerMoves ==
    ASSUME Server
    PROVE  \/ UNCHANGED pc /\ pcServer # "fork" /\ pcServer' # "fork"
           \/ /\ pcServer = "select" /\ pcServer' = "fork" /\ iClientH' \in Clients
              /\ pc[iClientH'] = "pending"
              /\ pc' = [pc EXCEPT ![iClientH'] = "accepted"]
           \/ /\ pcServer = "reap" /\ pcServer' # "fork"
              /\ \E c \in Clients : pc[c] = "zombie" /\ pc' = [pc EXCEPT ![c] = "reaped"]
           \/ /\ pcServer = "fork" /\ pcServer' # "fork"
              /\ \E p \in {"select", "reaped"} : pc' = [pc EXCEPT ![iClientH] = p]
BY DEF Server, ServerAccess, ServerSelect, ServerReap, ServerFork, SeesFile, Pending,
       Zombies, Reap

\* A child moves itself on, away from no place of the server's, and leaves the
\* server alone but for the shutdown file that a stray child takes.
LEMMA ChildLeaves ==
    ASSUME NEW c \in Clients, Child(c) \/ ChildDies(c) \/ Level(c) \/ LevelResult(c)
    PROVE  /\ UNCHANGED <<bDebug, bRun, pcServer, iClientH, stream, clientVars>>
           /\ ShutdownFile' \in {ShutdownFile, FALSE}
           /\ pc[c] \in UIServChild \cup LevelChild
           /\ \E p \in {"zombie"} \cup UIServChild \cup LevelChild :
                 pc' = [pc EXCEPT ![c] = p]
<1>1. CASE Child(c)
  BY <1>1 DEF Child, ChildSelect, ChildRead, ChildStray
<1>2. CASE ChildDies(c)
  BY <1>2 DEF ChildDies
<1>3. CASE Level(c) \/ LevelResult(c)
  BY <1>3 DEF Level, LevelRequest, LevelReadReq, LevelConnect, LevelReceive,
              LevelResult, After
<1> QED
  BY <1>1, <1>2, <1>3

\* A client touches its own connection only, and not what is done with it; the
\* rest of the surroundings touches none.
LEMMA OutsideLeaves ==
    ASSUME \/ Signal \/ TouchShutdown \/ StreamEnds
           \/ \E c \in Clients : Connect(c) \/ ClientSends(c) \/ ClientCloses(c)
    PROVE  /\ UNCHANGED <<bDebug, pcServer, iClientH, level>>
           /\ \/ UNCHANGED pc
              \/ \E c \in Clients : pc[c] = "none" /\ pc' = [pc EXCEPT ![c] = "pending"]
BY DEF Signal, TouchShutdown, StreamEnds, Connect, ClientSends, ClientCloses
-----------------------------------------------------------------------------
(* The samples of a level.                                                 *)

\* What After() says is so.
LEMMA AfterIs ==
    ASSUME NEW n \in Nat
    PROVE  /\ After(n) \in {"receive", "result"}
           /\ After(n) = "receive" <=> n < lSampleCount
BY UIServAssumption DEF After

\* Where a child goes, and with how many samples.
LEMMA ChildSamples ==
    ASSUME IInv, NEW c \in Clients, Child(c) \/ ChildDies(c) \/ Level(c) \/ LevelResult(c)
    PROVE  \E n \in Nat : /\ level' = [level EXCEPT ![c] = n]
                          /\ pc'[c] \notin {"receive", "result"} => n = 0
                          /\ pc'[c] = "receive" => n < lSampleCount
                          /\ pc'[c] = "result" => n >= lSampleCount
<1>0. /\ level \in [Clients -> Nat] /\ level[c] \in Nat
      /\ level = [level EXCEPT ![c] = level[c]]
      /\ pc[c] \notin {"receive", "result"} => level[c] = 0
      /\ pc[c] = "result" => level[c] >= lSampleCount
      /\ lSampleCount \in Nat \ {0} /\ lRawDataCount \in Nat \ {0}
  BY UIServAssumption DEF IInv, TypeOK
<1>1. \A p : pc' = [pc EXCEPT ![c] = p] => pc'[c] = p
  BY DEF IInv, TypeOK
<1>2. CASE Child(c) \/ LevelRequest(c) \/ LevelReadReq(c)
  <2>1. UNCHANGED level /\ pc[c] \notin {"receive", "result"}
    BY <1>2 DEF Child, ChildSelect, ChildRead, ChildStray, LevelRequest, LevelReadReq
  <2>2. pc'[c] \notin {"receive", "result"}
    BY <1>1, <1>2 DEF Child, ChildSelect, ChildRead, ChildStray, LevelRequest,
                      LevelReadReq
  <2> QED
    BY <1>0, <2>1, <2>2
<1>3. CASE ChildDies(c) \/ LevelConnect(c)
  <2>1. level' = [level EXCEPT ![c] = 0] /\ pc'[c] \in {"zombie", "receive"}
    BY <1>1, <1>3 DEF ChildDies, LevelConnect
  <2>2. 0 \in Nat /\ 0 < lSampleCount /\ pc'[c] # "result"
    BY <1>0, <2>1
  <2> QED
    BY <2>1, <2>2
<1>4. CASE LevelReceive(c)
  <2>1. CASE level' = [level EXCEPT ![c] = 0] /\ pc'[c] = "zombie"
    BY <1>0, <2>1
  <2>2. CASE /\ level' = [level EXCEPT ![c] = @ + lRawDataCount]
             /\ pc'[c] = After(level'[c])
    <3> DEFINE n == level[c] + lRawDataCount
    <3>1. n \in Nat /\ level' = [level EXCEPT ![c] = n] /\ level'[c] = n
      BY <1>0, <2>2
    <3>2. /\ pc'[c] \in {"receive", "result"}
          /\ pc'[c] = "receive" <=> n < lSampleCount
      <4>1. pc'[c] = After(n)
        BY <2>2, <3>1
      <4> HIDE DEF n
      <4> QED
        BY <3>1, <4>1, AfterIs
    <3>3. pc'[c] = "result" => n >= lSampleCount
      <4>1. "receive" # "result"
        OBVIOUS
      <4> HIDE DEF n
      <4> QED
        BY <1>0, <3>1, <3>2, <4>1
    <3> QED
      BY <3>1, <3>2, <3>3
  <2> QED
    BY <1>1, <1>4, <2>1, <2>2 DEF LevelReceive
<1>5. CASE LevelResult(c)
  <2>1. CASE level' = [level EXCEPT ![c] = 0] /\ pc'[c] = "zombie"
    BY <1>0, <2>1
  <2>2. CASE /\ level' = [level EXCEPT ![c] = @ - lSampleCount]
             /\ pc'[c] = After(level'[c]) /\ pc[c] = "result"
    <3> DEFINE n == level[c] - lSampleCount
    <3>1. n \in Nat /\ level' = [level EXCEPT ![c] = n] /\ level'[c] = n
      BY <1>0, <2>2
    <3>2. /\ pc'[c] \in {"receive", "result"}
          /\ pc'[c] = "receive" <=> n < lSampleCount
      <4>1. pc'[c] = After(n)
        BY <2>2, <3>1
      <4> HIDE DEF n
      <4> QED
        BY <3>1, <4>1, AfterIs
    <3>3. pc'[c] = "result" => n >= lSampleCount
      <4>1. "receive" # "result"
        OBVIOUS
      <4> HIDE DEF n
      <4> QED
        BY <1>0, <3>1, <3>2, <4>1
    <3> QED
      BY <3>1, <3>2, <3>3
  <2> QED
    BY <1>1, <1>5, <2>1, <2>2 DEF LevelResult
<1> QED
  BY <1>2, <1>3, <1>4, <1>5 DEF Level

\* A level has samples only between its first block and its end, and less than
\* a result unless it is about to send one.
LEMMA SampleStep ==
    IInv /\ [Next]_vars =>
        /\ level' \in [Clients -> Nat]
        /\ \A c \in Clients :
              /\ pc'[c] \notin {"receive", "result"} => level'[c] = 0
              /\ pc'[c] = "receive" => level'[c] < lSampleCount
              /\ pc'[c] = "result" => level'[c] >= lSampleCount
<1> SUFFICES ASSUME IInv, [Next]_vars
             PROVE  /\ level' \in [Clients -> Nat]
                    /\ \A c \in Clients :
                          /\ pc'[c] \notin {"receive", "result"} => level'[c] = 0
                          /\ pc'[c] = "receive" => level'[c] < lSampleCount
                          /\ pc'[c] = "result" => level'[c] >= lSampleCount
  OBVIOUS
<1>0. /\ level \in [Clients -> Nat] /\ lSampleCount \in Nat \ {0}
      /\ pc \in [Clients -> {"none", "pending", "accepted", "zombie", "reaped"}
                             \cup UIServChild \cup LevelChild]
      /\ \A c \in Clients :
            /\ pc[c] \notin {"receive", "result"} => level[c] = 0
            /\ pc[c] = "receive" => level[c] < lSampleCount
            /\ pc[c] = "result" => level[c] >= lSampleCount
  BY UIServAssumption DEF IInv, TypeOK
<1>1. CASE \E c \in Clients : Child(c) \/ ChildDies(c) \/ Level(c) \/ LevelResult(c)
  <2>1. PICK c \in Clients : Child(c) \/ ChildDies(c) \/ Level(c) \/ LevelResult(c)
    BY <1>1
  <2>2. PICK n \in Nat : /\ level' = [level EXCEPT ![c] = n]
                         /\ pc'[c] \notin {"receive", "result"} => n = 0
                         /\ pc'[c] = "receive" => n < lSampleCount
                         /\ pc'[c] = "result" => n >= lSampleCount
    BY <2>1, ChildSamples
  <2>3. \A d \in Clients \ {c} : pc'[d] = pc[d] /\ level'[d] = level[d]
    BY <1>0, <2>1, <2>2, ChildLeaves
  <2>4. level'[c] = n /\ level' \in [Clients -> Nat]
    BY <1>0, <2>2
  <2> QED
    BY <1>0, <2>2, <2>3, <2>4
<1>2. CASE \/ Server \/ Signal \/ TouchShutdown \/ StreamEnds
           \/ \E c \in Clients : Connect(c) \/ ClientSends(c) \/ ClientCloses(c)
  <2>1. UNCHANGED level
    BY <1>2, ServerLeaves, OutsideLeaves
  <2>2. \A c \in Clients :
           pc'[c] = pc[c] \/ (/\ pc[c] \notin {"receive", "result"}
                             /\ pc'[c] \notin {"receive", "result"})
    <3>1. CASE Server
      <4>1. \A c \in Clients : pcServer = "fork" /\ iClientH = c => pc[c] = "accepted"
        BY DEF IInv, TypeOK
      <4>2. CASE UNCHANGED pc
        BY <4>2
      <4>3. CASE /\ iClientH' \in Clients /\ pc[iClientH'] = "pending"
                 /\ pc' = [pc EXCEPT ![iClientH'] = "accepted"]
        BY <1>0, <4>3
      <4>4. CASE \E c \in Clients : pc[c] = "zombie" /\ pc' = [pc EXCEPT ![c] = "reaped"]
        BY <1>0, <4>4
      <4>5. CASE /\ pcServer = "fork"
                 /\ \E p \in {"select", "reaped"} : pc' = [pc EXCEPT ![iClientH] = p]
        BY <1>0, <4>1, <4>5
      <4> QED
        BY <3>1, <4>2, <4>3, <4>4, <4>5, ServerMoves
    <3>2. CASE ~Server
      BY <1>0, <1>2, <3>2, OutsideLeaves
    <3> QED
      BY <3>1, <3>2
  <2> QED
    BY <1>0, <2>1, <2>2
<1>3. CASE Terminated \/ UNCHANGED vars
  BY <1>0, <1>3 DEF Terminated, vars
<1> QED
  BY <1>1, <1>2, <1>3 DEF Next
-----------------------------------------------------------------------------
(* The types, and the invariant as a whole.                                *)

\* A connection is accepted exactly while the server has it in hand.
LEMMA AcceptedStep ==
    IInv /\ [Next]_vars =>
        /\ pc' \in [Clients -> {"none", "pending", "accepted", "zombie", "reaped"}
                              \cup UIServChild \cup LevelChild]
        /\ \A c \in Clients :
              pc'[c] = "accepted" <=> pcServer' = "fork" /\ iClientH' = c
<1> SUFFICES ASSUME IInv, [Next]_vars
             PROVE  /\ pc' \in [Clients -> {"none", "pending", "accepted", "zombie",
                                            "reaped"} \cup UIServChild \cup LevelChild]
                    /\ \A c \in Clients :
                          pc'[c] = "accepted" <=> pcServer' = "fork" /\ iClientH' = c
  OBVIOUS
<1>0. /\ pc \in [Clients -> {"none", "pending", "accepted", "zombie", "reaped"}
                             \cup UIServChild \cup LevelChild]
      /\ \A c \in Clients : pc[c] = "accepted" <=> pcServer = "fork" /\ iClientH = c
  BY DEF IInv, TypeOK
<1>1. CASE \E c \in Clients : Child(c) \/ ChildDies(c) \/ Level(c) \/ LevelResult(c)
  BY <1>0, <1>1, ChildLeaves
<1>2. CASE \/ Signal \/ TouchShutdown \/ StreamEnds
           \/ \E c \in Clients : Connect(c) \/ ClientSends(c) \/ ClientCloses(c)
  BY <1>0, <1>2, OutsideLeaves
<1>3. CASE Server
  <2>1. CASE UNCHANGED pc /\ pcServer # "fork" /\ pcServer' # "fork"
    BY <1>0, <2>1
  <2>2. CASE /\ pcServer = "select" /\ pcServer' = "fork" /\ iClientH' \in Clients
             /\ pc' = [pc EXCEPT ![iClientH'] = "accepted"]
    BY <1>0, <2>2
  <2>3. CASE /\ pcServer = "reap" /\ pcServer' # "fork"
             /\ \E c \in Clients : pc' = [pc EXCEPT ![c] = "reaped"]
    BY <1>0, <2>3
  <2>4. CASE /\ pcServer = "fork" /\ pcServer' # "fork"
             /\ \E p \in {"select", "reaped"} : pc' = [pc EXCEPT ![iClientH] = p]
    BY <1>0, <2>4
  <2> QED
    BY <1>3, <2>1, <2>2, <2>3, <2>4, ServerMoves
<1>4. CASE Terminated \/ UNCHANGED vars
  BY <1>0, <1>4 DEF Terminated, vars
<1> QED
  BY <1>1, <1>2, <1>3, <1>4 DEF Next

\* The types of what the server and the clients keep.
LEMMA ServerTypeStep ==
    IInv /\ [Next]_vars =>
        /\ bDebug' \in BOOLEAN /\ bRun' \in BOOLEAN /\ ShutdownFile' \in BOOLEAN
        /\ pcServer' \in {"access", "select", "reap", "fork", "ended"}
        /\ pcServer' = "ended" => ~bRun'
        /\ stream' \in {"up", "gone"} /\ iClientH' \in Clients \cup {None}
        /\ sent' \in [Clients -> 0 .. 4] /\ closed' \in [Clients -> BOOLEAN]
<1> SUFFICES ASSUME IInv, [Next]_vars
             PROVE  /\ bDebug' \in BOOLEAN /\ bRun' \in BOOLEAN /\ ShutdownFile' \in BOOLEAN
                    /\ pcServer' \in {"access", "select", "reap", "fork", "ended"}
                    /\ pcServer' = "ended" => ~bRun'
                    /\ stream' \in {"up", "gone"} /\ iClientH' \in Clients \cup {None}
                    /\ sent' \in [Clients -> 0 .. 4] /\ closed' \in [Clients -> BOOLEAN]
  OBVIOUS
<1>0. /\ bDebug \in BOOLEAN /\ bRun \in BOOLEAN /\ ShutdownFile \in BOOLEAN
      /\ pcServer \in {"access", "select", "reap", "fork", "ended"}
      /\ pcServer = "ended" => ~bRun
      /\ stream \in {"up", "gone"} /\ iClientH \in Clients \cup {None}
      /\ sent \in [Clients -> 0 .. 4] /\ closed \in [Clients -> BOOLEAN]
  BY DEF IInv, TypeOK
<1>1. CASE \E c \in Clients : Child(c) \/ ChildDies(c) \/ Level(c) \/ LevelResult(c)
  BY <1>0, <1>1, ChildLeaves
<1>2. CASE Signal \/ TouchShutdown \/ StreamEnds
  <2>1. /\ UNCHANGED <<bDebug, pcServer, iClientH, clientVars>>
        /\ stream' \in {stream, "gone"}
        /\ bRun' = bRun \/ bRun' = FALSE
        /\ ShutdownFile' = ShutdownFile \/ ShutdownFile' = TRUE
    BY <1>2 DEF Signal, TouchShutdown, StreamEnds
  <2>2. bRun' \in BOOLEAN /\ ShutdownFile' \in BOOLEAN
    BY <1>0, <2>1, Zenon
  <2> QED
    BY <1>0, <2>1, <2>2
<1>3. CASE \E c \in Clients : Connect(c) \/ ClientSends(c) \/ ClientCloses(c)
  <2>1. /\ UNCHANGED <<bDebug, serverVars, stream>>
        /\ \/ UNCHANGED sent
           \/ \E c \in Clients : sent[c] < 4 /\ sent' = [sent EXCEPT ![c] = @ + 1]
        /\ UNCHANGED closed \/ \E c \in Clients : closed' = [closed EXCEPT ![c] = TRUE]
    BY <1>3 DEF Connect, ClientSends, ClientCloses
  <2>2. sent' \in [Clients -> 0 .. 4]
    BY <1>0, <2>1
  <2>3. closed' \in [Clients -> BOOLEAN]
    BY <1>0, <2>1
  <2> QED
    BY <1>0, <2>1, <2>2, <2>3
<1>4. CASE Server
  <2>1. /\ UNCHANGED <<bDebug, stream, clientVars>>
        /\ pcServer' \in {"access", "select", "reap", "fork", "ended"}
        /\ iClientH' \in Clients \cup {None}
    BY <1>0, <1>4, ServerLeaves DEF Server, ServerAccess, ServerSelect, ServerReap,
                                    ServerFork, SeesFile, Pending
  <2>2. /\ bRun' = bRun \/ bRun' = FALSE
        /\ ShutdownFile' = ShutdownFile \/ ShutdownFile' = FALSE
        /\ pcServer' = "ended" => ~bRun'
    BY <1>4 DEF Server, ServerAccess, ServerSelect, ServerReap, ServerFork, SeesFile
  <2>3. bRun' \in BOOLEAN /\ ShutdownFile' \in BOOLEAN
    BY <1>0, <2>2, Zenon
  <2> QED
    BY <1>0, <2>1, <2>2, <2>3
<1>5. CASE Terminated \/ UNCHANGED vars
  BY <1>0, <1>5 DEF Terminated, vars
<1> QED
  BY <1>1, <1>2, <1>3, <1>4, <1>5 DEF Next

LEMMA StepInv == IInv /\ [Next]_vars => IInv'
<1> SUFFICES ASSUME IInv, [Next]_vars PROVE IInv'
  OBVIOUS
<1>1. \A c \in Clients :
         /\ pc'[c] \in LevelChild \ {"result"} => level'[c] \in 0 .. lSampleCount - 1
         /\ pc'[c] = "result" => level'[c] >= lSampleCount
  <2> TAKE c \in Clients
  <2>1. level'[c] \in Nat /\ lSampleCount \in Nat \ {0}
    BY SampleStep, UIServAssumption
  <2>2. /\ pc'[c] \notin {"receive", "result"} => level'[c] = 0
        /\ pc'[c] = "receive" => level'[c] < lSampleCount
        /\ pc'[c] = "result" => level'[c] >= lSampleCount
    BY SampleStep
  <2> QED
    BY <2>1, <2>2
<1>2. TypeOK'
  BY <1>1, AcceptedStep, ServerTypeStep DEF TypeOK
<1> QED
  BY <1>2, SampleStep DEF IInv

\* The inductive invariant holds in every state of every behaviour.
THEOREM Invariance == Spec => []IInv
BY InitInv, StepInv, PTL DEF Spec

\* Every variable keeps its type; a connection is accepted exactly while the
\* server has it in hand, and level keeps less than a result, whatever the
\* sizes of blocks and results are.
THEOREM TypeCorrect == Spec => []TypeOK
<1>1. IInv => TypeOK
  BY DEF IInv
<1> QED
  BY Invariance, <1>1, PTL
-----------------------------------------------------------------------------
(* What a child has read, and who can take the shutdown file.              *)

\* A level was asked for by a whole name, and has the whole of its request
\* before it joins the stream; a stray child is one whose client closed the
\* connection before its name was complete.
ClientsAsked ==
    \A c \in Clients :
        /\ pc[c] \in LevelChild => sent[c] >= 2
        /\ pc[c] \in {"connect", "receive", "result"} => sent[c] = 4
        /\ pc[c] = "stray" => closed[c] /\ sent[c] < 2

\* The read of a child goes where what was sent lets it.
LEMMA ChildIsAsked ==
    ASSUME IInv, ClientsAsked, NEW c \in Clients,
           Child(c) \/ ChildDies(c) \/ Level(c) \/ LevelResult(c)
    PROVE  /\ pc'[c] \in LevelChild => sent[c] >= 2
           /\ pc'[c] \in {"connect", "receive", "result"} => sent[c] = 4
           /\ pc'[c] = "stray" => closed[c] /\ sent[c] < 2
<1>0. sent[c] \in 0 .. 4 /\ c \in DOMAIN pc
  BY DEF IInv, TypeOK
<1>1. CASE Child(c)
  BY <1>0, <1>1 DEF Child, ChildSelect, ChildRead, ChildStray, Whole, Short, ClientsAsked
<1>2. CASE ChildDies(c)
  BY <1>0, <1>2 DEF ChildDies
<1>3. CASE Level(c)
  BY <1>0, <1>3 DEF Level, LevelRequest, LevelReadReq, LevelConnect, LevelReceive,
                    Whole, Short, After, ClientsAsked
<1>4. CASE LevelResult(c)
  BY <1>0, <1>4 DEF LevelResult, After, ClientsAsked
<1> QED
  BY <1>1, <1>2, <1>3, <1>4

LEMMA AskedStep == IInv /\ ClientsAsked /\ [Next]_vars => ClientsAsked'
<1> SUFFICES ASSUME IInv, ClientsAsked, [Next]_vars PROVE ClientsAsked'
  OBVIOUS
<1>0. /\ sent \in [Clients -> 0 .. 4] /\ closed \in [Clients -> BOOLEAN]
      /\ DOMAIN pc = Clients
  BY DEF IInv, TypeOK
<1>1. CASE Signal \/ TouchShutdown \/ StreamEnds
  BY <1>0, <1>1 DEF Signal, TouchShutdown, StreamEnds, ClientsAsked
<1>2. CASE Server
  <2>1. UNCHANGED clientVars
    BY <1>2, ServerLeaves
  <2>2. \A c \in Clients :
           pc'[c] \in {pc[c], "accepted", "reaped", "select"}
    BY <1>0, <1>2, ServerMoves
  <2>3. ClientsAsked' =
           \A c \in Clients :
              /\ pc'[c] \in LevelChild => sent'[c] >= 2
              /\ pc'[c] \in {"connect", "receive", "result"} => sent'[c] = 4
              /\ pc'[c] = "stray" => closed'[c] /\ sent'[c] < 2
    BY DEF ClientsAsked
  <2> QED
    BY <2>1, <2>2, <2>3 DEF ClientsAsked
<1>3. ASSUME NEW c \in Clients, Connect(c) PROVE ClientsAsked'
  BY <1>0, <1>3 DEF Connect, ClientsAsked
<1>4. ASSUME NEW c \in Clients, ClientSends(c) PROVE ClientsAsked'
  BY <1>0, <1>4 DEF ClientSends, Open, ClientsAsked
<1>5. ASSUME NEW c \in Clients, ClientCloses(c) PROVE ClientsAsked'
  BY <1>0, <1>5 DEF ClientCloses, ClientsAsked
<1>6. ASSUME NEW c \in Clients, Child(c) \/ ChildDies(c) \/ Level(c) \/ LevelResult(c)
      PROVE  ClientsAsked'
  <2>1. UNCHANGED clientVars /\ \A d \in Clients \ {c} : pc'[d] = pc[d]
    BY <1>0, <1>6, ChildLeaves
  <2>2. /\ pc'[c] \in LevelChild => sent[c] >= 2
        /\ pc'[c] \in {"connect", "receive", "result"} => sent[c] = 4
        /\ pc'[c] = "stray" => closed[c] /\ sent[c] < 2
    BY <1>6, ChildIsAsked
  <2> QED
    BY <2>1, <2>2 DEF ClientsAsked
<1>7. CASE Terminated \/ UNCHANGED vars
  BY <1>7 DEF Terminated, vars, ClientsAsked
<1> QED
  BY <1>1, <1>2, <1>3, <1>4, <1>5, <1>6, <1>7 DEF Next

\* level joins the stream for a client only that has sent a whole request,
\* however its reads were cut and whenever it hung up.
THEOREM LevelsAreAsked == Spec => []ClientsAsked
<1>1. Init => ClientsAsked
  BY DEF Init, ClientsAsked
<1> QED
  BY Invariance, AskedStep, <1>1, PTL DEF Spec

\* The shutdown file does not vanish unseen: whoever takes it away is the
\* server, which ends, or a child in the server's loop, and then there is a
\* client that hung up within the name of its program.  This is the part of
\* ShutdownStops that does not depend on scheduling.
ShutdownIsSeen ==
    [][ShutdownFile /\ ~ShutdownFile' =>
          \/ pcServer' = "ended" /\ ~bRun'
          \/ \E c \in Clients : pc[c] = "stray" /\ closed[c] /\ sent[c] < 2]_vars

\* Only a client that hangs up too early can rob the server of its shutdown.
THEOREM ShutdownNotLost == Spec => ShutdownIsSeen
<1> DEFINE A == ShutdownFile /\ ~ShutdownFile' =>
                   \/ pcServer' = "ended" /\ ~bRun'
                   \/ \E c \in Clients : pc[c] = "stray" /\ closed[c] /\ sent[c] < 2
<1>1. ASSUME IInv, ClientsAsked, [Next]_vars PROVE [A]_vars
  <2>1. CASE Signal \/ TouchShutdown \/ StreamEnds \/ Terminated \/ UNCHANGED vars
    BY <2>1 DEF Signal, TouchShutdown, StreamEnds, Terminated, vars
  <2>2. CASE Server
    BY <2>2 DEF Server, ServerAccess, ServerSelect, ServerReap, ServerFork, SeesFile
  <2>3. ASSUME NEW c \in Clients, Connect(c) \/ ClientSends(c) \/ ClientCloses(c)
        PROVE  A
    BY <2>3 DEF Connect, ClientSends, ClientCloses
  <2>4. ASSUME NEW c \in Clients, ChildStray(c) PROVE A
    BY <1>1, <2>4 DEF ChildStray, ClientsAsked
  <2>5. ASSUME NEW c \in Clients, ChildSelect(c) \/ ChildRead(c) \/ ChildDies(c)
        PROVE  A
    BY <2>5 DEF ChildSelect, ChildRead, ChildDies
  <2>6. ASSUME NEW c \in Clients, Level(c) \/ LevelResult(c) PROVE A
    BY <2>6 DEF Level, LevelRequest, LevelReadReq, LevelConnect, LevelReceive,
                LevelResult
  <2> QED
    BY <1>1, <2>1, <2>2, <2>3, <2>4, <2>5, <2>6 DEF Next, Child
<1> QED
  BY Invariance, LevelsAreAsked, <1>1, PTL DEF Spec, ShutdownIsSeen
=============================================================================
