------------------------------- MODULE UIServ -------------------------------
(***************************************************************************)
(* uiserv, the server that starts processing programs (UIServ.cc), with    *)
(* one such program, level (Level.cc), as what it starts.                  *)
(*                                                                         *)
(* For each connection the server forks a child, which reads the name of a *)
(* program from it and becomes that program; level reads its request, joins*)
(* streamdist, and sends a result whenever it has samples enough for one.  *)
(*                                                                         *)
(* A client sends two messages, a name and a request, each in two pieces.  *)
(* A read with a timeout ends when the first byte is there, or too late;   *)
(* ReadN() waits for a whole message, or the end of the connection.        *)
(*                                                                         *)
(* NeverReaps, FailureForgotten, FileTakenOnly and AfterMore are mistakes  *)
(* the code does not make.                                                 *)
(***************************************************************************)
EXTENDS Integers

CONSTANTS Clients,         \* connections that are made to the server
          lRawDataCount,   \* how many samples level receives at a time
          lSampleCount     \*   and needs for a result

ASSUME UIServAssumption ==
    lRawDataCount \in Nat \ {0} /\ lSampleCount \in Nat \ {0}

None == "none"      \* no connection is in hand

VARIABLES
    bDebug,          \* --debug was given, and is passed on
    bRun,            \* the server's; FALSE once a signal was taken
    pcServer,        \* where the server is
    iClientH,        \* the connection it has accepted and not yet passed on
    ShutdownFile,    \* UIS_SHUTDOWNFILE exists
    stream           \* streamdist: "up" or "gone"

VARIABLES
    sent,            \* c -> how many pieces client c has sent
    closed,          \* c -> it has closed its connection
    pc,              \* c -> what became of the connection: where its child is
    level            \* c -> how many samples its level has left

serverVars == <<bRun, pcServer, iClientH, ShutdownFile>>
clientVars == <<sent, closed>>

vars == <<bDebug, serverVars, stream, clientVars, pc, level>>

\* Where a child can be, before and after execl(); "stray" is one that did
\* not get a name and went on with the server's loop.
UIServChild == {"select", "read", "stray"}
LevelChild  == {"request", "readreq", "connect", "receive", "result"}
-----------------------------------------------------------------------------
Init ==
    /\ bDebug \in BOOLEAN
    /\ bRun = TRUE /\ pcServer = "access" /\ iClientH = None
    /\ ShutdownFile = FALSE
    /\ stream = "up"
    /\ sent = [c \in Clients |-> 0]
    /\ closed = [c \in Clients |-> FALSE]
    /\ pc = [c \in Clients |-> "none"]
    /\ level = [c \in Clients |-> 0]
-----------------------------------------------------------------------------
(* The surroundings.                                                       *)

\* SIGINT, SIGTERM, or SIGHUP to a daemon.
Signal ==
    /\ bRun /\ pcServer # "ended"
    /\ bRun' = FALSE
    /\ UNCHANGED <<bDebug, pcServer, iClientH, ShutdownFile, stream, clientVars, pc, level>>

TouchShutdown ==
    /\ ~ShutdownFile
    /\ ShutdownFile' = TRUE
    /\ UNCHANGED <<bDebug, bRun, pcServer, iClientH, stream, clientVars, pc, level>>

StreamEnds ==
    /\ stream = "up" /\ stream' = "gone"
    /\ UNCHANGED <<bDebug, serverVars, clientVars, pc, level>>

Connect(c) ==
    /\ pc[c] = "none" /\ pc' = [pc EXCEPT ![c] = "pending"]
    /\ UNCHANGED <<bDebug, serverVars, stream, clientVars, level>>

\* The connection is there, and the client at the other end.
Open(c) == pc[c] \notin {"none", "zombie", "reaped"} /\ ~closed[c]

ClientSends(c) ==
    /\ Open(c)
    /\ sent[c] < 4
    /\ sent' = [sent EXCEPT ![c] = @ + 1]
    /\ UNCHANGED <<bDebug, serverVars, stream, closed, pc, level>>

ClientCloses(c) ==
    /\ Open(c)
    /\ closed' = [closed EXCEPT ![c] = TRUE]
    /\ UNCHANGED <<bDebug, serverVars, stream, sent, pc, level>>
-----------------------------------------------------------------------------
(* The server: Wait(), and the loop around it.                             *)

ServerGoto(from, to) ==
    /\ pcServer = from /\ pcServer' = to
    /\ UNCHANGED <<bDebug, stream, clientVars, level>>

FileTakenOnly == ServerGoto("access", "select") /\ UNCHANGED bRun

\* What seeing the shutdown file does, besides taking it away.
SeesFile == ServerGoto("access", "ended") /\ bRun' = FALSE

\* while (bRun) of both loops; and the look for the shutdown file.
ServerAccess ==
    /\ \/ /\ bRun /\ ~ShutdownFile
          /\ ServerGoto("access", "select")
          /\ UNCHANGED <<bRun, ShutdownFile>>
       \/ /\ bRun /\ ShutdownFile
          /\ SeesFile
          /\ ShutdownFile' = FALSE
       \/ /\ ~bRun
          /\ ServerGoto("access", "ended")
          /\ UNCHANGED <<bRun, ShutdownFile>>
    /\ UNCHANGED <<iClientH, pc>>

Pending == {c \in Clients : pc[c] = "pending"}

\* WaitForConnect(): a connection, a timeout, or an error, which ends the
\* server.
ServerSelect ==
    \/ \E c \in Pending :
          /\ ServerGoto("select", "fork")
          /\ iClientH' = c /\ pc' = [pc EXCEPT ![c] = "accepted"]
          /\ UNCHANGED <<bRun, ShutdownFile>>
    \/ /\ Pending = {}
       /\ ServerGoto("select", "reap")
       /\ UNCHANGED <<bRun, ShutdownFile, iClientH, pc>>
    \/ /\ ServerGoto("select", "ended")
       /\ bRun' = FALSE
       /\ UNCHANGED <<ShutdownFile, iClientH, pc>>

Zombies == {c \in Clients : pc[c] = "zombie"}

NeverReaps(c) == UNCHANGED pc

Reap(c) == pc' = [pc EXCEPT ![c] = "reaped"]

\* waitpid(0, NULL, WNOHANG): one child, if one has ended.
ServerReap ==
    /\ ServerGoto("reap", "access")
    /\ \/ \E c \in Zombies : Reap(c)
       \/ Zombies = {} /\ UNCHANGED pc
    /\ UNCHANGED <<bRun, ShutdownFile, iClientH>>

\* fork(), which may fail; the server closes its handle in any case.
ServerFork ==
    /\ ServerGoto("fork", "access")
    /\ \E to \in {"select", "reaped"} : pc' = [pc EXCEPT ![iClientH] = to]
    /\ iClientH' = None
    /\ UNCHANGED <<bRun, ShutdownFile>>
-----------------------------------------------------------------------------
(* A child, until it executes a program.                                   *)

ChildGoto(c, from, to) ==
    /\ pc[c] = from /\ pc' = [pc EXCEPT ![c] = to]
    /\ UNCHANGED <<bDebug, stream, clientVars>>

\* Something to read after n pieces: a piece, or the end.
Readable(c, n) == sent[c] > n \/ closed[c]

\* ReadN() of pieces n + 1 and n + 2: all of it, or what was there when the
\* connection ended.
Whole(c, n) == sent[c] >= n + 2
Short(c, n) == sent[c] < n + 2 /\ closed[c]

\* ReadSelect(UIS_MSG_TIMEOUT); exit(1) if it fails.
ChildSelect(c) ==
    /\ \/ Readable(c, 0) /\ ChildGoto(c, "select", "read")
       \/ ~Readable(c, 0) /\ ChildGoto(c, "select", "zombie")
    /\ UNCHANGED <<serverVars, level>>

\* ReadN() of the name, and execl(), or exit(1) when that fails.  A child
\* that got less than a name does neither.
ChildRead(c) ==
    /\ \/ Whole(c, 0) /\ ChildGoto(c, "read", "request")
       \/ Whole(c, 0) /\ ChildGoto(c, "read", "zombie")
       \/ Short(c, 0) /\ ChildGoto(c, "read", "stray")
    /\ UNCHANGED <<serverVars, level>>

\* The stray child is in Wait() of the deleted UIServer, with a bRun of its
\* own: it takes the shutdown file, if there is one.  Then it uses what the
\* destructor has freed: it may crash, end, or go round.
ChildStray(c) ==
    /\ pc[c] = "stray"
    /\ ShutdownFile' = FALSE
    /\ \/ ChildGoto(c, "stray", "zombie")
       \/ ~ShutdownFile /\ ChildGoto(c, "stray", "stray")
    /\ UNCHANGED <<bRun, pcServer, iClientH, level>>

\* Any child may crash or be killed.
ChildDies(c) ==
    /\ pc[c] \in UIServChild \cup LevelChild
    /\ ChildGoto(c, pc[c], "zombie")
    /\ level' = [level EXCEPT ![c] = 0]
    /\ UNCHANGED serverVars
-----------------------------------------------------------------------------
(* level.                                                                  *)

\* GetCfg(), which may fail, and the ReadSelect() of GetRequest().
LevelRequest(c) ==
    /\ \/ Readable(c, 2) /\ ChildGoto(c, "request", "readreq")
       \/ ChildGoto(c, "request", "zombie")
    /\ UNCHANGED <<serverVars, level>>

LevelReadReq(c) ==
    /\ \/ Whole(c, 2) /\ ChildGoto(c, "readreq", "connect")
       \/ Short(c, 2) /\ ChildGoto(c, "readreq", "zombie")
    /\ UNCHANGED <<serverVars, level>>

\* ConnectStream() and Initialize().
LevelConnect(c) ==
    /\ \/ stream = "up" /\ ChildGoto(c, "connect", "receive")
       \/ ChildGoto(c, "connect", "zombie")
    /\ level' = [level EXCEPT ![c] = 0]
    /\ UNCHANGED serverVars

AfterMore(n) == IF n > lSampleCount THEN "result" ELSE "receive"

\* With n samples: there is a result to send, or more to receive.
After(n) == IF n >= lSampleCount THEN "result" ELSE "receive"

\* ReceiveData(): a block of samples; a timeout, or the end of the stream,
\* after which Main() returns.
LevelReceive(c) ==
    /\ \/ /\ stream = "up"
          /\ level' = [level EXCEPT ![c] = @ + lRawDataCount]
          /\ ChildGoto(c, "receive", After(level'[c]))
       \/ /\ level' = [level EXCEPT ![c] = 0]
          /\ ChildGoto(c, "receive", "zombie")
    /\ UNCHANGED serverVars

FailureForgotten(c) == FALSE

\* What a failure of SendResult() ends: level, if it runs with --debug.
EndsOnFailure(c) == bDebug

\* Filter.Get(), Process(), SendResult().
LevelResult(c) ==
    /\ IF closed[c] /\ EndsOnFailure(c)
       THEN /\ level' = [level EXCEPT ![c] = 0]
            /\ ChildGoto(c, "result", "zombie")
       ELSE /\ level' = [level EXCEPT ![c] = @ - lSampleCount]
            /\ ChildGoto(c, "result", After(level'[c]))
    /\ UNCHANGED serverVars
-----------------------------------------------------------------------------
Server == ServerAccess \/ ServerSelect \/ ServerReap \/ ServerFork

\* What a child does without its client's help: it waits for the second
\* piece of a message as long as that takes, and in SendResult() for a
\* client that does not read.
Child(c) == ChildSelect(c) \/ ChildRead(c) \/ ChildStray(c)

Level(c) ==
    \/ LevelRequest(c) \/ LevelReadReq(c) \/ LevelConnect(c)
    \/ LevelReceive(c)

Terminated == pcServer = "ended" /\ UNCHANGED vars

Next ==
    \/ Signal \/ TouchShutdown \/ StreamEnds \/ Server
    \/ \E c \in Clients : \/ Connect(c) \/ ClientSends(c) \/ ClientCloses(c)
                          \/ Child(c) \/ ChildDies(c)
                          \/ Level(c) \/ LevelResult(c)
    \/ Terminated

Spec == Init /\ [][Next]_vars

\* Processes are scheduled, and timeouts expire.  Clients need not connect,
\* send, read or close, the stream need not end, and a result is sure to be
\* written only when the client has closed the connection.
Fairness ==
    /\ WF_vars(Server)
    /\ \A c \in Clients :
          WF_vars(Child(c) \/ Level(c) \/ (closed[c] /\ LevelResult(c)))

FairSpec == Spec /\ Fairness
-----------------------------------------------------------------------------
\* Every variable keeps its type; a connection is accepted exactly while the
\* server has it in hand, and level keeps less than a result.
TypeOK ==
    /\ bDebug \in BOOLEAN /\ bRun \in BOOLEAN /\ ShutdownFile \in BOOLEAN
    /\ pcServer \in {"access", "select", "reap", "fork", "ended"}
    /\ pcServer = "ended" => ~bRun
    /\ stream \in {"up", "gone"}
    /\ sent \in [Clients -> 0 .. 4] /\ closed \in [Clients -> BOOLEAN]
    /\ pc \in [Clients -> {"none", "pending", "accepted", "zombie", "reaped"}
                          \cup UIServChild \cup LevelChild]
    /\ iClientH \in Clients \cup {None}
    /\ \A c \in Clients :
          /\ pc[c] = "accepted" <=> pcServer = "fork" /\ iClientH = c
          /\ pc[c] \in LevelChild \ {"result"} => level[c] \in 0 .. lSampleCount - 1
          /\ pc[c] = "result" => level[c] >= lSampleCount

\* What the steps keep: a level has samples only between its first block and
\* its end.
IInv ==
    /\ TypeOK
    /\ level \in [Clients -> Nat]
    /\ \A c \in Clients : pc[c] \notin {"receive", "result"} => level[c] = 0

\* The README: stop processes "by creating file <servername>.shutdown to /tmp
\* directory".  The server sees the file and ends, whatever clients and
\* children do, unless a stray child takes the file away from it.
ShutdownStops ==
    ShutdownFile ~> pcServer = "ended" \/ \E c \in Clients : pc[c] = "stray"

\* A child waits for the rest of a message or for its result to be read, and
\* its client does neither that nor closes the connection.
HeldByClient(c) ==
    /\ ~closed[c]
    /\ \/ pc[c] = "read" /\ ~Whole(c, 0)
       \/ pc[c] = "readreq" /\ ~Whole(c, 2)
       \/ pc[c] = "result"

Gone(c) == pc[c] = "reaped" \/ (pcServer = "ended" /\ pc[c] \in {"pending", "zombie"})

\* What was started for a connection ends, and the server reaps it: when the
\* stream is gone; or, with --debug, when the client is.  (Without --debug, a
\* level goes on for a client that is gone until the stream ends.)  Only its
\* own client can hold it.
ProcessesEnd ==
    \A c \in Clients :
        pc[c] # "none" /\ (stream = "gone" \/ (bDebug /\ closed[c]))
            ~> Gone(c) \/ HeldByClient(c) \/ pc[c] = "stray"
=============================================================================
