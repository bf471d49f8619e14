---------------------------- MODULE BlockStream -----------------------------
(***************************************************************************)
(* What the "freely spinning" servers promise their clients, with no       *)
(* threads, locks or buffers in it.  The input publishes blocks, numbered  *)
(* from 1.  A client joins the stream where it is, and from then on takes, *)
(* whenever it is ready, the newest block there is: always one it has not  *)
(* had yet, always a whole one.  The blocks it was not ready for are       *)
(* missed, and counted.  Nothing a client does delays the input.           *)
(***************************************************************************)
EXTENDS Integers

CONSTANT Clients

VARIABLES published,   \* the number of blocks published so far
          joined,      \* the clients that take part in the stream
          newest,      \* c -> the last block c has taken, or where it joined
          missed       \* c -> how many blocks c was not ready for

vars == <<published, joined, newest, missed>>

Init ==
    /\ published = 0
    /\ joined = {}
    /\ newest = [c \in Clients |-> 0]
    /\ missed = [c \in Clients |-> 0]

Publish ==
    /\ published' = published + 1
    /\ UNCHANGED <<joined, newest, missed>>

Join(c) ==
    /\ c \notin joined
    /\ joined' = joined \cup {c}
    /\ newest' = [newest EXCEPT ![c] = published]
    /\ UNCHANGED <<published, missed>>

Take(c) ==
    /\ c \in joined
    /\ newest[c] < published
    /\ newest' = [newest EXCEPT ![c] = published]
    /\ missed' = [missed EXCEPT ![c] = @ + (published - newest[c] - 1)]
    /\ UNCHANGED <<published, joined>>

Leave(c) ==
    /\ c \in joined
    /\ joined' = joined \ {c}
    /\ newest' = [newest EXCEPT ![c] = 0]
    /\ missed' = [missed EXCEPT ![c] = 0]
    /\ UNCHANGED published

Next ==
    \/ Publish
    \/ \E c \in Clients : Join(c) \/ Take(c) \/ Leave(c)

Spec == Init /\ [][Next]_vars
-----------------------------------------------------------------------------
\* Clients hold numbers of blocks and counts of them.
TypeOK ==
    /\ published \in Nat
    /\ joined \subseteq Clients
    /\ newest \in [Clients -> Nat]
    /\ missed \in [Clients -> Nat]

\* Nobody has a block from the future, and nobody is told of more losses than
\* there were blocks up to the one it has; who is not there has nothing.
NothingInvented ==
    \A c \in Clients :
        /\ missed[c] <= newest[c] /\ newest[c] <= published
        /\ c \notin joined => newest[c] = 0

\* A client that stays gets newer blocks only, each the newest there is, and
\* what lies between two of them is what is added to its losses.
NewerAndCounted ==
    [][\A c \in joined \cap joined' :
          newest'[c] # newest[c] =>
              /\ newest'[c] > newest[c] /\ newest'[c] = published
              /\ missed'[c] = missed[c] + (newest'[c] - newest[c] - 1)]_vars
=============================================================================
