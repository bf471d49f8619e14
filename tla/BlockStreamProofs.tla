-------------------------- MODULE BlockStreamProofs -------------------------
(***************************************************************************)
(* What every behaviour of BlockStream has, and with it every server that  *)
(* was shown to implement it.                                              *)
(***************************************************************************)
EXTENDS BlockStream, TLAPS

\* NothingInvented is inductive, given the types.
Inv == TypeOK /\ NothingInvented

\* The stream begins so, and every step keeps it.
LEMMA InitInv == Init => Inv
BY DEF Init, Inv, TypeOK, NothingInvented

LEMMA StepInv == Inv /\ [Next]_vars => Inv'
<1> SUFFICES ASSUME Inv, [Next]_vars PROVE Inv'
  OBVIOUS
<1>0. /\ published \in Nat /\ joined \subseteq Clients
      /\ newest \in [Clients -> Nat] /\ missed \in [Clients -> Nat]
      /\ \A c \in Clients : /\ missed[c] <= newest[c] /\ newest[c] <= published
                            /\ c \notin joined => newest[c] = 0
  BY DEF Inv, TypeOK, NothingInvented
<1>1. CASE Publish
  BY <1>0, <1>1 DEF Publish, Inv, TypeOK, NothingInvented
<1>2. ASSUME NEW c \in Clients, Join(c) PROVE Inv'
  <2>1. missed[c] <= published
    BY <1>0
  <2> QED
    BY <1>0, <1>2, <2>1 DEF Join, Inv, TypeOK, NothingInvented
<1>3. ASSUME NEW c \in Clients, Take(c) PROVE Inv'
  <2> DEFINE m == missed[c] + (published - newest[c] - 1)
  <2>1. m \in Nat /\ m <= published
    BY <1>0, <1>3 DEF Take
  <2>2. newest' = [newest EXCEPT ![c] = published] /\ missed' = [missed EXCEPT ![c] = m]
        /\ UNCHANGED <<published, joined>> /\ c \in joined
    BY <1>3 DEF Take
  <2> HIDE DEF m
  <2> QED
    BY <1>0, <2>1, <2>2 DEF Inv, TypeOK, NothingInvented
<1>4. ASSUME NEW c \in Clients, Leave(c) PROVE Inv'
  BY <1>0, <1>4 DEF Leave, Inv, TypeOK, NothingInvented
<1>5. CASE UNCHANGED vars
  BY <1>0, <1>5 DEF vars, Inv, TypeOK, NothingInvented
<1> QED
  BY <1>1, <1>2, <1>3, <1>4, <1>5 DEF Next

\* A client has no block from the future, and no more losses than blocks.
THEOREM NoInventions == Spec => []NothingInvented
<1>1. Inv => NothingInvented
  BY DEF Inv
<1> QED
  BY InitInv, StepInv, <1>1, PTL DEF Spec

\* A client that stays gets newer blocks only, with a true count of those it
\* did not get.
THEOREM Promise == Spec => NewerAndCounted
<1> DEFINE A == \A c \in joined \cap joined' :
                   newest'[c] # newest[c] =>
                      /\ newest'[c] > newest[c] /\ newest'[c] = published
                      /\ missed'[c] = missed[c] + (newest'[c] - newest[c] - 1)
<1>1. ASSUME Inv, [Next]_vars PROVE [A]_vars
  <2>0. newest \in [Clients -> Nat] /\ missed \in [Clients -> Nat] /\ published \in Nat
    BY <1>1 DEF Inv, TypeOK
  <2>1. CASE Publish \/ UNCHANGED vars
    BY <2>1 DEF Publish, vars
  <2>2. ASSUME NEW d \in Clients, Join(d) PROVE A
    BY <2>0, <2>2 DEF Join
  <2>3. ASSUME NEW d \in Clients, Take(d) PROVE A
    BY <2>0, <2>3 DEF Take
  <2>4. ASSUME NEW d \in Clients, Leave(d) PROVE A
    BY <2>0, <2>4 DEF Leave
  <2> QED
    BY <1>1, <2>1, <2>2, <2>3, <2>4 DEF Next
<1> QED
  BY InitInv, StepInv, <1>1, PTL DEF Spec, NewerAndCounted
=============================================================================
