--------------------------- MODULE StreamPipeProofs --------------------------
(***************************************************************************)
(* The inductive invariant of StreamPipe, for any number of streams and    *)
(* chunks.  TcpTunnel implements two of them, and gets from it what its    *)
(* own steps do not say.                                                   *)
(***************************************************************************)
EXTENDS StreamPipe, TLAPS

PipeTypeOK ==
    /\ sent \in [Streams -> Nat]
    /\ got \in [Streams -> Seq(Nat)]
    /\ lossy \in [Streams -> BOOLEAN] /\ shuffles \in [Streams -> BOOLEAN]

PipeInv == PipeTypeOK /\ InOrder /\ Once /\ NoGap /\ OnlySent

LEMMA InitPipe == PipeInit => PipeInv
  BY DEF PipeInit, PipeInv, PipeTypeOK, InOrder, Once, NoGap, OnlySent

LEMMA NextPipe == PipeInv /\ [PipeNext]_pipe_vars => PipeInv'
  <1> SUFFICES ASSUME PipeInv, [PipeNext]_pipe_vars PROVE PipeInv'
    OBVIOUS
  <1> USE DEF PipeInv, PipeTypeOK
  <1>1. ASSUME NEW s \in Streams, LossGrows, Send(s) PROVE PipeInv'
    <2>1. PipeTypeOK'
      BY <1>1 DEF LossGrows, Send
    <2>2. InOrder' /\ Once' /\ NoGap'
      BY <1>1 DEF LossGrows, Send, InOrder, Once, NoGap
    <2>3. OnlySent'
      BY <1>1, <2>1 DEF Send, OnlySent
    <2> QED
      BY <2>1, <2>2, <2>3
  <1>2. ASSUME NEW s \in Streams, LossGrows, Deliver(s) PROVE PipeInv'
    <2>1. PICK n \in 1 .. sent[s] :
             /\ \A i \in DOMAIN got[s] : got[s][i] # n
             /\ shuffles'[s] \/ \A i \in DOMAIN got[s] : got[s][i] < n
             /\ lossy'[s] \/ n = Len(got[s]) + 1
             /\ got' = [got EXCEPT ![s] = Append(@, n)]
      BY <1>2 DEF Deliver
    <2>2. n \in Nat /\ n > 0 /\ n <= sent[s] /\ got[s] \in Seq(Nat)
      BY <2>1
    <2>3. PipeTypeOK'
      BY <1>2, <2>1, <2>2 DEF LossGrows, Deliver
    <2>4. /\ got'[s] = Append(got[s], n)
          /\ \A t \in Streams \ {s} : got'[t] = got[t]
          /\ DOMAIN got'[s] = DOMAIN got[s] \union {Len(got[s]) + 1}
          /\ \A i \in DOMAIN got[s] : i <= Len(got[s]) /\ got'[s][i] = got[s][i]
          /\ got'[s][Len(got[s]) + 1] = n
      BY <2>1, <2>2
    <2>5. InOrder'
      BY <1>2, <2>1, <2>2, <2>4 DEF InOrder, LossGrows
    <2>8. Once'
      BY <2>1, <2>2, <2>4 DEF Once
    <2>6. NoGap'
      BY <1>2, <2>1, <2>4 DEF NoGap, LossGrows
    <2>7. OnlySent'
      BY <1>2, <2>2, <2>4 DEF OnlySent, Deliver
    <2> QED
      BY <2>3, <2>5, <2>6, <2>7, <2>8
  <1>3. CASE LossGrows /\ UNCHANGED <<sent, got>>
    BY <1>3 DEF LossGrows, InOrder, Once, NoGap, OnlySent
  <1>4. CASE UNCHANGED pipe_vars
    BY <1>4 DEF pipe_vars, InOrder, Once, NoGap, OnlySent
  <1> QED
    BY <1>1, <1>2, <1>3, <1>4 DEF PipeNext
==============================================================================
