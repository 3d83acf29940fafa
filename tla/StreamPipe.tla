----------------------------- MODULE StreamPipe ------------------------------
(***************************************************************************)
(* What a stream promises in one direction.  README.md:127: "All requests  *)
(* to that public address are forwarded to your local game server".  One   *)
(* end sends the chunks 1, 2, ...; the other end gets some of them, each   *)
(* at most once, in order unless the pipe has become one that shuffles,    *)
(* and all of them up to the last it got unless it has become lossy.  A    *)
(* pipe may stop delivering at any time.                                   *)
(***************************************************************************)
EXTENDS Naturals, Sequences

CONSTANT Streams

VARIABLES
    sent,    \* chunks that the one end has sent, by stream
    got,     \* chunks that the other end has got
    lossy,   \* something on the way may have been lost
    shuffles \* what is on the way may overtake

pipe_vars == <<sent, got, lossy, shuffles>>

PipeInit ==
    /\ sent = [s \in Streams |-> 0]
    /\ got = [s \in Streams |-> <<>>]
    /\ lossy = [s \in Streams |-> FALSE]
    /\ shuffles = [s \in Streams |-> FALSE]

Send(s) ==
    /\ sent' = [sent EXCEPT ![s] = @ + 1]
    /\ UNCHANGED got

\* A chunk that has not been delivered: the next one, a later one if the pipe
\* is lossy by now, an earlier one if it shuffles.
Deliver(s) ==
    /\ \E n \in 1 .. sent[s] :
          /\ \A i \in DOMAIN got[s] : got[s][i] # n
          /\ shuffles'[s] \/ \A i \in DOMAIN got[s] : got[s][i] < n
          /\ lossy'[s] \/ n = Len(got[s]) + 1
          /\ got' = [got EXCEPT ![s] = Append(@, n)]
    /\ UNCHANGED sent

\* A pipe that is lossy, or shuffles, stays so.
LossGrows ==
    /\ lossy' \in [Streams -> BOOLEAN]
    /\ shuffles' \in [Streams -> BOOLEAN]
    /\ \A s \in Streams : /\ lossy[s] => lossy'[s]
                          /\ shuffles[s] => shuffles'[s]

PipeNext ==
    /\ LossGrows
    /\ \/ \E s \in Streams : Send(s) \/ Deliver(s)
       \/ UNCHANGED <<sent, got>>

PipeSpec == PipeInit /\ [][PipeNext]_pipe_vars
------------------------------------------------------------------------------
\* What arrives is in order unless the pipe shuffles.
InOrder ==
    \A s \in Streams : ~ shuffles[s] => \A i, j \in DOMAIN got[s] :
       i < j => got[s][i] < got[s][j]

\* It arrives once.
Once ==
    \A s \in Streams : \A i, j \in DOMAIN got[s] :
       i # j => got[s][i] # got[s][j]

\* A pipe that is not lossy delivers a prefix of what was sent.
NoGap ==
    \A s \in Streams : ~ lossy[s] => \A i \in DOMAIN got[s] : got[s][i] = i

\* Nothing arrives that was not sent.
OnlySent ==
    \A s \in Streams : \A i \in DOMAIN got[s] : got[s][i] \in 1 .. sent[s]
==============================================================================
