----------------------------- MODULE MCQueuePair -----------------------------
(***************************************************************************)
(* Instances of QueuePair.                                                 *)
(***************************************************************************)
EXTENDS QueuePair, VirtQueueRefinement, TLC

CONSTANTS r1, r2, r3, r4, b1, b2, b3, b4, b5, b6

MCRequests == {r1, r2, r3, r4}
MCBuffers == {b1, b2, b3, b4, b5, b6}

\* A chain of two and one of one that the device reads, one that it writes, and
\* one in both directions.
MixedInputs == (r1 :> <<b1, b2>>) @@ (r2 :> <<>>) @@ (r3 :> <<b4>>)
                 @@ (r4 :> <<b6>>)
MixedOutputs == (r1 :> <<>>) @@ (r2 :> <<b3>>) @@ (r3 :> <<b5>>)
                  @@ (r4 :> <<>>)

\* Two chains of one, for the notifications.
TwoRequests == {r2, r3}
TwoInputs == (r2 :> <<b3>>) @@ (r3 :> <<b4>>)
TwoOutputs == (r2 :> <<>>) @@ (r3 :> <<>>)

Poll == {"poll"}
BothCalls == {"poll", "wait_pop_add_notify"}
=============================================================================
