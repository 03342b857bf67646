------------------------------ MODULE MCVirtQueue ------------------------------
(***************************************************************************)
(* Instances of VirtQueue.                                                 *)
(***************************************************************************)
EXTENDS VirtQueueRefinement, TLC

CONSTANTS r1, r2, r3, b1, b2, b3, b4

MCBuffers == {b1, b2, b3, b4}

\* For four descriptors: a chain of two with both directions and two of one,
\* which can be exchanged.
LongInputs == (r1 :> <<b1>>) @@ (r2 :> <<>>) @@ (r3 :> <<>>)
LongOutputs == (r1 :> <<b2>>) @@ (r2 :> <<b3>>) @@ (r3 :> <<b4>>)
Exchange == {(r2 :> r3) @@ (r3 :> r2) @@ (b3 :> b4) @@ (b4 :> b3)}

\* Stop after six adds: the three chains have come back in every order and
\* the reordered free list has been handed out again.
MaxAdds == 6
Bounded == avail_idx < MaxAdds

\* For two descriptors: three requests that do not all fit.
MCRequests == {r1, r2, r3}
ShortInputs == (r1 :> <<b1>>) @@ (r2 :> <<>>) @@ (r3 :> <<b4>>)
ShortOutputs == (r1 :> <<b2>>) @@ (r2 :> <<b3>>) @@ (r3 :> <<>>)
=============================================================================
