----------------------------- MODULE FrameQueue -----------------------------
(* What a descriptor ring promises: a bounded queue of frames between the    *)
(* MAC and the thread, from which frames come in the order they were put in. *)
EXTENDS Naturals, Sequences

CONSTANTS Frames, Capacity

VARIABLE queue

Init == queue = <<>>

Put(f) == Len(queue) < Capacity /\ queue' = Append(queue, f)

Get == queue # <<>> /\ queue' = Tail(queue)

Next == Get \/ \E f \in Frames : Put(f)

Spec == Init /\ [][Next]_queue
=============================================================================
