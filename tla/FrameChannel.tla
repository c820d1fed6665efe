---------------------------- MODULE FrameChannel ----------------------------
(***************************************************************************)
(* What a Bluetooth session promises to whoever waits for a reply: frames   *)
(* come in the order they were sent, none twice and none that was not      *)
(* sent; and when some are lost, an error comes before any later frame.    *)
(***************************************************************************)
EXTENDS Integers, Sequences, SequencesExt

CONSTANTS
    Lane,       \* independent streams of frames
    Frame,
    LaneOf,     \* the lane each frame travels in
    Error,      \* what a reader gets instead of the frames that were lost
    Size        \* how much a lane holds on the reader's side

VARIABLE pending    \* what each reader will get if nothing else happens

Send(f) == pending' = [pending EXCEPT ![LaneOf[f]] = Append(@, f)]

Take(l) ==
    /\ pending[l] # <<>>
    /\ pending' = [pending EXCEPT ![l] = Tail(@)]

(* Something unreadable arrives: every reader gets an error at once, and    *)
(* then at most the last of what it would have got.                        *)
Break ==
    /\ \A l \in Lane : pending'[l] # <<>> /\ Head(pending'[l]) = Error
    /\ \A l \in Lane : IsSuffix(Tail(pending'[l]), pending[l])

(* The line goes dead: the first part comes, then the error, for which a    *)
(* full lane has no room.                                                  *)
Hangup ==
    \A l \in Lane :
        \/ pending'[l] # <<>> /\ Last(pending'[l]) = Error
             /\ IsPrefix(Front(pending'[l]), pending[l])
        \/ Len(pending'[l]) = Size /\ IsPrefix(pending'[l], pending[l])

Close == pending' = [l \in Lane |-> <<>>]

Init == pending = [l \in Lane |-> <<>>]

Next ==
    \/ \E f \in Frame : Send(f)
    \/ \E l \in Lane : Take(l)
    \/ Break
    \/ Hangup
    \/ Close

Spec == Init /\ [][Next]_pending
=============================================================================
