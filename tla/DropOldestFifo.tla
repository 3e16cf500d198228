--------------------------- MODULE DropOldestFifo ---------------------------
(***************************************************************************)
(* What a push queue promises its producers, whatever its limits, its      *)
(* retries and its wake-up mechanism: records leave in the order they came *)
(* in, one batch at a time; a batch that was not delivered comes back in   *)
(* front of what arrived meanwhile; and room is only ever made by          *)
(* forgetting the oldest records.                                          *)
(***************************************************************************)
EXTENDS Naturals, Sequences

CONSTANT Record

VARIABLES queued,   \* the records waiting, oldest first
          flight    \* the batch being delivered

\* s without some number of its oldest elements.
IsSuffixOf(t, s) == \E k \in 0..Len(s) : t = SubSeq(s, k + 1, Len(s))

Init == queued = <<>> /\ flight = <<>>

Accept == \E r \in Record : /\ IsSuffixOf(queued', Append(queued, r))
                            /\ UNCHANGED flight

Take == /\ flight = <<>>
        /\ \E k \in 1..Len(queued) :
             /\ flight' = SubSeq(queued, 1, k)
             /\ queued' = SubSeq(queued, k + 1, Len(queued))

GiveBack == /\ flight # <<>>
            /\ IsSuffixOf(queued', flight \o queued)
            /\ flight' = <<>>

Settle == flight # <<>> /\ flight' = <<>> /\ UNCHANGED queued

Next == Accept \/ Take \/ GiveBack \/ Settle

Spec == Init /\ [][Next]_<<queued, flight>>
=============================================================================
