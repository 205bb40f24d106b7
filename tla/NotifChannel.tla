---------------------------- MODULE NotifChannel ---------------------------
(***************************************************************************)
(* What the notification inter-logger promises of the messages of a        *)
(* registration: they are settled one after another in the order in which  *)
(* they were written, delivered or given up, none is passed over, and what *)
(* is recorded as settled is what has been settled, so that after a        *)
(* restart it goes on with the first message that has not been.            *)
(*                                                                         *)
(* written[c]  messages written to channel c                               *)
(* settled[c]  the last of them that is settled                            *)
(* record[c]   the number of messages recorded as settled                  *)
(***************************************************************************)
EXTENDS Integers

CONSTANT Channels
VARIABLES written, settled, record

Init == /\ written = [c \in Channels |-> 0]
        /\ settled = [c \in Channels |-> 0]
        /\ record = [c \in Channels |-> 0]

Write(c) == /\ written' = [written EXCEPT ![c] = @ + 1]
            /\ UNCHANGED <<settled, record>>

\* The messages given up when the queue is looked through are settled
\* together, those of several channels too.
Settle(n) == /\ \A c \in Channels : n[c] >= 0 /\ settled[c] + n[c] <= written[c]
             /\ settled' = [c \in Channels |-> settled[c] + n[c]]
             /\ record' = [c \in Channels |-> record[c] + n[c]]
             /\ UNCHANGED written

Next == \/ \E c \in Channels : Write(c)
        \/ Settle([c \in Channels |-> settled'[c] - settled[c]])

Spec == Init /\ [][Next]_<<written, settled, record>>
=============================================================================
