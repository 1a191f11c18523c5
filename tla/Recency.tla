------------------------------- MODULE Recency -------------------------------
(***************************************************************************)
(* Two structures that the code keeps: keys in the order in which they     *)
(* were used last (OrderedDict), and times of which those that are too old *)
(* leave from the front (deque).                                           *)
(***************************************************************************)
EXTENDS Naturals, Sequences, SequencesExt

\* The order after the key was used: it is the newest.
MovedToEnd(order, key) ==
    IF Contains(order, key)
    THEN Append(RemoveAt(order, CHOOSE i \in DOMAIN order : order[i] = key), key)
    ELSE Append(order, key)

\* The position of the first time that is less than `span` before `moment`.
FirstSince(times, moment, span) ==
    CHOOSE i \in 1 .. Len(times) + 1 :
        /\ \A j \in 1 .. i - 1 : times[j] + span <= moment
        /\ i <= Len(times) => times[i] + span > moment

\* What is left when the times before that one left from the front.
Since(times, moment, span) == SubSeq(times, FirstSince(times, moment, span), Len(times))
=============================================================================
