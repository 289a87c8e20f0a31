--------------------------- MODULE MCEventStream ---------------------------
(* EventStream with an envelope as the dispatcher marshals it, on one line *)
(* (c), one with newlines both in its type, which end it, and in its data  *)
(* (r), and bytes that are no envelope and whose later lines end the       *)
(* event, begin another and give that one a type (m).                      *)
EXTENDS EventStream

CONSTANTS c, r, m, w1, w2, w3

TypeOf ==
    [p \in Envelope |->
        IF p = c THEN OneLine("comment")
                 ELSE [head |-> "reaction", tail |-> <<Blank>>]]

DataOf ==
    [p \in Payload |->
        CASE p = c -> OneLine(w1)
          [] p = r -> [head |-> w2, tail |-> <<Field("data", w2)>>]
          [] p = m -> [head |-> w3,
                       tail |-> <<Blank, Field("data", w2), Field("event", "comment")>>]]

\* What the browser makes of the lines of each alone, which ReadingAssumption
\* compares with its run through them.
ReadingOf ==
    [p \in Payload |->
        LET q == Lines(Split(p))
            event[j \in 0..Len(q)] ==
                IF j = 0 THEN NoEvent ELSE After(event[j - 1], q[j])
            count[j \in 0..Len(q)] ==
                IF j = 0 THEN 0
                ELSE count[j - 1] + (IF Completes(event[j - 1], q[j]) THEN 1 ELSE 0)
        IN  [event  |-> event,
             count  |-> count,
             events |->
                 CASE p = c -> <<[type |-> "comment", data |-> <<w1>>]>>
                   [] p = r -> <<[type |-> "message", data |-> <<w2, w2>>]>>
                   [] p = m -> <<[type |-> "message", data |-> <<w3>>],
                                 [type |-> "comment", data |-> <<w2>>]>>]]
=============================================================================
