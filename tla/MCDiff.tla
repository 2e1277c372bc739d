--------------------------------- MODULE MCDiff ---------------------------------
(* An instance of Diff: all pairs of projects with at most two elements.          *)
EXTENDS Diff

I(r, o) == [ref |-> r, start |-> 0, order |-> o]
El(t, n, c, is) == [type |-> t, name |-> n, length |-> 8, category |-> c, items |-> is]

MCElements ==
    {El("Pdu", n, 1, is) : n \in 1..3, is \in {<<I(1, "L")>>, <<I(1, "L"), I(2, "L")>>}}
        \cup {El("Pdu", 1, 1, <<I(2, "L"), I(1, "L")>>), El("Pdu", 2, 1, <<I(1, "M")>>),
              El("Pdu", 2, 2, <<I(1, "L")>>), El("Pdu", 0, 1, <<I(1, "L")>>),
              [El("Pdu", 3, 1, <<I(1, "L"), [I(1, "L") EXCEPT !.start = 4]>>) EXCEPT !.length = 4]}
        \cup {El("Cluster", n, 1, is) : n \in 1..2, is \in {<<I(1, "L"), I(2, "L")>>, <<I(2, "L"), I(1, "L")>>}}

\* Two more names, so that two pairs of one type move at a time, either way round.
MCSwaps ==
    {<<El("Pdu", 4, 1, x), El("Pdu", 5, 1, y)>> :
        x, y \in {<<I(1, "L")>>, <<I(1, "L"), I(2, "L")>>}}

MCProjects == UNION {[1..n -> MCElements] : n \in 0..2} \cup MCSwaps
================================================================================
