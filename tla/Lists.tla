--------------------------------- MODULE Lists ---------------------------------
(* A selection of a list by a set, not by a test as SelectSeq makes it: it can *)
(* be proved about.                                                            *)
EXTENDS Integers, Sequences, Functions

\* Whatever is listed.
IsList(s) == s \in Seq(Range(s))

\* The members of a list that are wanted, in their order.
Only(s, wanted) ==
    LET only[i \in 0 .. Len(s)] ==
            IF i = 0 THEN <<>>
            ELSE IF s[i] \in wanted THEN Append(only[i - 1], s[i])
            ELSE only[i - 1]
    IN  only[Len(s)]
=============================================================================
