--------------------------------- MODULE Lists ---------------------------------
(* What the modules need of lists beyond the community modules.            *)
EXTENDS Naturals, Sequences

(* The elements of a list that are in a set, in their order: filter().     *)
Only(list, S) ==
    LET kept[k \in 0..Len(list)] ==
            IF k = 0 THEN << >>
            ELSE IF list[k] \in S THEN Append(kept[k - 1], list[k])
            ELSE kept[k - 1]
    IN kept[Len(list)]
=============================================================================
