-------------------------------- MODULE Lists --------------------------------
(***************************************************************************)
(* What a loop that walks a list and deletes entries leaves of it.         *)
(***************************************************************************)
EXTENDS Integers, Sequences

\* The elements of s that are in S, in their order: SelectSeq, written as the
\* loop it stands for.
Keeping(s, S) ==
    LET kept[n \in 0 .. Len(s)] ==
          IF n = 0 THEN <<>>
          ELSE IF s[n] \in S THEN Append(kept[n - 1], s[n]) ELSE kept[n - 1]
    IN  kept[Len(s)]
==============================================================================
