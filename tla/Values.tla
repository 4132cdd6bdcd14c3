------------------------------- MODULE Values -------------------------------
\* What the modules of the window share.
EXTENDS Naturals, Sequences

CONSTANT None   \* Rust's Option::None

\* The elements of q that are in S, in their order: iter().filter and Vec::retain.
\* (SelectSeq, as a function over the lengths that proofs can reason about.)
KeepOnly(q, S) ==
    LET kept[n \in 0 .. Len(q)] ==
            IF n = 0 THEN <<>>
            ELSE IF q[n] \in S THEN Append(kept[n - 1], q[n]) ELSE kept[n - 1]
    IN  kept[Len(q)]
=============================================================================
