----------------------------- MODULE MCPeakStore -----------------------------
(* Bounded instance of PeakStore: two processes; a first Peak, two rivals for *)
(* its place, of which one also succeeds the other, a successor of either of  *)
(* them, one of equal score, one from an earlier iteration, and one whose     *)
(* links do not verify.  A checkpoint has one iteration and one score, as its *)
(* bundle does; only its predecessor may differ from call to call.            *)
EXTENDS PeakStore

CONSTANTS w1, w2, c0, c1, c2, c3, c4, c5

P(c, p, i, s) == [ckpt |-> c, prev |-> p, iter |-> i, score |-> s]

MCWriters     == {w1, w2}
MCCheckpoints == {c0, c1, c2, c3, c4, c5}

Good == {P(c0, NoCheckpoint, 1, 4), P(c1, c0, 2, 6), P(c2, c0, 2, 7), P(c2, c1, 2, 7),
         P(c3, c1, 3, 8), P(c3, c2, 3, 8), P(c4, c1, 2, 6), P(c5, c1, 1, 9)}

MCUpdates == Good \cup {P(c3, c0, 3, 9)}

\* Callers expect the predecessor they name; one does not.
MCCalls == {[update |-> u, expected |-> u.prev] : u \in MCUpdates}
             \cup {[update |-> P(c1, c0, 2, 6), expected |-> c2]}
=============================================================================
