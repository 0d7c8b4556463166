---------------------------- MODULE PeakRegister ----------------------------
(***************************************************************************)
(* What the historical Peak promises, whoever updates it and however: a    *)
(* register that is empty until a first checkpoint is installed without a  *)
(* predecessor, and that afterwards only moves to a checkpoint that names  *)
(* the current one as its predecessor, has a strictly higher score and     *)
(* does not come from an earlier iteration (docs/lineage-runtime.md,       *)
(* section 3).                                                             *)
(***************************************************************************)
EXTENDS Integers

CONSTANTS Checkpoints,   \* identifiers a pointer may name
          NoCheckpoint   \* what an empty register names

VARIABLE peak   \* [ckpt, prev, iter, score]; ckpt = NoCheckpoint when empty

Empty == [ckpt |-> NoCheckpoint, prev |-> NoCheckpoint, iter |-> 0, score |-> 0]

Init == peak = Empty

Install(new) ==
  /\ peak = Empty
  /\ new.ckpt \in Checkpoints
  /\ new.prev = NoCheckpoint
  /\ peak' = new

Advance(new) ==
  /\ peak.ckpt \in Checkpoints
  /\ new.ckpt \in Checkpoints
  /\ new.prev = peak.ckpt
  /\ new.score > peak.score
  /\ new.iter >= peak.iter
  /\ peak' = new

Next == Install(peak') \/ Advance(peak')

Spec == Init /\ [][Next]_peak

=============================================================================
