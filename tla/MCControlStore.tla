--------------------------- MODULE MCControlStore ---------------------------
(* Bounded instance of ControlStore: two processes; a candidate's transaction *)
(* of evidence, decision and next snapshot, the same transaction with other   *)
(* evidence bytes (an adapter asked again later), one that shares its         *)
(* evidence, one that rests on its records, one that rests on evidence of     *)
(* the future, and two that are not well formed.                              *)
EXTENDS ControlStore

CONSTANTS w1, w2, e1, e2, d1, s2, x1

MCWriters == {w1, w2}
MCNames   == {e1, e2, d1, s2, x1}
MCTxIds   == {"candidate", "shared", "next", "early", "other"}

R(kind, name, body, iter, evidence, decision) ==
  [kind |-> kind, name |-> name, body |-> body, run |-> "run", iter |-> iter,
   evidence |-> evidence, decision |-> decision]

E1       == R("evidence", e1, 1, 1, {}, NoDecision)
E1Later  == R("evidence", e1, 2, 1, {}, NoDecision)
E2       == R("evidence", e2, 1, 2, {}, NoDecision)
D1       == R("decision", d1, 1, 1, {e1}, NoDecision)
S2       == R("snapshot", s2, 1, 2, {e1}, d1)
X1       == R("transition", x1, 1, 1, {e1}, d1)
X1Future == R("transition", x1, 2, 1, {e2}, NoDecision)

T(id, iter, recs) == [id |-> id, run |-> "run", iter |-> iter, recs |-> recs]

MCOffered ==
  {T("candidate", 1, <<E1, D1, S2>>), T("candidate", 1, <<E1Later, D1, S2>>),
   T("shared", 1, <<E1>>), T("next", 2, <<E2>>), T("other", 1, <<X1>>),
   T("early", 1, <<X1Future>>), T("early", 1, <<E1, E1Later>>), T("early", 2, <<X1>>)}
=============================================================================
