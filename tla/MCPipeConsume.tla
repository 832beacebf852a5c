---------------------------- MODULE MCPipeConsume ---------------------------
(* Two databases; the first holds document 1 and not document 2, the second
   holds both.  Values name them, some twice, some with a revision, and one
   value will not do. *)
EXTENDS PipeConsume

MCHeld == (1 :> (0 :> 0 @@ 1 :> 1 @@ 2 :> 0)) @@ (2 :> (0 :> 0 @@ 1 :> 1 @@ 2 :> 1))

V(db, id, rev) == [db |-> db, id |-> id, rev |-> rev]
MCValues == {V(1, 1, 0), V(1, 1, 1), V(1, 2, 0), V(2, 1, 0), Bad}
MCInputs == UNION {[1..n -> MCValues] : n \in 1..4}
=============================================================================
