---------------------------- MODULE MCAgenticCli ----------------------------
(* A gateway the CLI starts, in both forms, and a second process of an     *)
(* operator on the same home and database.                                 *)
EXTENDS AgenticCli, TLC

CONSTANTS g1, p2

Defaults == [role |-> "gateway", marked |-> FALSE, skip |-> FALSE, integrated |-> FALSE, oidc |-> FALSE,
             writable |-> TRUE]
MCReplicas == {g1, p2}
MCSettings == (g1 :> {[Defaults EXCEPT !.integrated = TRUE, !.oidc = TRUE],
                     [Defaults EXCEPT !.skip = TRUE, !.writable = FALSE]})
              @@ (p2 :> {Defaults,
                         [Defaults EXCEPT !.role = "backend", !.marked = TRUE, !.skip = TRUE],
                         [Defaults EXCEPT !.role = "validate"]})
=============================================================================
