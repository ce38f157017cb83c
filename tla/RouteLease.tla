------------------------------ MODULE RouteLease ------------------------------
(***************************************************************************)
(* What a cell may assume of its egress route: once it is served by a      *)
(* whole route, that route stays whole until the cell has ended or its     *)
(* launcher has let go of it.  How the route is brought up, rolled back,   *)
(* torn down or swept is nobody's business here; EgressRoute implements    *)
(* this one docker command at a time.                                      *)
(***************************************************************************)
CONSTANT Sessions

VARIABLES
  route,  \* the sessions whose route is whole
  cell    \* per session: no cell, one that is served, or one let go of

vars == << route, cell >>

Init == route = {} /\ cell = [s \in Sessions |-> "none"]

\* The route of a session without a served cell comes and goes.
Change(s) ==
  /\ cell[s] # "served"
  /\ route' \in {route \cup {s}, route \ {s}}
  /\ UNCHANGED cell

Serve(s) ==
  /\ cell[s] = "none" /\ s \in route
  /\ cell' = [cell EXCEPT ![s] = "served"]
  /\ UNCHANGED route

End(s) ==
  /\ cell[s] # "none"
  /\ cell' = [cell EXCEPT ![s] = "none"]
  /\ UNCHANGED route

LetGo(s) ==
  /\ cell[s] = "served"
  /\ cell' = [cell EXCEPT ![s] = "stray"]
  /\ UNCHANGED route

Next == \E s \in Sessions : Change(s) \/ Serve(s) \/ End(s) \/ LetGo(s)

Spec == Init /\ [][Next]_vars

=============================================================================
