------------------------------ MODULE MCListTx ------------------------------
(* Small instances of ListTx.  In one behaviour either two named writers     *)
(* compete for a stable version with two candidates, or a reader lists the   *)
(* proposals of two anonymous writers, who may supersede a candidate.        *)
EXTENDS ListTx, TLC

CONSTANTS alice, bob, c1, c2

VARIABLE scenario

V(major, minor, pre) == [major |-> major, minor |-> minor, patch |-> 0, pre |-> pre]

MCFirst == V(1, 0, NoPre)
MCVersions == {MCFirst, V(1, 1, 1), V(1, 1, 2), V(1, 1, NoPre), V(2, 0, NoPre)}

\* The bounds of each scenario: versions, whether there is a reader, and the actors of
\* each request slot.
Bounds ==
  "write" :> [versions |-> MCVersions \ {V(2, 0, NoPre)}, lists |-> {FALSE},
              actors |-> c1 :> {alice, NoActor} @@ c2 :> {bob}]
  @@
  "list" :> [versions |-> MCVersions \ {V(1, 1, 2)}, lists |-> BOOLEAN,
             actors |-> [c \in Conns |-> {NoActor}]]

WithinBounds ==
  /\ \A c \in {d \in Conns : req[d] # NoRequest} :
       /\ req[c].version \in Bounds[scenario].versions
       /\ req[c].actor \in Bounds[scenario].actors[c]
  /\ list.reading \in Bounds[scenario].lists

MCInit == ListInit /\ scenario \in DOMAIN Bounds
MCNext == ListNext /\ UNCHANGED scenario /\ WithinBounds'
MCSpec == MCInit /\ [][MCNext]_<<allVars, scenario>> /\ Fairness
=============================================================================
