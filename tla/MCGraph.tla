------------------------------- MODULE MCGraph -------------------------------
(* Small instances of Graph.  What clients do in one behaviour is one of six  *)
(* scenarios: the proposal families they file, and as many rows, slugs,       *)
(* actors and requests as the stale proposals and the unlocked reads of those *)
(* families need to get in each other's way.  Rows are numbered, and used in  *)
(* that order.                                                                *)
EXTENDS Graph, Naturals, TLC

VARIABLE scenario

Interaction == <<"interaction", NoType>>
Runs == <<"connection", "runs">>
MCShapes == {Interaction, Runs}

\* The bounds of each scenario: rows of each table, distinct slugs, subtypes, shapes,
\* actors, the values of ?single_operator, the proposal families filed, the subtypes
\* of the parts that are registered before anything else (<<>>: any, at any time),
\* whether the contracts are registered before a proposal is filed, and how many
\* requests are under way at a time, alone or beside everything else.
Bounds ==
  "ends" :> [parts |-> 3, contracts |-> 2, proposals |-> 2, names |-> 3,
             subtypes |-> {"software"}, shapes |-> {Interaction},
             actors |-> {}, overrides |-> {FALSE},
             kinds |-> {"contract_endpoint"},
             start |-> <<"software", "software", "software">>,
             settled |-> TRUE, requests |-> 1, overlap |-> FALSE]
  @@
  "shapes" :> [parts |-> 2, contracts |-> 2, proposals |-> 2, names |-> 2,
               subtypes |-> {"container", "software"}, shapes |-> MCShapes,
               actors |-> {}, overrides |-> {FALSE},
               kinds |-> {"contract_subtype", "contract_endpoint"},
               start |-> <<"container", "software">>,
               settled |-> FALSE, requests |-> 2, overlap |-> TRUE]
  @@
  "rules" :> [parts |-> 2, contracts |-> 2, proposals |-> 2, names |-> 2,
              subtypes |-> {"container", "software"}, shapes |-> MCShapes,
              actors |-> {}, overrides |-> {FALSE},
              kinds |-> {"part_subtype", "contract_subtype", "contract_endpoint"},
              start |-> <<"container", "software">>,
              settled |-> FALSE, requests |-> 1, overlap |-> TRUE]
  @@
  "names" :> [parts |-> 3, contracts |-> 0, proposals |-> 2, names |-> 2,
              subtypes |-> {"software"}, shapes |-> {},
              actors |-> Actors \ Agents, overrides |-> {FALSE},
              kinds |-> {"part_name", "part_deletion"}, start |-> <<>>,
              settled |-> FALSE, requests |-> 1, overlap |-> FALSE]
  @@
  "deletions" :> [parts |-> 2, contracts |-> 2, proposals |-> 2, names |-> 2,
                  subtypes |-> {"software"}, shapes |-> {Interaction},
                  actors |-> Actors \ Agents, overrides |-> BOOLEAN,
                  kinds |-> {"part_deletion", "contract_deletion"},
                  start |-> <<"software", "software">>,
                  settled |-> FALSE, requests |-> 2, overlap |-> TRUE]
  @@
  "cascades" :> [parts |-> 3, contracts |-> 1, proposals |-> 2, names |-> 3,
                 subtypes |-> {"software"}, shapes |-> {Interaction},
                 actors |-> Actors, overrides |-> {FALSE},
                 kinds |-> {"part_deletion", "contract_endpoint"},
                 start |-> <<"software", "software", "software">>,
                 settled |-> TRUE, requests |-> 2, overlap |-> TRUE]

UsedParts == {p \in PartIds : parts[p].state # "absent"}
UsedContracts == {c \in ContractIds : contracts[c].state # "absent"}
Filed == {q \in ProposalIds : proposals[q].status # "none"}
Busy == {s \in Sessions : ~Idle(s)}
Renames == {q \in Filed : proposals[q].kind = "part_name"}
UsedNames == {parts[p].name : p \in UsedParts} \union {proposals[q].change : q \in Renames}

InOrder(used) == used = 1..Cardinality(used)

WithinBounds ==
  LET b == Bounds[scenario] IN
    /\ b.settled /\ Filed # {} => /\ \A s \in Busy : task[s].op # "register"
                                /\ Cardinality(UsedContracts) = b.contracts
    /\ \A q \in Filed : /\ proposals[q].kind \in b.kinds
                        /\ proposals[q].override \in b.overrides
                        /\ {proposals[q].proposer, proposals[q].acceptor} \subseteq
                             b.actors \union {NoActor}
    /\ Cardinality(Filed) <= b.proposals /\ InOrder(Filed)
    /\ \A s \in Busy : /\ task[s].shape \in b.shapes \union {Nothing}
                        /\ task[s].actor \in b.actors \union {NoActor}
                        /\ task[s].op \in ShiftOps => task[s].flag \in b.overrides
    /\ Cardinality(Busy) <= b.requests
    /\ \A p \in UsedParts : parts[p].subtype \in b.subtypes
    /\ Cardinality(UsedParts) <= b.parts /\ InOrder(UsedParts)
    /\ Cardinality(UsedContracts) <= b.contracts /\ InOrder(UsedContracts)
    /\ Cardinality(UsedNames) <= b.names
    /\ \A p \in UsedParts \intersect DOMAIN b.start : parts[p].name = p
    /\ IF UsedContracts \union Filed \union Busy = {}
         THEN \A p \in UsedParts \intersect DOMAIN b.start : parts[p].subtype = b.start[p]
         ELSE DOMAIN b.start \subseteq UsedParts

\* Where requests do not overlap, one that is under way is alone.
Alone == ~Bounds[scenario].overlap /\ Busy # {}

MCInit == Init /\ scenario \in DOMAIN Bounds
MCNext ==
  /\ IF Alone THEN \E s \in Busy : Proceed(s) ELSE Next
  /\ UNCHANGED scenario
  /\ WithinBounds'
MCSpec == MCInit /\ [][MCNext]_<<vars, scenario>>

Symmetry == Permutations(Sessions)
=============================================================================
