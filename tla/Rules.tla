-------------------------------- MODULE Rules --------------------------------
(***************************************************************************)
(* Which part subtypes a contract may connect: src/routers/_rules.py.      *)
(***************************************************************************)
BindingOwnerSubtypes == {"container", "pod"}

\* CONNECTION_RULES: <<connection_type, owner subtype, counterparty subtype>>.
ConnectionRules ==
  { <<"builds-from",  "software", "image">>,
    <<"instantiates", "image", "container">>,
    <<"instantiates", "image", "pod">>,
    <<"runs", "container", "software">>,
    <<"runs", "pod", "software">>,
    <<"composes", "compose", "container">>,
    <<"composes", "deployment", "pod">>,
    <<"composes", "statefulset", "pod">>,
    <<"composes", "job", "pod">>,
    <<"composes", "pod", "container">>,
    <<"depends-on", "container", "container">>,
    <<"submodule", "software", "software">>,
    <<"serves-static", "software", "software">>,
    <<"selects", "service", "deployment">>,
    <<"selects", "service", "statefulset">>,
    <<"routes-to", "ingress", "service">> }
  \union ({"composes"} \X {"chart"} \X {"deployment", "statefulset", "job", "service",
                                        "ingress", "secret", "configmap"})
  \union ({"consumed-by"} \X {"secret", "configmap"}
                          \X {"deployment", "statefulset", "job"})

PartSubtypes ==
  {"software", "container", "image", "pod", "compose", "deployment", "statefulset",
   "service", "ingress", "secret", "configmap", "job", "chart"}

\* A contract's (subtype, connection_type); the type is "none" unless the
\* subtype is "connection", as the routers and a CHECK constraint require.
NoType == "none"

ContractShape ==
  ({"interaction", "binding"} \X {NoType})
  \union ({"connection"} \X {r[1] : r \in ConnectionRules})

\* The source/target rule.  The code tests each subtype against the owners and
\* the counterparties of the label first, for the message, and then the pair;
\* the pair decides.
Admits(shape, ownerSubtype, cpSubtype) ==
  \/ shape[1] = "interaction"
  \/ /\ shape[1] = "binding"
     /\ ownerSubtype \in BindingOwnerSubtypes
     /\ cpSubtype = "software"
  \/ /\ shape[1] = "connection"
     /\ <<shape[2], ownerSubtype, cpSubtype>> \in ConnectionRules
=============================================================================
