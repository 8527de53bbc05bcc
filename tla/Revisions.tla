------------------------------ MODULE Revisions ------------------------------
(***************************************************************************)
(* src/alembic/versions: the 25 revisions, each as the statements of its   *)
(* upgrade() and of its downgrade(), in their order.  Of a created table   *)
(* only the objects that a later statement names, or refers through, are   *)
(* kept; the bodies of the seeded templates are not modelled.              *)
(***************************************************************************)
EXTENDS Schema

\* The names of the checks whose lists the revisions replace.  A ck_... name
\* given to create_table is prefixed a second time (and, when too long, cut and
\* hashed); the short name given to create_check_constraint is prefixed once.
PartCheck == "ck_parts_subtype_allowed"
ContractCheck == "ck_contracts_subtype_allowed"
TypeCheck == "ck_contracts_connection_type_allowed"
KindCheck == "ck_templates_kind_allowed"
KindCheckTwice == "ck_templates_ck_templates_kind_allowed"
WantedPartCheck == "ck_part_subtype_proposals_new_subtype_allowed"
WantedPartCheckTwice == "ck_part_subtype_proposals_ck_part_subtype_propos_<hex4>"
WantedTypeCheck == "ck_contract_subtype_proposals_connection_type_allowed"
WantedTypeCheckTwice == "ck_contract_subtype_proposals_ck_contract_subtype_propo_<hex4>"

PairKey == "uq_contracts_owner_part_id_counterparty_part_id"
PairKeyOfSoftware == "uq_contracts_owner_software_id_counterparty_software_id"
ShapeKey == "uq_contracts_subtype_pair"
Pair == {"owner", "counterparty"}
Shape == Pair \union {"subtype", "connection_type"}

ContractKinds == {"interaction", "binding", "connection"}

RecheckParts(subtypes) == Recheck("parts", PartCheck, "subtype", subtypes)
RecheckWantedParts(subtypes) ==
  Recheck("part_subtype_proposals", WantedPartCheck, "new_subtype", subtypes)
RecheckTypes(types) == Recheck("contracts", TypeCheck, "connection_type", types)
RecheckWantedTypes(types) ==
  Recheck("contract_subtype_proposals", WantedTypeCheck, "new_connection_type", types)
RecheckKinds(kinds) == Recheck("templates", KindCheck, "kind", kinds)

\* 0008, 0009 and 0010 add one part subtype each, with its template.
AddPartSubtype(before, new) ==
  RecheckParts(before \union {new})
  \o RecheckKinds(before \union {new} \union ContractKinds) \o << Seed({new}) >>
DropPartSubtype(before, new) ==
  << Unseed({new}) >> \o RecheckKinds(before \union ContractKinds) \o RecheckParts(before)

\* The columns and the table of a proposal-driven change (0016, 0018, 0019).
ProposalTable(t, parent, index) ==
  << CreateTable(t, {Object(t, parent, Refers(IF parent = "part_id" THEN "parts" ELSE "contracts"))}),
     AddColumns(t, {index}) >>
DropProposalTable(t, index) == << Drop(t, {index}), DropTable(t) >>

DeletionColumns ==
  {"deleted_at", "deleted_by_proposer_actor", "deleted_by_acceptor_actor",
   "deletion_rationale", "deletion_single_operator_override"}

-----------------------------------------------------------------------------
Up0001 ==
  << CreateTable("software",
       {Object("software", "pk_software", Plain),
        Object("software", "uq_software_name", Unique({"name"}, "all", "constraint"))}),
     CreateTable("software_versions",
       {Object("software_versions", "pk_software_versions", Plain),
        Object("software_versions", "software_id", Refers("software")),
        Object("software_versions", "fk_software_versions_software_id_software", Plain),
        Object("software_versions", "uq_software_versions_version", Plain)}),
     AddColumns("software_versions", {"ix_software_versions_software_id_version"}),
     CreateTable("contracts",
       {Object("contracts", "owner_software_id", Refers("software")),
        Object("contracts", "counterparty_software_id", Refers("software")),
        Object("contracts", "fk_contracts_owner_software_id_software", Plain),
        Object("contracts", "fk_contracts_counterparty_software_id_software", Plain),
        Object("contracts", PairKeyOfSoftware, Unique(Pair, "all", "constraint"))}),
     CreateTable("contract_versions",
       {Object("contract_versions", "contract_id", Refers("contracts"))}) >>
Down0001 ==
  << DropTable("contract_versions"), DropTable("contracts"),
     DropTable("software_versions"), DropTable("software") >>

Up0002 ==
  << CreateTable("templates",
       {Object("templates", "uq_templates_kind", Unique({"kind"}, "all", "constraint")),
        Object("templates", KindCheckTwice, Allows("kind", {"software", "contract"}))}),
     CreateTable("template_versions",
       {Object("template_versions", "template_id", Refers("templates"))}),
     Seed({"software", "contract"}) >>
Down0002 == << DropTable("template_versions"), DropTable("templates") >>

Up0003 == << AddColumns("software", {"issue_tracker_uri"}) >>
Down0003 == << Drop("software", {"issue_tracker_uri"}) >>

Up0004 == << AddColumns("software", {"aliases"}) >>
Down0004 == << Drop("software", {"aliases"}) >>

Up0005 ==
  << RenameTable("software", "parts"),
     RenameTable("software_versions", "part_versions"),
     Rename("parts", "pk_software", "pk_parts"),
     Rename("parts", "uq_software_name", "uq_parts_name"),
     Rename("part_versions", "pk_software_versions", "pk_part_versions"),
     Rename("part_versions", "software_id", "part_id"),
     Rename("part_versions", "fk_software_versions_software_id_software",
            "fk_part_versions_part_id_parts"),
     Rename("part_versions", "uq_software_versions_version", "uq_part_versions_version"),
     Rename("part_versions", "ix_software_versions_software_id_version",
            "ix_part_versions_part_id_version"),
     Rename("contracts", "owner_software_id", "owner_part_id"),
     Rename("contracts", "counterparty_software_id", "counterparty_part_id"),
     Rename("contracts", "fk_contracts_owner_software_id_software",
            "fk_contracts_owner_part_id_parts"),
     Rename("contracts", "fk_contracts_counterparty_software_id_software",
            "fk_contracts_counterparty_part_id_parts"),
     Rename("contracts", PairKeyOfSoftware, PairKey),
     AddColumns("parts", {"subtype"}), Fill("parts", "subtype", "software"),
     Add("parts", PartCheck, Allows("subtype", {"software", "container"})),
     Drop("templates", {KindCheckTwice}),
     Add("templates", KindCheck, Allows("kind", {"software", "contract", "container"})),
     Seed({"container"}) >>
Down0005 ==
  << Unseed({"container"}),
     Drop("templates", {KindCheck}),
     Add("templates", KindCheckTwice, Allows("kind", {"software", "contract"})),
     Drop("parts", {PartCheck}), Drop("parts", {"subtype"}),
     Rename("contracts", PairKey, PairKeyOfSoftware),
     Rename("contracts", "fk_contracts_counterparty_part_id_parts",
            "fk_contracts_counterparty_software_id_software"),
     Rename("contracts", "fk_contracts_owner_part_id_parts",
            "fk_contracts_owner_software_id_software"),
     Rename("contracts", "counterparty_part_id", "counterparty_software_id"),
     Rename("contracts", "owner_part_id", "owner_software_id"),
     Rename("part_versions", "ix_part_versions_part_id_version",
            "ix_software_versions_software_id_version"),
     Rename("part_versions", "uq_part_versions_version", "uq_software_versions_version"),
     Rename("part_versions", "fk_part_versions_part_id_parts",
            "fk_software_versions_software_id_software"),
     Rename("part_versions", "part_id", "software_id"),
     Rename("part_versions", "pk_part_versions", "pk_software_versions"),
     Rename("parts", "uq_parts_name", "uq_software_name"),
     Rename("parts", "pk_parts", "pk_software"),
     RenameTable("part_versions", "software_versions"),
     RenameTable("parts", "software") >>

Up0006 ==
  << AddColumns("contracts", {"subtype"}), Fill("contracts", "subtype", "interaction"),
     Add("contracts", ContractCheck, Allows("subtype", {"interaction", "binding"})),
     Drop("templates", {KindCheck}),
     Relabel("templates", "kind", "contract", "interaction"),
     Add("templates", KindCheck,
         Allows("kind", {"software", "container", "interaction", "binding"})),
     Seed({"binding"}) >>
Down0006 ==
  << Unseed({"binding"}),
     Drop("templates", {KindCheck}),
     Relabel("templates", "kind", "interaction", "contract"),
     Add("templates", KindCheck, Allows("kind", {"software", "contract", "container"})),
     Drop("contracts", {ContractCheck}), Drop("contracts", {"subtype"}) >>

FirstTypes ==
  {"builds-from", "instantiates", "runs", "member-of", "depends-on", "submodule"}

Up0007 ==
  Recheck("contracts", ContractCheck, "subtype", ContractKinds)
  \o << AddColumns("contracts", {"connection_type"}),
        AddColumns("contracts", {"ck_contracts_connection_type_required"}),
        Add("contracts", TypeCheck, Allows("connection_type", FirstTypes)) >>
  \o RecheckKinds({"software", "container"} \union ContractKinds)
  \o << Seed({"connection"}) >>
Down0007 ==
  << Unseed({"connection"}) >>
  \o RecheckKinds({"software", "container", "interaction", "binding"})
  \o << Drop("contracts", {TypeCheck}),
        Drop("contracts", {"ck_contracts_connection_type_required"}),
        Drop("contracts", {"connection_type"}) >>
  \o Recheck("contracts", ContractCheck, "subtype", {"interaction", "binding"})

Up0008 == AddPartSubtype({"software", "container"}, "image")
Down0008 == DropPartSubtype({"software", "container"}, "image")
Up0009 == AddPartSubtype({"software", "container", "image"}, "pod")
Down0009 == DropPartSubtype({"software", "container", "image"}, "pod")
Up0010 == AddPartSubtype({"software", "container", "image", "pod"}, "compose")
Down0010 == DropPartSubtype({"software", "container", "image", "pod"}, "compose")

Up0011 ==
  << AddColumns("parts", {"subtype_shifted_from", "subtype_shifted_at"}),
     AddColumns("contracts", {"subtype_shifted_from", "connection_type_shifted_from",
                              "subtype_shifted_at"}),
     CreateTable("part_subtype_proposals",
       {Object("part_subtype_proposals", "part_id", Refers("parts")),
        Object("part_subtype_proposals", WantedPartCheckTwice,
          Allows("new_subtype", {"software", "container", "image", "pod", "compose"}))}),
     AddColumns("part_subtype_proposals", {"ix_part_subtype_proposals_part_id_status"}),
     CreateTable("contract_subtype_proposals",
       {Object("contract_subtype_proposals", "contract_id", Refers("contracts")),
        Object("contract_subtype_proposals", WantedTypeCheckTwice,
          Allows("new_connection_type", FirstTypes))}),
     AddColumns("contract_subtype_proposals",
       {"ix_contract_subtype_proposals_contract_id_status"}) >>
Down0011 ==
  DropProposalTable("contract_subtype_proposals",
    "ix_contract_subtype_proposals_contract_id_status")
  \o DropProposalTable("part_subtype_proposals", "ix_part_subtype_proposals_part_id_status")
  \o << Drop("contracts", {"subtype_shifted_at", "connection_type_shifted_from",
                           "subtype_shifted_from"}),
        Drop("parts", {"subtype_shifted_at", "subtype_shifted_from"}) >>

Attribution == {"proposer_actor", "acceptor_actor", "single_operator_override"}

Up0012 ==
  << AddColumns("contract_versions", Attribution), AddColumns("template_versions", Attribution),
     AddColumns("part_subtype_proposals", {"single_operator_override"}),
     AddColumns("contract_subtype_proposals", {"single_operator_override"}) >>
Down0012 ==
  << Drop("contract_subtype_proposals", {"single_operator_override"}),
     Drop("part_subtype_proposals", {"single_operator_override"}),
     Drop("template_versions", Attribution), Drop("contract_versions", Attribution) >>

Up0013 ==
  << AddColumns("parts", {"created_by_actor"}), AddColumns("contracts", {"created_by_actor"}) >>
Down0013 ==
  << Drop("contracts", {"created_by_actor"}), Drop("parts", {"created_by_actor"}) >>

Up0014 ==
  << DropUnique("contracts", PairKey),
     Add("contracts", ShapeKey, Unique(Shape, "all", "index")) >>
Down0014 ==
  << Guard("contracts", Pair),
     DropIndex("contracts", ShapeKey),
     Add("contracts", PairKey, Unique(Pair, "all", "constraint")) >>

Up0015 ==
  << CreateTable("projects",
       {Object("projects", "created_by_actor", Plain),
        Object("projects", "uq_projects_name", Plain)}),
     Add("parts", "project_id", Refers("projects")),
     AddColumns("parts", {"ix_parts_project_id"}),
     Add("contracts", "project_id", Refers("projects")),
     AddColumns("contracts", {"ix_contracts_project_id"}) >>
Down0015 ==
  << Drop("contracts", {"ix_contracts_project_id"}), Drop("contracts", {"project_id"}),
     Drop("parts", {"ix_parts_project_id"}), Drop("parts", {"project_id"}),
     DropTable("projects") >>

Up0016 ==
  << AddColumns("parts", {"name_shifted_from", "name_shifted_at"}),
     AddColumns("contracts", {"endpoint_shifted_from_owner",
                              "endpoint_shifted_from_counterparty", "endpoint_shifted_at"}) >>
  \o ProposalTable("part_name_proposals", "part_id", "ix_part_name_proposals_part_id_status")
  \o ProposalTable("contract_endpoint_proposals", "contract_id",
                   "ix_contract_endpoint_proposals_contract_id_status")
Down0016 ==
  DropProposalTable("contract_endpoint_proposals",
                    "ix_contract_endpoint_proposals_contract_id_status")
  \o DropProposalTable("part_name_proposals", "ix_part_name_proposals_part_id_status")
  \o << Drop("contracts", {"endpoint_shifted_at", "endpoint_shifted_from_counterparty",
                           "endpoint_shifted_from_owner"}),
        Drop("parts", {"name_shifted_at", "name_shifted_from"}) >>

\* Mutant: the doubled name that 0011 left is not looked up.
Up0017ByName ==
  RecheckTypes(FirstTypes \union {"serves-static"})
  \o RecheckWantedTypes(FirstTypes \union {"serves-static"})

Up0017 ==
  RecheckTypes(FirstTypes \union {"serves-static"})
  \o << DropCheckOn("contract_subtype_proposals", "new_connection_type",
                    {"builds-from", "submodule"}),
        Add("contract_subtype_proposals", WantedTypeCheck,
            Allows("new_connection_type", FirstTypes \union {"serves-static"})) >>
\* Mutant: the downgrade drops the name 0011 created, not the one 0017 left.
Down0017Twice ==
  << Drop("contract_subtype_proposals", {WantedTypeCheckTwice}),
     Add("contract_subtype_proposals", WantedTypeCheck,
         Allows("new_connection_type", FirstTypes)) >> \o RecheckTypes(FirstTypes)
Down0017 == RecheckWantedTypes(FirstTypes) \o RecheckTypes(FirstTypes)

Up0018 ==
  << AddColumns("contracts", DeletionColumns),
     AddColumns("contracts", {"ix_contracts_live"}),
     DropIndex("contracts", ShapeKey),
     Add("contracts", ShapeKey, Unique(Shape, "live", "index")) >>
  \o ProposalTable("contract_deletion_proposals", "contract_id",
                   "ix_contract_deletion_proposals_contract_id_status")
Down0018 ==
  DropProposalTable("contract_deletion_proposals",
                    "ix_contract_deletion_proposals_contract_id_status")
  \o << DropIndex("contracts", ShapeKey),
        Add("contracts", ShapeKey, Unique(Shape, "all", "index")),
        Drop("contracts", {"ix_contracts_live"}),
        Drop("contracts", DeletionColumns) >>

Up0019 ==
  << AddColumns("parts", DeletionColumns),
     AddColumns("parts", {"ix_parts_live"}),
     DropUnique("parts", "uq_parts_name"),
     Add("parts", "uq_parts_name", Unique({"name"}, "live", "index")) >>
  \o ProposalTable("part_deletion_proposals", "part_id",
                   "ix_part_deletion_proposals_part_id_status")
Down0019 ==
  DropProposalTable("part_deletion_proposals", "ix_part_deletion_proposals_part_id_status")
  \o << DropIndex("parts", "uq_parts_name"),
        Add("parts", "uq_parts_name", Unique({"name"}, "all", "constraint")),
        Drop("parts", {"ix_parts_live"}),
        Drop("parts", DeletionColumns) >>

Up0020 ==
  << CreateTable("agent_actors", {}),
     AddColumns("agent_actors", {"uq_agent_actors_actor_live"}),
     AddColumns("agent_actors", {"ix_agent_actors_live"}) >>
Down0020 ==
  << Drop("agent_actors", {"ix_agent_actors_live"}),
     Drop("agent_actors", {"uq_agent_actors_actor_live"}), DropTable("agent_actors") >>

Up0021 ==
  << CreateTable("auth_tokens", {}),
     AddColumns("auth_tokens", {"uq_auth_tokens_hash_live"}),
     AddColumns("auth_tokens", {"ix_auth_tokens_actor_live"}) >>
Down0021 ==
  << Drop("auth_tokens", {"ix_auth_tokens_actor_live"}),
     Drop("auth_tokens", {"uq_auth_tokens_hash_live"}), DropTable("auth_tokens") >>

FirstSubtypes == {"software", "container", "image", "pod", "compose"}
KubernetesSubtypes ==
  {"deployment", "statefulset", "service", "ingress", "secret", "configmap", "job"}

Up0022 ==
  RecheckParts(FirstSubtypes \union KubernetesSubtypes)
  \o << DropCheckOn("part_subtype_proposals", "new_subtype", {"software", "compose"}),
        Add("part_subtype_proposals", WantedPartCheck,
            Allows("new_subtype", FirstSubtypes \union KubernetesSubtypes)) >>
  \o RecheckKinds(FirstSubtypes \union ContractKinds \union KubernetesSubtypes)
  \o << Seed(KubernetesSubtypes) >>
Down0022 ==
  << Unseed(KubernetesSubtypes) >>
  \o RecheckKinds(FirstSubtypes \union ContractKinds)
  \o RecheckWantedParts(FirstSubtypes)
  \o RecheckParts(FirstSubtypes)

TypesOf0017 == FirstTypes \union {"serves-static"}
TypesOf0023 == TypesOf0017 \union {"selects", "routes-to", "consumed-by"}

Up0023 == RecheckTypes(TypesOf0023) \o RecheckWantedTypes(TypesOf0023)
\* Mutant: the contracts keep the wider list.
Down0023Half == RecheckWantedTypes(TypesOf0017)
Down0023 == RecheckWantedTypes(TypesOf0017) \o RecheckTypes(TypesOf0017)

OldSubtypes == FirstSubtypes \union KubernetesSubtypes
WidenedTypes == TypesOf0023 \union {"composes"}
NewTypes == WidenedTypes \ {"member-of"}

\* Mutant: the proposals' list is forgotten.
Up0024Half ==
  RecheckParts(OldSubtypes \union {"chart"})
  \o RecheckTypes(WidenedTypes) \o RecheckWantedTypes(WidenedTypes)
  \o << Turn("member-of", "composes"),
        Relabel("contract_subtype_proposals", "new_connection_type", "member-of", "composes") >>
  \o RecheckTypes(NewTypes) \o RecheckWantedTypes(NewTypes)
  \o RecheckKinds(OldSubtypes \union ContractKinds \union {"chart"})
  \o << Seed({"chart"}) >>
Up0024 ==
  RecheckParts(OldSubtypes \union {"chart"})
  \o RecheckWantedParts(OldSubtypes \union {"chart"})
  \o RecheckTypes(WidenedTypes) \o RecheckWantedTypes(WidenedTypes)
  \o << Turn("member-of", "composes"),
        Relabel("contract_subtype_proposals", "new_connection_type", "member-of", "composes") >>
  \o RecheckTypes(NewTypes) \o RecheckWantedTypes(NewTypes)
  \o RecheckKinds(OldSubtypes \union ContractKinds \union {"chart"})
  \o << Seed({"chart"}) >>
Down0024 ==
  << Unseed({"chart"}) >>
  \o RecheckKinds(OldSubtypes \union ContractKinds)
  \o RecheckTypes(WidenedTypes) \o RecheckWantedTypes(WidenedTypes)
  \o << Turn("composes", "member-of"),
        Relabel("contract_subtype_proposals", "new_connection_type", "composes", "member-of") >>
  \o RecheckTypes(TypesOf0023) \o RecheckWantedTypes(TypesOf0023)
  \o RecheckWantedParts(OldSubtypes)
  \o RecheckParts(OldSubtypes)

Up0025 ==
  << Rename("parts", "created_by_actor", "owner_actor"),
     Rename("contracts", "created_by_actor", "owner_actor"),
     Rename("projects", "created_by_actor", "owner_actor") >>
Down0025 ==
  << Rename("projects", "owner_actor", "created_by_actor"),
     Rename("contracts", "owner_actor", "created_by_actor"),
     Rename("parts", "owner_actor", "created_by_actor") >>

Upgrades ==
  << Up0001, Up0002, Up0003, Up0004, Up0005, Up0006, Up0007, Up0008, Up0009, Up0010,
     Up0011, Up0012, Up0013, Up0014, Up0015, Up0016, Up0017, Up0018, Up0019, Up0020,
     Up0021, Up0022, Up0023, Up0024, Up0025 >>
Downgrades ==
  << Down0001, Down0002, Down0003, Down0004, Down0005, Down0006, Down0007, Down0008, Down0009,
     Down0010, Down0011, Down0012, Down0013, Down0014, Down0015, Down0016, Down0017, Down0018,
     Down0019, Down0020, Down0021, Down0022, Down0023, Down0024, Down0025 >>
=============================================================================
