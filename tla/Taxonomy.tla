------------------------------ MODULE Taxonomy ------------------------------
(***************************************************************************)
(* The classification of grounded results in external taxonomies           *)
(* (crates/taxonomy/src): a registry of mappers keyed by taxonomy, and the *)
(* two tables that ship with it.                                           *)
(***************************************************************************)
EXTENDS Sequences, FiniteSets, SequencesExt

(* ScweMapper::map_family and SwcMapper::map_family: a family without a row
   has no entry. *)
ScweTable ==
    [Reentrancy |-> "SCWE-046", OracleManipulation |-> "SCWE-028",
     UnauthorizedUpgrade |-> "SCWE-005", UncheckedExternalCall |-> "SCWE-048",
     DelegatecallStorageCollision |-> "SCWE-150", UnsafeSelfdestruct |-> "SCWE-050",
     DelegatecallReachableSelfdestruct |-> "SCWE-038",
     SpoofedTransferEvent |-> "SCWE-063"]
SwcTable ==
    [Reentrancy |-> "SWC-107", UncheckedExternalCall |-> "SWC-104",
     DelegatecallStorageCollision |-> "SWC-112", UnsafeSelfdestruct |-> "SWC-106",
     DelegatecallReachableSelfdestruct |-> "SWC-106"]

EntriesIn(table, family) ==
    IF family \in DOMAIN table THEN <<table[family]>> ELSE <<>>

(* TaxonomyRegistry::register: a mapper replaces the one of its taxonomy. *)
Registered(registry, mapper) ==
    [name \in DOMAIN registry \union {mapper.taxonomy} |->
        IF name = mapper.taxonomy THEN mapper.table ELSE registry[name]]

(* with_default_mappers. *)
DefaultRegistry ==
    Registered(Registered([n \in {} |-> <<>>], [taxonomy |-> "SCWE", table |-> ScweTable]),
               [taxonomy |-> "SWC", table |-> SwcTable])

(* taxonomies(): the names in lexicographic order. *)
TaxonomyOrder == <<"SCWE", "SWC">>
Taxonomies(registry) == SelectSeq(TaxonomyOrder, LAMBDA n : n \in DOMAIN registry)

(* MappingEngine::map: the taxonomies with entries and those without. *)
MapResult(registry, family, status) ==
    LET entries(name) == EntriesIn(registry[name], family)
        mapped == SelectSeq(Taxonomies(registry), LAMBDA n : entries(n) # <<>>)
    IN  [family |-> family, status |-> status,
         mappings |-> [i \in DOMAIN mapped |->
                        [taxonomy |-> mapped[i], entries |-> entries(mapped[i])]],
         unmapped |-> SelectSeq(Taxonomies(registry), LAMBDA n : entries(n) = <<>>)]

(* MappingEngine::map_all. *)
MapAll(registry, family, statuses) ==
    [i \in DOMAIN statuses |-> MapResult(registry, family, statuses[i])]
=============================================================================
