-------------------------------- MODULE Ontology --------------------------------
(***************************************************************************)
(* What the ontology claims (models.py, types.py): its rows, the           *)
(* references by which they name code and tests, the environments in which *)
(* they expect them, and what the model accepts of a YAML source           *)
(* (build.py).  Descriptions, entities, modules and other parts that no    *)
(* tool reads are left out.                                                *)
(***************************************************************************)
EXTENDS Integers, Sequences, FiniteSets

CONSTANTS Paths,      \* files of the repository
          Symbols,    \* names that a file may define
          Tags        \* pairs <<name, value>> of EnvironmentSpec.flags

RequirementStatus == {"spec", "tested", "implemented", "deviation", "n_a"}
PerfDirection     == {"max", "min", "equal"}
VerdictKind       == {"green", "yellow", "amber", "red"}
MomentSpace       == {"raw", "log"}

(* EnvironmentSpec without its fix_recipe: the natural key. *)
IsEnvironment(env) ==
  /\ DOMAIN env = {"kind", "kernel", "distro", "arch", "flags"}
  /\ env.flags \subseteq Tags

(* A reference as it is written, path and symbol split where the first     *)
(* separator is; "" is an absent part.                                     *)
Ref      == [path : Paths \cup {""}, sep : {"", ":", "::"}, symbol : Symbols \cup {""}]
IsBlank(ref) == ref.path = "" /\ ref.sep = ""

(* parse_ref: a separator needs something on both sides. *)
ParsesRef(ref) ==
  /\ ~IsBlank(ref)
  /\ ref.sep # "" => ref.path # "" /\ ref.symbol # ""

(* DomainConstraint and DiagnosticSignal. *)
IsRow(row) ==
  /\ row.status \in RequirementStatus
  /\ row.has_rationale \in BOOLEAN
  /\ row.implementation \subseteq Ref /\ row.verification \subseteq Ref
  /\ \A env \in row.environments : IsEnvironment(env)

IsPerfRow(row) == IsRow(row) /\ row.direction \in PerfDirection /\ row.budget \in Int

(* VerdictNode: its kind is its name, for the audit. *)
IsVerdict(row) == IsRow(row) /\ row.name \in VerdictKind

IsRepresentation(rep) == rep.space \in MomentSpace /\ rep.order >= 1

(* No two rows have the same natural key. *)
NoDuplicates(keys) == \A i, j \in DOMAIN keys : keys[i] = keys[j] => i = j

(* What pydantic accepts as an Ontology, _reject_duplicate_iomoments_rows  *)
(* included: one node per verdict, one representation per space and order. *)
ModelValidate(raw) ==
  /\ \A i \in DOMAIN raw.domain  : IsRow(raw.domain[i])
  /\ \A i \in DOMAIN raw.perf    : IsPerfRow(raw.perf[i])
  /\ \A i \in DOMAIN raw.signal  : IsRow(raw.signal[i])
  /\ \A i \in DOMAIN raw.verdict : IsVerdict(raw.verdict[i])
  /\ \A i \in DOMAIN raw.representations : IsRepresentation(raw.representations[i])
  /\ NoDuplicates([i \in DOMAIN raw.verdict |-> raw.verdict[i].name])
  /\ NoDuplicates([i \in DOMAIN raw.representations |->
                     <<raw.representations[i].space, raw.representations[i].order>>])

EmptyOntology ==
  [domain |-> << >>, perf |-> << >>, signal |-> << >>, verdict |-> << >>,
   representations |-> << >>]

(* _load_yaml_source: what is empty to Python is an empty mapping; what is *)
(* no mapping, or no YAML, raises an exception.                            *)
OntologyOf(yaml) == IF yaml.root = "mapping" THEN yaml.data ELSE EmptyOntology

(* build_ontology_from_yaml. *)
BuildsFromYaml(yaml) == yaml.root # "other" /\ ModelValidate(OntologyOf(yaml))

-------------------------------------------------------------------------------
(* env_matches: what is empty in the expected environment matches anything.*)
EnvMatches(actual, expected) ==
  /\ \A field \in {"kind", "kernel", "distro", "arch"} :
       expected[field] \in {"", actual[field]}
  /\ expected.flags \subseteq actual.flags
===============================================================================
