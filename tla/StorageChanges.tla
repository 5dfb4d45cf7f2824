---------------------------- MODULE StorageChanges ----------------------------
(***************************************************************************)
(* The finder of storage changes (context/browser/storage_vars.rs): which  *)
(* state variables a piece of code changes, directly or through a storage  *)
(* pointer, as far as the AST of that piece alone can tell.                *)
(***************************************************************************)
EXTENDS Naturals, Sequences, Functions

CONSTANTS
  StateVariables,
  Pointers,       \* local variables and parameters with location storage
  Elsewhere       \* the base of an expression that is neither (i64::MIN too)

Bases == StateVariables \cup Pointers \cup {Elsewhere}

(* A statement, as the finder sees it, is about the base variables of the  *)
(* expressions on its sides. A change is delete, ++, --, push or pop; an   *)
(* assignment and a declaration have their sides' bases in order, and an   *)
(* assignment says which places on its left have the type of a pointer.    *)
StatementType ==
  [sort : {"change", "assignment", "declaration"}, left : Seq(Bases),
   leftIsPointer : Seq(BOOLEAN), right : Seq(Bases)]

ChangedBases(st) ==
  CASE st.sort = "change" -> Range(st.left)
    [] st.sort = "assignment" -> {st.left[i] : i \in {j \in DOMAIN st.left : ~st.leftIsPointer[j]}}
    [] OTHER -> {}

(* Sides of different lengths are not linked: no telling which is which.   *)
LinksOf(st) ==
  IF st.sort = "change" \/ Len(st.left) # Len(st.right) THEN {}
  ELSE {<<st.right[i], st.left[i]>> : i \in DOMAIN st.left}
       \cap (StateVariables \X Pointers)

ChangesType ==
  [direct : SUBSET StateVariables, pointers : SUBSET Pointers,
   links : SUBSET (StateVariables \X Pointers)]

(* ApproximateStorageChangeFinder::from, over the statements of a node,    *)
(* and the sum of two finders.                                             *)
ChangesIn(statements) ==
  LET changed == UNION {ChangedBases(st) : st \in statements}
  IN  [direct |-> changed \cap StateVariables, pointers |-> changed \cap Pointers,
       links |-> UNION {LinksOf(st) : st \in statements}]
AddChanges(a, b) ==
  [direct |-> a.direct \cup b.direct, pointers |-> a.pointers \cup b.pointers,
   links |-> a.links \cup b.links]

HaveBeenManipulated(changes) == changes.direct # {} \/ changes.pointers # {}
LinkedTo(changes, var) == {ptr \in changes.pointers : <<var, ptr>> \in changes.links}

(* fetch_non_exhaustive_manipulated_state_variables                        *)
Manipulated(changes) ==
  changes.direct \cup {var \in StateVariables : LinkedTo(changes, var) # {}}

(* The three answers of state_variable_has_(not_)been_manipulated          *)
VerdictOnNames(changes, var) ==  \* Mutant: pointers are not looked at
  IF var \in changes.direct THEN "manipulated" ELSE "not manipulated"
Verdict(changes, var) ==
  IF var \in changes.direct THEN "manipulated"
  ELSE IF changes.pointers = {} THEN "not manipulated"
  ELSE IF LinkedTo(changes, var) # {} THEN "manipulated"
  ELSE "unknown"
===============================================================================
