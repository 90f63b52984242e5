---------------------------- MODULE TargetScope -----------------------------
(***************************************************************************)
(* Which functions of a model a run is about (runners.rs of core,          *)
(* apply_function_scope_filter and apply_target_function_filter): those of *)
(* a scope and some packages, or the one a target names, which is looked   *)
(* for in the whole model where the scope has none.                        *)
(*                                                                         *)
(* A request: scope, packages (a set, {} for no filter), and target, a     *)
(* pair of how it names a function and a number.                           *)
(***************************************************************************)
EXTENDS CoreRecovery

CONSTANTS
  UriKind,   \* library |-> "app", "framework", "stdlib" or "unknown"
  Package    \* library |-> the package it names, or Nothing

NoTarget == <<"none", 0>>

\* owner_library_uri, owner_name.
Uri(model, f) ==
  LET id == OwnerLibrary(model, f)
  IN  IF id = None THEN Nothing ELSE (CHOOSE l \in LibraryOf(model, id) : TRUE).name

OwnerName(model, f) ==
  IF ClassOf(model, f.owner) = {} THEN Nothing ELSE (CHOOSE c \in ClassOf(model, f.owner) : TRUE).name

Kind(model, f) == IF Uri(model, f) = Nothing THEN "unknown" ELSE UriKind[Uri(model, f)]

InScope(scope, kind) ==
  \/ scope = "all"
  \/ kind = "app"
  \/ scope = "app-unknown" /\ kind = "unknown"

OfPackages(model, packages, f) ==
  packages = {} \/ (Kind(model, f) = "app" /\ Package[Uri(model, f)] \in packages)

Scoped(model, request) ==
  {i \in DOMAIN model.functions :
     LET f == model.functions[i]
     IN  InScope(request.scope, Kind(model, f)) /\ OfPackages(model, request.packages, f)}

Matches(f, target) ==
  \/ target[1] \in {"id", "any"} /\ f.id = target[2]
  \/ target[1] \in {"va", "any"} /\ f.start = target[2]

TargetHits(model, positions, target) == {i \in positions : Matches(model.functions[i], target)}

\* The functions the run is about.
Selected(model, request) ==
  LET hits == TargetHits(model, Scoped(model, request), request.target)
  IN  IF request.target = NoTarget THEN Scoped(model, request)
      ELSE IF hits # {} THEN hits
      ELSE TargetHits(model, DOMAIN model.functions, request.target)

\* A number that may be an id or an address must name one; and a run is about something.
SelectionRefused(model, request) ==
  \/ Selected(model, request) = {}
  \/ request.target[1] = "any" /\ Cardinality(Selected(model, request)) > 1
=============================================================================
