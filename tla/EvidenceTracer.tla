---------------------------- MODULE EvidenceTracer ----------------------------
(***************************************************************************)
(* The vacuity rule of bench validate-suite (harness/bench/commands/       *)
(* validate_suite.py): for every check that a task's scenarios record, the *)
(* value it is given is traced back through the source to what it was      *)
(* computed from, and a task none of whose checks rests on the vendor's    *)
(* evidence fails the lint.                                                *)
(*                                                                         *)
(* A scenario is written statement after statement.  Beside what the       *)
(* tracer keeps of the source, value holds what each local really depends  *)
(* on once the statements so far have run.  An expression keeps its shape: *)
(* a source, a name, a call of a helper of the file or of an imported one, *)
(* a tuple, the reading of a file, a comprehension, or any other node.     *)
(***************************************************************************)
EXTENDS Naturals, SequencesExt, FiniteSetsExt, TLC

CONSTANTS
  Sources,      \* of "vendor", "fixture", "output" and "app"
  Locals,       \* names that run() assigns
  Helpers,      \* [name -> [params, locals, returns]], the functions of the file
  Imports,      \* [name -> what it reads], the functions of other files
  Quiet,        \* those of them whose name begins with an underscore
  Language,     \* kinds of statements and expressions that the author uses
  MaxDepth,     \* _MAX_EVIDENCE_DEPTH
  MaxStatements \* bound on the statements explored

ASSUME TracerAssumption ==
  /\ Sources \subseteq {"vendor", "fixture", "output", "app"}
  /\ Quiet \subseteq DOMAIN Imports
  /\ \A f \in DOMAIN Imports : Imports[f] \subseteq Sources
  /\ Language \subseteq {"branch", "append", "sum", "check"}
  /\ MaxDepth \in Nat /\ MaxStatements \in Nat

VARIABLES
  assigns,    \* [names -> set of [expr, index]], as the tracer collects them
  value,      \* the locals assigned so far, with what each depends on
  checks,     \* what was recorded: the method, the expression, what it depends on
  statements

vars == <<assigns, value, checks, statements>>

-------------------------------------------------------------------------------
Const == [op |-> "const", name |-> "", args |-> <<>>]
Source(s) == [op |-> "source", name |-> s, args |-> <<>>]
Name(n) == [op |-> "name", name |-> n, args |-> <<>>]
Node(args) == [op |-> "node", name |-> "", args |-> args]
Read(e) == [op |-> "read", name |-> "", args |-> <<e>>]
Tuple(args) == [op |-> "tuple", name |-> "", args |-> args]
Call(f, args) == [op |-> "call", name |-> f, args |-> args]
Imported(f, args) == [op |-> "import", name |-> f, args |-> args]
Sum(term, over) == [op |-> "sum", name |-> "", args |-> <<term, over>>]

\* The names an assignment somewhere in the file can be found under.
Names == Locals \union UNION {DOMAIN Helpers[f].locals : f \in DOMAIN Helpers}

Whole == 0   \* the value itself, not a position of a tuple

-------------------------------------------------------------------------------
(***************************************************************************)
(* The tracer: kinds and _call.                                            *)
(***************************************************************************)
Unknown == {"unknown"}

\* The children kinds descends into: those that are expressions themselves,
\* which the generator of a comprehension is not.
Visited(e) == IF e.op = "sum" THEN {e.args[1]} ELSE {e.args[i] : i \in DOMAIN e.args}

\* The label of the node itself.
Label(e) ==
  CASE e.op = "source" -> {e.name}
    [] e.op = "read" -> {"fileread"}
    [] e.op = "import" /\ e.name \notin Quiet -> Unknown
    [] OTHER -> {}

\* Seeded error: what lies beyond the cap counts as nothing.
Beyond_Silent == {}

\* The answer beyond the depth cap and in a recursion.
Beyond == Unknown

\* Seeded error: only the first assignment of a name is kept.
Bindings_First(n) == IF n \notin Names \/ assigns[n] = {} THEN {} ELSE {CHOOSE a \in assigns[n] : TRUE}

Bindings(n) == IF n \in Names THEN assigns[n] ELSE {}

\* Seeded error: the position in a tuple is not followed.
Projected_Lost(e, index) == {}

\* The expression that stands at a position of a literal tuple, if it is one.
Projected(e, index) == IF e.op = "tuple" /\ index # Whole THEN {e.args[index]} ELSE {}

RECURSIVE Kinds(_, _, _, _, _), NameKinds(_, _, _, _)
Kinds(e, env, depth, seen, index) ==
  LET Into(children, dep, sn) == UNION {Kinds(c, env, dep, sn, Whole) : c \in children}
      f == Helpers[e.name]
      given == [i \in DOMAIN e.args |-> Kinds(e.args[i], env, depth, seen, Whole)]
      bound == [p \in {f.params[i] : i \in DOMAIN e.args} |->
                  UNION {given[i] : i \in {j \in DOMAIN e.args : f.params[j] = p}}]
  IN  IF depth > MaxDepth THEN Beyond
      ELSE IF Projected(e, index) # {} THEN Into(Projected(e, index), depth, seen)
      ELSE CASE e.op = "name" -> NameKinds(e.name, env, depth, seen)
             [] e.op = "call" ->
                  UNION {given[i] : i \in DOMAIN given}
                  \union IF depth + 1 > MaxDepth \/ e.name \in seen THEN Beyond
                         ELSE UNION {Kinds(r, bound, depth + 2, seen \union {e.name}, index) :
                                       r \in f.returns}
             [] OTHER -> Label(e) \union Into(Visited(e), depth, seen)

\* A parameter is what the caller gave, any other name what is assigned to it
\* anywhere in the file.
NameKinds(n, env, depth, seen) ==
  IF n \in DOMAIN env THEN env[n]
  ELSE IF n \in seen THEN {}
  ELSE IF Bindings(n) = {} THEN Unknown
  ELSE UNION {Kinds(a.expr, env, depth + 1, seen \union {n}, a.index) : a \in Bindings(n)}

\* classify_check_evidence.
Verdict(e) ==
  LET kinds == Kinds(e, <<>>, 0, {}, Whole)
  IN  CASE {"vendor", "unknown"} \intersect kinds # {} -> "substantive"
        [] {"vendor", "unknown"} \intersect kinds = {} /\ "fixture" \in kinds -> "fixture_blob"
        [] {"vendor", "unknown", "fixture"} \intersect kinds = {} ->
             IF kinds \subseteq {"app", "output"} THEN "trivial" ELSE "substantive"

\* The checks the profile is made of: check() is not among CHECK_METHODS.
Counted == {c \in checks : c.method = "legacy"}

\* EvidenceProfile.is_vacuous.
Vacuous ==
  /\ \A c \in Counted : Verdict(c.ok) # "substantive"
  /\ \E c \in Counted : Verdict(c.ok) = "fixture_blob"

-------------------------------------------------------------------------------
(***************************************************************************)
(* What an expression depends on.  A helper that calls itself is followed  *)
(* as far as fuel goes, which is further than new sources can appear.  Its *)
(* locals may mention each other, one deep.                                *)
(***************************************************************************)
Indirect == "indirect"   \* reached through a loop, a branch or a generator
Hushed == "hushed"       \* the vendor's evidence, reached by a quiet import alone

\* What a check depends on that calls a function of another file.
Reads(f) == IF f \in Quiet /\ "vendor" \in Imports[f] THEN {Hushed} ELSE Imports[f]

RECURSIVE DependsOn(_, _, _, _)
DependsOn(e, env, index, fuel) ==
  LET All(args) == UNION {DependsOn(args[i], env, Whole, fuel) : i \in DOMAIN args}
  IN  CASE e.op = "source" -> {e.name}
        [] e.op = "name" -> env[e.name]
        [] e.op = "tuple" /\ index # Whole -> DependsOn(e.args[index], env, Whole, fuel)
        [] e.op = "import" -> Reads(e.name) \union All(e.args)
        [] e.op = "sum" -> {Indirect} \union All(e.args)
        [] e.op = "call" ->
             IF fuel = 0 THEN {}
             ELSE LET f == Helpers[e.name]
                      inner == [p \in DOMAIN f.locals \union {f.params[i] : i \in DOMAIN f.params} |->
                                  UNION {DependsOn(e.args[i], env, Whole, fuel) :
                                           i \in {j \in DOMAIN e.args : f.params[j] = p}}]
                      Assigned(scope) ==
                        [n \in DOMAIN f.locals |-> DependsOn(f.locals[n], scope, Whole, fuel - 1)]
                      own == IF Cardinality(DOMAIN f.locals) < 2 THEN Assigned(inner)
                             ELSE Assigned(Assigned(inner) @@ inner)
                  IN  UNION {DependsOn(r, own @@ inner, index, fuel - 1) : r \in f.returns}
        [] OTHER -> All(e.args)

Fuel == 3

\* Seeded error: what the tracer finds is taken for the truth.
Needs_Traced(e, index) == Kinds(e, <<>>, 0, {}, index)

Needs(e, index) == DependsOn(e, value, index, Fuel)

-------------------------------------------------------------------------------
(***************************************************************************)
(* The author's statements.                                                *)
(***************************************************************************)
Atoms == {Source(s) : s \in Sources} \union {Name(n) : n \in DOMAIN value}

Arguments(f) == [1..Len(Helpers[f].params) -> Atoms]

\* Helpers that return a value and its description, and the others.
Pairs == {f \in DOMAIN Helpers : \A r \in Helpers[f].returns : r.op = "tuple"}

Calls(fs) == UNION {{Call(f, args) : args \in Arguments(f)} : f \in fs}

Expressions ==
  UNION { Atoms, Calls(DOMAIN Helpers \ Pairs), {Const}, {Read(a) : a \in Atoms},
          {Node(SetToSeq(s)) : s \in kSubset(2, Atoms)},
          {Imported(f, <<a>>) : f \in DOMAIN Imports, a \in Atoms},
          IF "sum" \in Language THEN {Sum(Const, a) : a \in Atoms} ELSE {} }

Init ==
  /\ assigns = [n \in Names |->
       {[expr |-> Helpers[f].locals[n], index |-> Whole] :
          f \in {g \in DOMAIN Helpers : n \in DOMAIN Helpers[g].locals}}]
  /\ value = <<>>
  /\ checks = {}
  /\ statements = 0

Binding(n, e, index) ==
  assigns' = [assigns EXCEPT ![n] = @ \union {[expr |-> e, index |-> index]}]

\* n = e
Assign(n, e) ==
  /\ Binding(n, e, Whole)
  /\ value' = (n :> Needs(e, Whole)) @@ value
  /\ UNCHANGED checks

\* n, m = e
Unpack(n, m, e) ==
  /\ assigns' = [assigns EXCEPT ![n] = @ \union {[expr |-> e, index |-> 1]},
                                ![m] = @ \union {[expr |-> e, index |-> 2]}]
  /\ value' = (n :> Needs(e, 1)) @@ (m :> Needs(e, 2)) @@ value
  /\ UNCHANGED checks

\* for x in e: if ...: n = False
Branch(n, e) ==
  /\ "branch" \in Language /\ n \in DOMAIN value
  /\ Binding(n, Const, Whole)
  /\ value' = [value EXCEPT ![n] = @ \union {Indirect} \union Needs(e, Whole)]
  /\ UNCHANGED checks

\* for x in e: n.append(x)
Gather(n, e) ==
  /\ "append" \in Language /\ n \in DOMAIN value
  /\ value' = [value EXCEPT ![n] = @ \union {Indirect} \union Needs(e, Whole)]
  /\ UNCHANGED <<assigns, checks>>

\* ctx.check_l1("...", e) or ctx.check("...", e)
Check(method, e) ==
  /\ method = "check" => "check" \in Language
  /\ checks' = checks \union {[method |-> method, ok |-> e, needs |-> Needs(e, Whole)]}
  /\ UNCHANGED <<assigns, value>>

\* The bound on scenarios: the last statement of one without a check is a check, for
\* there is nothing to say of one that has none.
ChecksSomething == checks # {} \/ statements < MaxStatements - 1

Next ==
  /\ statements < MaxStatements /\ statements' = statements + 1
  /\ \/ \E method \in {"legacy", "check"}, e \in Expressions : Check(method, e)
     \/ /\ ChecksSomething
        /\ \/ \E n \in Locals, e \in Expressions : Assign(n, e)
           \/ \E n, m \in Locals, e \in Calls(Pairs) : n # m /\ Unpack(n, m, e)
           \/ \E n \in Locals, e \in Atoms : Branch(n, e)
           \/ \E n \in Locals, e \in Atoms : Gather(n, e)

Spec == Init /\ [][Next]_vars

-------------------------------------------------------------------------------
(***************************************************************************)
(* Properties.                                                             *)
(***************************************************************************)
TypeOK ==
  /\ DOMAIN assigns = Names
  /\ DOMAIN value \subseteq Locals
  /\ \A n \in DOMAIN value : value[n] \subseteq Sources \union {Indirect, Hushed}
  /\ \A c \in checks : c.method \in {"legacy", "check"} /\ c.needs \subseteq Sources \union {Indirect, Hushed}
  /\ statements \in 0..MaxStatements

\* validate_suite.py:560: locals of different functions share one name space,
\* recursion is depth-capped, and nothing is followed across module boundaries; every
\* one of those limits pushes toward "unknown".  So a check that rests on the vendor's
\* evidence, and not by way of a loop or a branch, is substantive.
LimitsSuppress ==
  \A c \in Counted :
    {"vendor", Hushed} \intersect c.needs # {} /\ Indirect \notin c.needs
      => Verdict(c.ok) = "substantive"

\* A helper has a parameter with the name of something that is assigned in the file.
Captured ==
  \E f \in DOMAIN Helpers : \E p \in DOMAIN Helpers[f].params : Helpers[f].params[p] \in Names

\* Unless names are captured the limits do what is said of them, whatever else is
\* assigned to the names of a check before or after, through helpers, recursion and
\* positions of tuples; but not where the evidence is had from a function of another
\* file whose name begins with an underscore: validate_suite.py:679 gives such a name
\* no label, and a check that has all of its evidence from there is overlooked.
NoEvidenceOverlooked ==
  \/ \A c \in Counted :
       "vendor" \in c.needs /\ Indirect \notin c.needs => Verdict(c.ok) = "substantive"
  \/ Captured

\* The names in an expression, and those the helpers it calls assign.
RECURSIVE Mentions(_)
Mentions(e) ==
  {e.name} \union UNION {Mentions(e.args[i]) : i \in DOMAIN e.args}
           \union (IF e.op = "call" THEN DOMAIN Helpers[e.name].locals ELSE {})

Recursive == {f \in DOMAIN Helpers : \E r \in Helpers[f].returns : f \in Mentions(r)}

\* The locals that some check is computed from.
Traced ==
  LET Closed(S) ==
        \A n \in Locals :
          \/ \E c \in checks : n \in Mentions(c.ok)
          \/ \E m \in S : \E a \in assigns[m] : n \in Mentions(a.expr)
          => n \in S
  IN  {n \in Locals : \A S \in SUBSET Locals : Closed(S) => n \in S}

\* What the checks are computed from is assigned once, is no description, and
\* calls nothing that is imported or recursive.
Plain ==
  LET aside == DOMAIN Imports \union Recursive
  IN  /\ \A c \in checks : Mentions(c.ok) \intersect aside = {}
      /\ \A n \in Traced :
           /\ Cardinality(assigns[n]) = 1
           /\ \A a \in assigns[n] : a.index # 2 /\ Mentions(a.expr) \intersect aside = {}

\* A task of plain scenarios whose every check rests on golden files, and none
\* on evidence, a loop or a branch, is reported, if the tracer sees any of its
\* checks: it knows the four methods that are older than check().
GoldenOnlyIsReported ==
  ( /\ Counted # {}
    /\ \A c \in checks : "fixture" \in c.needs /\ c.needs \intersect {"vendor", Hushed, Indirect} = {}
    /\ Plain )
    => Vacuous

===============================================================================
