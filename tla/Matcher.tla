------------------------------ MODULE Matcher ------------------------------
(* Re-associates the constructs of an edited intent with the objects that    *)
(* stand on the board (plan/matcher.rs): four rungs over one accumulator,     *)
(* the refusal when a guess could rewire hardware, the board a plan leaves,   *)
(* and the disruption class the plan is gated on.                             *)
(*                                                                           *)
(* A construct, compiled or standing, is a record                             *)
(*    [family, name or (handle, label), anchor, config, from]                 *)
(* whose anchor is the set of dpmacs wired to it, empty when unanchored.      *)
(* BTreeSets are iterated in order of family, then name; names are unique in  *)
(* an intent, so the rest of the derived order never decides.                 *)
EXTENDS Naturals, FiniteSets, Sequences, SequencesExt, FiniteSetsExt

CONSTANTS
    FamilyOrder,   \* every object family, in the derived order of Family
    NameOrder,     \* every construct name, sorted by bytes
    NoName         \* an unlabelled object, an undeclared renamed clause

Rank(order, x) == CHOOSE i \in DOMAIN order : order[i] = x

Before(c, d) ==
    \/ Rank(FamilyOrder, c.family) < Rank(FamilyOrder, d.family)
    \/ /\ c.family = d.family
       /\ Rank(NameOrder, c.name) <= Rank(NameOrder, d.name)

InOrder(compiled) ==
    [i \in 1 .. Cardinality(compiled) |->
        CHOOSE c \in compiled : Cardinality({d \in compiled : Before(d, c)}) = i]

Unanchored(c) == c.anchor = {}

Pair(c, h) == [compiled |-> c, handle |-> h]

\* F at x, with x evaluated once however often F names it.
At(x, F(_)) == CHOOSE y \in {F(v) : v \in {x}} : TRUE

NoMatch == [pairs |-> {}, renamed |-> {}, used |-> {}]

IsPaired(acc, c) == \E p \in acc.pairs : p.compiled = c

ExclusionSet(compiled) == {c.from : c \in compiled} \ {NoName}

\* Binds c to the least unused candidate, if there is one.
Bind(acc, c, candidates) ==
    LET free == {o.handle : o \in candidates} \ acc.used
    IN  IF free = {} THEN acc
        ELSE [acc EXCEPT !.pairs = @ \cup {Pair(c, Min(free))},
                         !.used = @ \cup {Min(free)}]

\* One rung: its targets are fixed on entry, then bound one after the other.
Rung(acc, targets, Candidates(_)) ==
    At(targets, LAMBDA all : At(InOrder(all), LAMBDA queue :
        FoldLeft(LAMBDA a, c : At(a, LAMBDA v : Bind(v, c, Candidates(c))), acc, queue)))

AnchorRung(board, compiled, acc) ==
    Rung(acc, {c \in compiled : ~Unanchored(c)},
         LAMBDA c : {o \in board : o.family = c.family /\ o.anchor = c.anchor})

Unpaired(compiled, acc) ==
    {c \in compiled : Unanchored(c) /\ ~IsPaired(acc, c)}

\* The unanchored objects a construct's label rungs may bind.
Labelled(board, c, label) ==
    {o \in board : o.family = c.family /\ Unanchored(o) /\ o.label = label}

\* Not the code: a rename source is bound by its label like any other.
NoExclusion(o, c, exclusions) == FALSE

Contested(o, c, exclusions) == o.label \in exclusions /\ o.config # c.config

LabelPass1(board, compiled, acc) ==
    Rung(acc, Unpaired(compiled, acc),
         LAMBDA c : {o \in Labelled(board, c, c.name) :
                        ~Contested(o, c, ExclusionSet(compiled))})

LabelPass2(board, compiled, acc) ==
    LET after == Rung(acc, {c \in Unpaired(compiled, acc) : c.from # NoName},
                      LAMBDA c : Labelled(board, c, c.from))
    IN  [after EXCEPT !.renamed = after.pairs \ acc.pairs]

LeftoverCompiled(compiled, acc, f) == {c \in Unpaired(compiled, acc) : c.family = f}

LeftoverObserved(board, acc, f) ==
    {o \in board : o.family = f /\ Unanchored(o) /\ o.handle \notin acc.used}

AmbiguousFamily(board, compiled, acc, f) ==
    LET wanting  == LeftoverCompiled(compiled, acc, f)
        standing == LeftoverObserved(board, acc, f)
    IN  /\ wanting # {} /\ standing # {}
        /\ Cardinality(wanting) > 1 \/ Cardinality(standing) > 1
        /\ Cardinality({c.config : c \in wanting} \cup {o.config : o \in standing}) > 1

AmbiguityRefusals(board, compiled, acc) ==
    {f \in {c.family : c \in Unpaired(compiled, acc)} :
        AmbiguousFamily(board, compiled, acc, f)}

LeftoverRung(board, compiled, acc) ==
    Rung(acc, Unpaired(compiled, acc),
         LAMBDA c : {o \in board : o.family = c.family /\ Unanchored(o)})

\* Not the code: a renamed clause goes before the construct's own name.
RenamesFirst(board, compiled) ==
    At(AnchorRung(board, compiled, NoMatch),
       LAMBDA anchored : At(LabelPass2(board, compiled, anchored),
                            LAMBDA moved : LabelPass1(board, compiled, moved)))

\* The three rungs that rest on evidence: an anchor, a label, a declared rename.
Evidence(board, compiled) ==
    At(AnchorRung(board, compiled, NoMatch),
       LAMBDA anchored : At(LabelPass1(board, compiled, anchored),
                            LAMBDA named : LabelPass2(board, compiled, named)))

Refused(families) ==
    [refused |-> families, pairs |-> {}, renamed |-> {}, created |-> {}, removed |-> {}]

Plan(board, compiled, acc) ==
    [refused |-> {}, pairs |-> acc.pairs, renamed |-> acc.renamed,
     created |-> {c \in compiled : ~IsPaired(acc, c)},
     removed |-> {o.handle : o \in board} \ acc.used]

\* A plan, or the families that refuse.
MatchBoard(board, compiled) ==
    At(Evidence(board, compiled), LAMBDA acc :
        LET refusals == AmbiguityRefusals(board, compiled, acc)
        IN  IF refusals # {} THEN Refused(refusals)
            ELSE At(LeftoverRung(board, compiled, acc),
                    LAMBDA all : Plan(board, compiled, all)))

---------------------------------------------------------------------------
(* The board after a converge.                                              *)

MaxHandle(board) == Max({0} \cup {o.handle : o \in board})

\* Not the code: a relabel leaves the config it found.
RelabelledOnly(o, c) == [o EXCEPT !.label = c.name]

\* The object a pair leaves: relabelled, its config asserted, its anchor kept.
Carried(o, c) == [o EXCEPT !.label = c.name, !.config = c.config]

Fresh(c, h) ==
    [family |-> c.family, handle |-> h, label |-> c.name,
     anchor |-> c.anchor, config |-> c.config]

Apply(board, plan) ==
    LET new == InOrder(plan.created)
    IN  {o \in board : /\ o.handle \notin plan.removed
                       /\ \A p \in plan.pairs : p.handle # o.handle}
        \cup {Carried(o, p.compiled) :
                <<o, p>> \in {x \in board \X plan.pairs : x[1].handle = x[2].handle}}
        \cup {Fresh(new[i], MaxHandle(board) + i) : i \in DOMAIN new}

Converged(board, compiled) ==
    At(MatchBoard(board, compiled), LAMBDA plan :
        IF plan.refused # {} THEN board ELSE Apply(board, plan))

---------------------------------------------------------------------------
(* The disruption class of a plan: 0 hitless, 1 boundary, 2 disruptive.     *)

Hitless == 0
Boundary == 1
Disruptive == 2

PairClass(old, c, newLabels) ==
    IF old.label \in {c.name, NoName} \cup newLabels THEN Hitless ELSE Boundary

Headline(board, plan) ==
    LET newLabels == {p.compiled.name : p \in plan.pairs} \cup {c.name : c \in plan.created}
        classes == {PairClass(o, p.compiled, newLabels) :
                        <<o, p>> \in {x \in board \X plan.pairs : x[1].handle = x[2].handle}}
        churn == IF plan.created # {} \/ plan.removed # {} THEN {Disruptive} ELSE {}
    IN  Max({Hitless} \cup classes \cup churn)
=============================================================================
