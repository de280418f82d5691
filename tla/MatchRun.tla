------------------------------ MODULE MatchRun ------------------------------
(* An operator edits an intent, the board drifts underneath it, and           *)
(* converges re-associate the two (plan/matcher.rs converge).  The edits are   *)
(* those the language accepts: names and anchors stay unique and no renamed   *)
(* clause names a construct still declared under that name.                    *)
EXTENDS Matcher

CONSTANTS
    Intents,     \* the intents the first converge ran on
    Additions,   \* constructs an edit may declare
    Facets,      \* the config facets an unanchored construct may have
    MaxEdits     \* edits and drifts in one history

Names == {NameOrder[i] : i \in DOMAIN NameOrder}
Families == {FamilyOrder[i] : i \in DOMAIN FamilyOrder}

VARIABLES
    intent,    \* the constructs as declared now
    board,     \* the objects that stand
    edits,     \* edits and drifts so far
    knownAs,   \* per declared name, the name the board knew the construct by
               \* at the last accepted converge, NoName when it was not there
    honest     \* since then nothing but declared renames happened

vars == <<intent, board, edits, knownAs, honest>>

NamesOf(I) == {c.name : c \in I}

\* The two rules the compiler holds a renamed clause and a name to, and the
\* one it holds an anchor to.
Accepted(I) ==
    /\ \A c, d \in I : c # d => c.name # d.name /\ (c.anchor \cap d.anchor = {})
    /\ \A c, d \in I : c.from = d.name /\ c.from # NoName => d.from # NoName

Synced(I) == [n \in NamesOf(I) |-> n]

Init ==
    /\ intent \in Intents
    /\ board = Converged({}, intent)
    /\ edits = 0
    /\ knownAs = Synced(intent)
    /\ honest = TRUE

Edit ==
    /\ edits < MaxEdits
    /\ edits' = edits + 1

---------------------------------------------------------------------------
(* The operator.                                                            *)

\* c takes the name n, and its renamed clause the name the board knew it by;
\* a construct back under its own name needs none.
Renaming(c, n) ==
    [c EXCEPT !.name = n,
              !.from = IF knownAs[c.name] = n THEN NoName ELSE knownAs[c.name]]

Rekeyed(moves) ==
    LET was(n) == IF \E m \in moves : m[2] = n
                  THEN (CHOOSE m \in moves : m[2] = n)[1] ELSE n
    IN  [n \in NamesOf(intent') |-> knownAs[was(n)]]

Rename(c, n) ==
    /\ Edit
    /\ n \notin NamesOf(intent)
    /\ intent' = (intent \ {c}) \cup {Renaming(c, n)}
    /\ Accepted(intent')
    /\ knownAs' = Rekeyed({<<c.name, n>>})
    /\ UNCHANGED <<board, honest>>

Swap(c, d) ==
    /\ Edit
    /\ c # d
    /\ intent' = (intent \ {c, d}) \cup {Renaming(c, d.name), Renaming(d, c.name)}
    /\ Accepted(intent')
    /\ knownAs' = Rekeyed({<<c.name, d.name>>, <<d.name, c.name>>})
    /\ UNCHANGED <<board, honest>>

\* Any other edit of one construct; knownAs follows the names.
Edited(I) ==
    /\ Edit
    /\ I # intent
    /\ Accepted(I)
    /\ intent' = I
    /\ knownAs' = [n \in NamesOf(I) |->
                    IF n \in DOMAIN knownAs THEN knownAs[n] ELSE NoName]
    /\ honest' = FALSE
    /\ UNCHANGED board

\* The clause is dropped: once the board carries the name this loses nothing.
ClearRename(c) ==
    /\ c.from # NoName
    /\ Edited((intent \ {c}) \cup {[c EXCEPT !.from = NoName]})

Reconfigure(c, facet) ==
    /\ Unanchored(c)
    /\ Edited((intent \ {c}) \cup {[c EXCEPT !.config = facet]})

Rewire(c, anchor) ==
    /\ ~Unanchored(c)
    /\ Edited((intent \ {c}) \cup {[c EXCEPT !.anchor = anchor]})

Declare(c) == Edited(intent \cup {c})

Withdraw(c) == Edited(intent \ {c})

Operator ==
    \/ \E c \in intent, n \in Names : Rename(c, n)
    \/ \E c, d \in intent : Swap(c, d)
    \/ \E c \in intent : ClearRename(c) \/ Withdraw(c)
    \/ \E c \in intent, facet \in Facets : Reconfigure(c, facet)
    \/ \E c \in intent, d \in Additions : Rewire(c, d.anchor) /\ ~Unanchored(d)
    \/ \E d \in Additions : Declare(d)

---------------------------------------------------------------------------
(* The board drifts: a firmware reset wipes a label, another tool destroys.  *)

Drifts(b) ==
    /\ Edit
    /\ board' = b
    /\ honest' = FALSE
    /\ UNCHANGED <<intent, knownAs>>

Wipe(o) == o.label # NoName /\ Drifts((board \ {o}) \cup {[o EXCEPT !.label = NoName]})

Vanish(o) == Drifts(board \ {o})

Drift == \E o \in board : Wipe(o) \/ Vanish(o)

---------------------------------------------------------------------------

Verdict == MatchBoard(board, intent)

Converge ==
    /\ \E verdict \in {Verdict} :
        \/ /\ verdict.refused # {}
           /\ UNCHANGED <<board, knownAs, honest>>
        \/ /\ verdict.refused = {}
           /\ board' = Apply(board, verdict)
           /\ knownAs' = Synced(intent)
           /\ honest' = TRUE
    /\ UNCHANGED <<intent, edits>>

Next == Operator \/ Drift \/ Converge

Spec == Init /\ [][Next]_vars /\ WF_vars(Converge)

---------------------------------------------------------------------------

\* The types of the variables; the intent is one the compiler accepts, and no
\* two objects share a handle.
TypeOK ==
    /\ \A c \in intent :
        /\ c.family \in Families /\ c.name \in Names
        /\ c.from \in Names \cup {NoName}
    /\ Accepted(intent)
    /\ \A o \in board : o.label \in Names \cup {NoName} /\ o.handle \in Nat
    /\ \A o, p \in board : o.handle = p.handle => o = p
    /\ DOMAIN knownAs = NamesOf(intent)

Object(h) == CHOOSE o \in board : o.handle = h

\* A plan accounts for every construct and every handle exactly once, never
\* across families, and an anchored construct only ever sits on the object
\* wired to its own dpmacs: whatever label or renamed clause says otherwise, a
\* port moved to another dpmac is a new object (match_board, anchor_rung).
MatchSound ==
    Verdict.refused = {} =>
        LET pairs == Verdict.pairs
        IN  /\ \A p, q \in pairs : (p.handle = q.handle) <=> (p.compiled = q.compiled)
            /\ {p.compiled : p \in pairs} \cup Verdict.created = intent
            /\ {p.handle : p \in pairs} \cup Verdict.removed = {o.handle : o \in board}
            /\ Verdict.removed \cap {p.handle : p \in pairs} = {}
            /\ \A p \in pairs :
                /\ p.compiled.family = Object(p.handle).family
                /\ p.compiled.anchor = Object(p.handle).anchor
            /\ \A c \in Verdict.created, o \in board :
                ~(~Unanchored(c) /\ o.family = c.family /\ o.anchor = c.anchor)

\* Whatever the edits and the drift were, one accepted converge is enough:
\* the next finds every construct on its object, uses no renamed clause and
\* is free.  A swap left in the file does not swap back (label_pass1).
SettlesAtOnce ==
    Verdict.refused = {} =>
        LET after == Apply(board, Verdict)
            again == MatchBoard(after, intent)
        IN  /\ again.refused = {} /\ again.renamed = {}
            /\ Apply(after, again) = after
            /\ Headline(after, again) = Hitless

\* An object that a construct already describes to the letter is left alone,
\* however stale the renamed clauses around it are and whatever else the same
\* plan moves (the order of the rungs, label_pass1's gate).
FrameLaw ==
    \A c \in intent : \A o \in board :
        (/\ o.family = c.family /\ o.label = c.name
         /\ o.anchor = c.anchor /\ o.config = c.config
         /\ \A d \in board : d.label = o.label => d = o)
        => o \in Converged(board, intent)

\* Hardware is never given to a construct on a guess: when a plan reconfigures
\* an object that neither its anchor nor its label nor a renamed clause ties
\* to the construct, nothing else of the family was left to choose
\* (ambiguous_family).
NeverGuesses ==
    \A p \in Verdict.pairs :
        LET c == p.compiled
            o == Object(p.handle)
        IN  (Unanchored(c) /\ o.label \notin {c.name, c.from} \ {NoName} /\ o.config # c.config)
            => /\ \A d \in Verdict.created : d.family = c.family => ~Unanchored(d)
               /\ \A h \in Verdict.removed :
                    Object(h).family = c.family => ~Unanchored(Object(h))
               /\ \A q \in Verdict.pairs :
                    (q # p /\ q.compiled.family = c.family /\ Unanchored(q.compiled))
                    => Object(q.handle).label \in {q.compiled.name, q.compiled.from} \ {NoName}

Held(b) == {o.label : o \in b} \ {NoName}
Handles(b) == {o.handle : o \in b}

\* The class an operator is asked to allow is true of what the converge does:
\* a hitless one keeps every object and every name in use, a boundary one
\* keeps every object, and neither is overstated (headline, pair_class).
HeadlineHonest ==
    Verdict.refused = {} =>
        LET after == Apply(board, Verdict)
            class == Headline(board, Verdict)
        IN  /\ class = Disruptive <=> Handles(after) # Handles(board)
            /\ class = Boundary => Held(board) \ Held(after) # {}
            /\ class = Hitless => Held(board) \subseteq Held(after)

Hardware(b) ==
    {[family |-> o.family, handle |-> o.handle, anchor |-> o.anchor, config |-> o.config] : o \in b}

\* Renames alone, swaps and longer cycles among them, move no hardware: no
\* object is created, removed or reconfigured, the labels move instead
\* (label_pass1's gate on the configs, label_pass2).
RenamesMoveNoHardware ==
    [][Converge /\ honest => Hardware(board') = Hardware(board)]_vars

InSync ==
    /\ {[family |-> o.family, name |-> o.label, anchor |-> o.anchor, config |-> o.config] : o \in board}
        = {[family |-> c.family, name |-> c.name, anchor |-> c.anchor, config |-> c.config] : c \in intent}
    /\ Cardinality(board) = Cardinality(intent)

\* Once the edits stop, the board comes to carry exactly the declared
\* constructs, or every converge refuses by name until the operator acts
\* (converge).
EventuallySettled == <>[](InSync \/ Verdict.refused # {})

---------------------------------------------------------------------------
\* What one matching owes on any board and intent: a sound pairing, which
\* leaves alone what is in sync, guesses nothing, tells its price truly and
\* leaves the next matching nothing to do (match_board, headline).
MatchInv ==
    TypeOK /\ MatchSound /\ FrameLaw /\ NeverGuesses /\ HeadlineHonest /\ SettlesAtOnce
=============================================================================
