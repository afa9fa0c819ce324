-------------------------- MODULE ExplorerController --------------------------
(***************************************************************************)
(* The Explorer: the controller (explorer/explorerController.ts), the      *)
(* model it builds of what a provider reports (explorerModel.ts), and the  *)
(* panel, tree and breadcrumb that call it.  A report is a list of objects *)
(* that name their parents and is not trusted: it may repeat an object,    *)
(* name a parent it does not hold, and lead in a loop.  Names, classes and *)
(* properties are left out; a query is the set of objects whose name       *)
(* matches it.  The provider that ships never changes its report; the next *)
(* report here is what the controller's subscription and reload allow.     *)
(***************************************************************************)
EXTENDS Naturals, Sequences, FiniteSets

CONSTANTS
    Objects,        \* the ids a report can name
    Reports,        \* what the first read may return
    LaterReports,   \* what a later one may
    MaxDepth        \* MAX_DEPTH, the ceiling of a walk up the parents

None == "none"      \* null

ASSUME ExplorerBounds ==
    /\ None \notin Objects /\ MaxDepth \in Nat
    /\ \A r \in Reports \cup LaterReports :
         r \in Seq([id : Objects, parent : Objects \cup {None}]) /\ Len(r) <= MaxDepth

VARIABLES
    report,       \* what the provider returned last
    parents,      \* the model: the parent of every object, after repairs
    selectedId, expandedIds,
    query,        \* the panel's search: whether there is one, and what it matches
    watched       \* the controller is not disposed

explVars == <<report, parents, selectedId, expandedIds, query, watched>>

-----------------------------------------------------------------------------
(* buildExplorerModel.  The first entry of an id counts.                   *)
Source(r) == {r[i].id : i \in DOMAIN r}
Place(r, x) == CHOOSE i \in DOMAIN r : r[i].id = x /\ \A j \in 1 .. i - 1 : r[j].id # x

(* A parent that is the object itself, or was not reported, is none.       *)
Given(r) == [x \in Source(r) |->
    LET p == r[Place(r, x)].parent IN IF p \in Source(r) \ {x} THEN p ELSE None]

(* The walk up from x: itself, its parent, and so on.                      *)
Climb(par, x) ==
    LET c[k \in 0 .. Cardinality(DOMAIN par)] ==
          IF k = 0 THEN x ELSE IF c[k - 1] = None THEN None ELSE par[c[k - 1]]
    IN  c
Met(par, x) == {Climb(par, x)[k] : k \in 1 .. Cardinality(DOMAIN par)} \ {None}
OnLoop(par) == {x \in DOMAIN par : x \in Met(par, x)}

(* Every object is walked from, as reported.  The walk that first enters a *)
(* loop cuts it at the object it comes back to, where it entered.          *)
\* Variant: the object a walk began at is cut instead.
CutAtStart(r, par, y) ==
    \A x \in DOMAIN par : y \in Met(par, x) => Place(r, x) >= Place(r, y)
CutAt(r, par, y) ==
    LET first == CHOOSE x \in DOMAIN par : y \in Met(par, x)
                   /\ \A z \in DOMAIN par : y \in Met(par, z) => Place(r, x) <= Place(r, z)
        walk == Climb(par, first)
    IN  \E k \in DOMAIN walk : walk[k] = y /\ \A j \in 0 .. k - 1 : walk[j] \notin OnLoop(par)

BuildModel(r) == LET par == Given(r) IN
    [x \in Source(r) |-> IF x \in OnLoop(par) /\ CutAt(r, par, x) THEN None ELSE par[x]]

(* What is attached under a root; the objects above another.               *)
Nodes(par) == {x \in DOMAIN par : None \in {Climb(par, x)[k] : k \in 0 .. Cardinality(DOMAIN par)}}
Ancestors(par, x) ==
    {Climb(par, x)[k] : k \in (1 .. MaxDepth) \cap DOMAIN Climb(par, x)} \ {None}
Expandable(par) == {par[x] : x \in Nodes(par)} \ {None}
Roots(par) == {x \in Nodes(par) : par[x] = None}

-----------------------------------------------------------------------------
(* What is on screen.  While searching every branch is open, and a match   *)
(* keeps what is above it and what is inside it.                           *)
Matches == query.hits \cap Nodes(parents)
Kept == {x \in Nodes(parents) :
           \E m \in Matches :
              x = m \/ x \in Ancestors(parents, m) \/ m \in Ancestors(parents, x)}
Shown == IF query.on THEN Kept
         ELSE {x \in Nodes(parents) : Ancestors(parents, x) \subseteq expandedIds}

(* Display order: what is above first, then siblings as they are reported. *)
Before(x, y) ==
    LET Line(z) == {z} \cup Ancestors(parents, z)
    IN  \/ x \in Ancestors(parents, y)
        \/ \E u \in Line(x), v \in Line(y) :
              parents[u] = parents[v] /\ Place(report, u) < Place(report, v)
FirstMatch == CHOOSE m \in Matches : \A n \in Matches \ {m} : Before(m, n)

-----------------------------------------------------------------------------
(* load, the first time: the roots are shown opened.                       *)
StartWith(r) ==
    /\ report = r /\ parents = BuildModel(r)
    /\ selectedId = None
    /\ expandedIds = Roots(parents) \cap Expandable(parents)
    /\ query = [on |-> FALSE, hits |-> {}] /\ watched = TRUE

ExplorerEmpty == StartWith(<<>>)
ExplorerInit == \E r \in Reports : StartWith(r)

(* load, again: what still applies is kept.  A read that throws reports    *)
(* nothing.                                                                *)
Load(r) ==
    /\ report' = r /\ parents' = BuildModel(r)
    /\ expandedIds' = expandedIds \cap Expandable(parents')
    /\ selectedId' = IF selectedId \in Nodes(parents') THEN selectedId ELSE None
    /\ UNCHANGED query

Select(x) == selectedId' = IF x \in Nodes(parents) THEN x ELSE None
SetExpanded(x, open) ==
    expandedIds' = IF x \notin Expandable(parents) THEN expandedIds
                   ELSE IF open THEN expandedIds \cup {x} ELSE expandedIds \ {x}
Reveal(x) == expandedIds' = expandedIds \cup Ancestors(parents, x)

(* A click or Enter on a row; a step of the breadcrumb, shown or not.      *)
SelectRow == \E x \in Shown : Select(x) /\ UNCHANGED expandedIds
SelectStep ==
    /\ selectedId # None
    /\ \E x \in Ancestors(parents, selectedId) : Select(x) /\ UNCHANGED expandedIds
ClearSelection == selectedId' = None /\ UNCHANGED expandedIds

(* The twistie, a double click and the menu of a row; Left and Right do    *)
(* the same while nothing is searched for.  The palette expands and        *)
(* collapses everything, under a search as well.                           *)
Toggle == \E x \in Shown \cap Expandable(parents) :
    SetExpanded(x, x \notin expandedIds) /\ UNCHANGED selectedId
ExpandAll == Nodes(parents) # {} /\ expandedIds' = Expandable(parents) /\ UNCHANGED selectedId
CollapseAll == Nodes(parents) # {} /\ expandedIds' = {} /\ UNCHANGED selectedId

(* The menu's Inspect; Enter in the search.                                *)
Inspect == \E x \in Shown : Reveal(x) /\ Select(x)
TakeFirstMatch ==
    /\ query.on /\ Matches # {}
    /\ Reveal(FirstMatch) /\ Select(FirstMatch)

(* The search is typed or cleared.                                         *)
Type ==
    /\ \/ \E q \in SUBSET Objects : query' = [on |-> TRUE, hits |-> q]
       \/ query' = [on |-> FALSE, hits |-> {}]
    /\ UNCHANGED <<selectedId, expandedIds>>

ExplorerUse ==
    \/ SelectRow \/ SelectStep \/ ClearSelection
    \/ Toggle \/ ExpandAll \/ CollapseAll \/ Inspect \/ TakeFirstMatch

ExplorerNext == watched /\
    \/ ExplorerUse /\ UNCHANGED <<report, parents, query, watched>>
    \/ Type /\ UNCHANGED <<report, parents, watched>>
    \/ (\E r \in LaterReports : Load(r)) /\ UNCHANGED watched
    \/ watched' = FALSE /\ UNCHANGED <<report, parents, selectedId, expandedIds, query>>

-----------------------------------------------------------------------------
(* "Provider data is never trusted to be well formed": every object        *)
(* reported is in the tree once, under the parent it names, unless that    *)
(* one is itself, was not reported, or leads back to it; each loop loses   *)
(* one link and no more.                                                   *)
HierarchyIsRepaired ==
    LET named == Given(report)
        cut == {x \in Source(report) : parents[x] # named[x]}
    IN  /\ Nodes(parents) = Source(report)
        /\ cut \subseteq OnLoop(named) /\ \A x \in cut : parents[x] = None
        /\ \A x, y \in cut : y \in Met(named, x) => x = y

(* Selection and expansion are about the objects reported now.             *)
SelectionIsReported ==
    selectedId \in Nodes(parents) \cup {None} /\ expandedIds \subseteq Expandable(parents)

(* What Inspect and Enter select can be seen once the search is cleared:   *)
(* everything above it is open.                                            *)
Above(par, x) == {y \in DOMAIN par : y \in Met(par, x)}
RevealedIsSeen == (Inspect \/ TakeFirstMatch) /\ UNCHANGED <<parents, query>> =>
    selectedId' # None /\ Above(parents, selectedId') \subseteq expandedIds'

(* Whatever is reported and reported again while it is browsed: the tree   *)
(* is whole, the selection is in it, and what is looked up is in view.     *)
ExplorerIsSound ==
    [](HierarchyIsRepaired /\ SelectionIsReported) /\ [][RevealedIsSeen]_explVars
=============================================================================
