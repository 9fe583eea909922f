----------------------------- MODULE RdsFlavors -----------------------------
(***************************************************************************)
(* RdsFlavorLookup (pkg/controller/resource.go): which flavor the autopilot*)
(* asks for when CPU or memory of an instance is used up.  Pure functions  *)
(* of the catalogue the cloud lists and of the spec of the resource.       *)
(***************************************************************************)
EXTENDS Integers, Sequences, FiniteSets

CONSTANTS
    Codes,      \* flavor codes
    Ha,         \* those that end in ".ha"
    Replica,    \* those that end in ".rr"
    Zones,      \* availability zones
    Catalogue   \* what flavors.List gives for the engine of the resources

\* zones: where AzStatus says "normal".
Flavor == [code : Codes, cpu : 1..999, ram : Nat \ {0}, zones : SUBSET Zones]

ASSUME CodesHaveKinds ==
    Ha \subseteq Codes /\ Replica \subseteq Codes /\ Ha \cap Replica = {}
ASSUME CatalogueIsListed ==
    /\ Catalogue \subseteq Flavor
    /\ \A f, g \in Catalogue : f.code = g.code => f = g

Metrics == {"disk", "cpu", "mem"}

------------------------------------------------------------------------------
\* The cloud gives the number of CPUs as a string (below a thousand here).
Numeral(n) ==
    IF n < 10 THEN <<n>>
    ELSE IF n < 100 THEN <<n \div 10, n % 10>>
    ELSE <<n \div 100, (n \div 10) % 10, n % 10>>

\* The order of strings, by the first digit that differs.
Before(s, t) ==
    \E k \in 1..Len(t) :
        /\ k <= Len(s) + 1
        /\ \A j \in 1..(k - 1) : s[j] = t[j]
        /\ k = Len(s) + 1 \/ s[k] < t[k]

\* What a spec has now; a code that is not listed counts as nothing.
Size(code) ==
    IF \E f \in Catalogue : f.code = code
    THEN CHOOSE f \in Catalogue : f.code = code
    ELSE [code |-> code, cpu |-> 0, ram |-> 0, zones |-> {}]

\* Broken variant: the second zone is not looked at.
Available_Somewhere(f, o) == o.zones \cap f.zones # {}

\* The first zone is normal, and the second if there is one.
Available(f, o) == o.zones # {} /\ o.zones \subseteq f.zones

\* An instance for high availability stays one, a single one stays single.
SameKind(f, o) ==
    IF o.flavor \in Ha THEN f.code \in Ha ELSE f.code \notin Ha \cup Replica

\* CPUs are compared as the strings they come in, memory as the number it is.
Bigger(f, o, raise) ==
    CASE raise = "cpu" -> Before(Numeral(Size(o.flavor).cpu), Numeral(f.cpu))
      [] raise = "mem" -> f.ram > Size(o.flavor).ram

Candidates(o, raise) ==
    {f \in Catalogue : Available(f, o) /\ SameKind(f, o) /\ Bigger(f, o, raise)}

Measure(f, raise) == IF raise = "cpu" THEN f.cpu ELSE f.ram

\* The candidates are sorted, by number, and the first is taken: any of those
\* that are equally small.  No code: the error "no flavor found".
RdsFlavorLookup(o, raise) ==
    {f.code : f \in {g \in Candidates(o, raise) :
        \A h \in Candidates(o, raise) : Measure(g, raise) <= Measure(h, raise)}}

------------------------------------------------------------------------------
\* What the README promises, without the way the code finds it: g is the next
\* bigger of the flavors that an instance of spec o can have in all its zones.
Fits(f, o) ==
    /\ o.zones \subseteq f.zones
    /\ (o.flavor \in Ha <=> f.code \in Ha) /\ f.code \notin Replica

NextBigger(g, o, raise) ==
    LET now == Measure(Size(o.flavor), raise) IN
    /\ g \in Catalogue /\ Fits(g, o) /\ Measure(g, raise) > now
    /\ \A f \in Catalogue :
         Fits(f, o) /\ Measure(f, raise) > now => Measure(g, raise) <= Measure(f, raise)
==============================================================================
