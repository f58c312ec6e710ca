--------------------------- MODULE FeatureSearchMC ---------------------------
(* FeatureSearch on short queries over one value of each term, for TLC. *)
EXTENDS FeatureSearch, FiniteSets, TLC

Range2 == [from |-> 2, to |-> 2]

\* Between 2 and 2: before, within and after it, or unknown.
SearchDates == {1, 2, 3, Null}

Terms ==
    {Term(of, "x") : of \in {"name", "desc", "id", "group", "snapshot", "available_on",
                              "baseline_status"}}
        \cup {Term("available_date", Range2), Term("baseline_date", Range2)}

on == Term("available_on", "x")
byName == Term("name", "x")
reached == Term("baseline_date", Range2)

SmallStored ==
    ("all" :> Everything)
        @@ ("some" :> Asked(on, << Joined("OR", byName) >>))
        @@ ("both" :> Asked(Term("saved", "some"), << Joined("space", reached) >>))
        @@ ("void" :> Asked(Term("hotlist", "all"), <<>>))

ReferenceTerms ==
    {Term("hotlist", "all"), Term("saved", "some"), Term("saved", "both"),
     Term("saved", "void")}

SearchOps == {"AND", "OR", "space"}

Pairs(S) ==
    {Asked(a, << Joined(op, b) >>) : a \in S, op \in SearchOps, b \in S}

Triples(S) ==
    {Asked(a, << Joined(o, b), Joined(p, c) >>) :
        a \in S, o \in SearchOps, b \in S, p \in SearchOps, c \in S}

AllTerms == Terms \cup {Not(t) : t \in Terms \cup ReferenceTerms} \cup ReferenceTerms

Core == {on, byName, reached, Not(on)} \cup ReferenceTerms

QueriesUpToThree ==
    {Everything}
        \cup {Asked(c, <<>>) : c \in AllTerms}
        \cup {Asked(Group(q), <<>>) : q \in Pairs(Core)}
        \cup Pairs(AllTerms)
        \cup Triples(Core)
        \cup {Asked(Group(Asked(on, << Joined("OR", reached) >>)), << Joined(op, c) >>) :
                op \in SearchOps, c \in Core}

\* How deep the queries above are nested.
\* TLC sorts the value of a definition, but not that of a constant replaced by an
\* expression: hence the second names.
SmallQueries == QueriesUpToThree

SmallNesting[q \in SmallQueries] ==
    LET inner == {SmallNesting[QueryIn(q[i])] : i \in {j \in DOMAIN q : HasQuery(q[j])}}
    IN IF inner = {} THEN 0 ELSE 1 + (CHOOSE n \in inner : \A k \in inner : k <= n)

\* Bound: not every release goes with every text; the description has the
\* words of the key; groups and snapshots are alike.
RowsOfOneValue ==
    {[excluded |-> e, key |-> t[1], release |-> r, low |-> b[2], status |-> b[1],
      groups |-> g, snapshots |-> g,
      text |-> [name |-> t[2], key |-> IF t[1] = "x" THEN {"x"} ELSE {},
                desc |-> IF t[1] = "x" THEN {"x"} ELSE {}]] :
        e \in BOOLEAN, r \in SearchDates,
        b \in {<<Null, Null>>, <<"y", Null>>} \cup ({"x"} \X {1, 2, 3}),
        g \in SUBSET {"x", "y"}, t \in {<<"x", {"x"}>>, <<"y", {}>>, <<"y", {"x"}>>}}

SmallRows == RowsOfOneValue
=============================================================================
