---------------------------- MODULE FeatureSearch ----------------------------
(***************************************************************************)
(* What a search of features finds.  A query is parsed into a tree, the    *)
(* references to saved searches and hotlists are replaced by their         *)
(* queries, the tree is written as the text of an SQL condition, and the   *)
(* database evaluates that text, in which AND binds tighter than OR and a  *)
(* comparison with NULL is neither true nor false.                         *)
(*                                                                         *)
(* The tree and the text need not agree: only what was in parentheses is   *)
(* in parentheses again.  Of a tree only its root and its text are kept:   *)
(* the parser looks at the root of what it has, and the text is put        *)
(* together from that of the children.                                     *)
(***************************************************************************)
EXTENDS Naturals, Sequences

CONSTANTS
    Queries,  \* what users ask for, with what is in parentheses and referred to
    Nesting,  \* how deep parentheses and references are nested in each
    Stored,   \* the queries of saved searches and hotlists, by identifier
    Rows,     \* features, as the joins of the base query show them
    Null

\* A query is a sequence of criteria.  A criterion is a term, maybe negated, or a
\* query in parentheses, joined to those before by "AND", "OR" or "space".
Term(of, value) == [op |-> "", not |-> FALSE, of |-> of, value |-> value]
Not(criterion) == [criterion EXCEPT !.not = TRUE]
Group(q) == Term("parens", q)
Joined(op, criterion) == [criterion EXCEPT !.op = op]
Asked(first, rest) == <<first>> \o rest

Everything == <<>>

Ranges == {"available_date", "baseline_date"}
References == {"saved", "hotlist"}

\* A criterion that has a query of its own, and that query.
HasQuery(c) == c.of \in {"parens"} \cup References
QueryIn(c) == IF c.of = "parens" THEN c.value ELSE Stored[c.value]

\* References that come back to their search are refused (SavedSearches), so that
\* the nesting ends.
ASSUME QueriesAssumption ==
    \A q \in Queries :
        /\ Len(q) \in Nat /\ DOMAIN q = 1 .. Len(q)
        /\ \A i \in DOMAIN q :
              /\ i > 1 => q[i].op \in {"AND", "OR", "space"}
              /\ q[i].not \in BOOLEAN
              /\ q[i].of \in {"name", "desc", "id", "group", "snapshot", "available_on",
                              "baseline_status", "parens"} \cup Ranges \cup References
              /\ q[i].value # Null
              /\ q[i].of \in Ranges => q[i].value.from \in Nat /\ q[i].value.to \in Nat
              /\ HasQuery(q[i]) => /\ QueryIn(q[i]) \in Queries
                                   /\ Nesting[QueryIn(q[i])] < Nesting[q]

ASSUME NestingAssumption == Nesting \in [Queries -> Nat]

ASSUME RowsAssumption ==
    \A row \in Rows :
        /\ row.key # Null /\ Null \notin row.groups /\ Null \notin row.snapshots
        /\ row.low # Null => row.low \in Nat
        /\ row.release # Null => row.release \in Nat

VARIABLE query  \* what has been asked for, or Null

SearchInit == query = Null

\* A user, or the worker for a saved search, searches.
Search ==
    /\ query = Null
    /\ query' \in Queries

SearchNext == Search
-----------------------------------------------------------------------------
(* The conditions of terms.  Nothing negates a condition once it is         *)
(* written, so that one is known by the rows it is true of.                 *)

Compared(x, op, y) ==
    /\ x # Null
    /\ \/ op = "=" /\ x = y
       \/ op = "!=" /\ x # y
       \/ op = ">=" /\ x >= y.from
       \/ op = "<" /\ x < y.from
       \/ op = "<=" /\ x <= y.to
       \/ op = ">" /\ x > y.to

\* Some column has a part of its text like this one, or not like it.
SomeLike(row, columns, op, word) ==
    \E c \in columns : (op = "LIKE") <=> (word \in row.text[c])

\* Some group is this one, or is another.
SomeEqual(groups, op, value) == \E g \in groups : Compared(g, op, value)

Condition(of, op, value) ==
    {row \in Rows :
        \/ of = "name" /\ SomeLike(row, {"name", "key"}, op, value)
        \/ of = "desc" /\ SomeLike(row, {"name", "key", "desc"}, op, value)
        \/ of = "id" /\ Compared(row.key, op, value)
        \/ of = "group" /\ SomeEqual(row.groups, op, value)
        \/ of = "snapshot" /\ SomeEqual(row.snapshots, op, value)
        \/ of = "baseline_status" /\ Compared(row.status, op, value)
        \/ of = "baseline_date" /\ Compared(row.low, op, value)
        \/ of = "available_on" /\ ((row.release # Null) <=> (op = "="))
        \/ of = "available_date" /\ Compared(row.release, op, value)}
-----------------------------------------------------------------------------
(* The text, as the sequence of its alternatives, each of them the rows that *)
(* all the conditions joined by AND are true of.                             *)

NoText == <<>>

Or(t, u) == t \o u

\* Of two texts with AND in between only the conditions next to it are joined by it.
And(t, u) ==
    IF t = NoText THEN u
    ELSE IF u = NoText THEN t
    ELSE SubSeq(t, 1, Len(t) - 1) \o << t[Len(t)] \cap u[1] >> \o Tail(u)

Join(keyword, t, u) == IF keyword = "OR" THEN Or(t, u) ELSE And(t, u)

Found(text) == UNION {text[i] : i \in DOMAIN text}

\* In parentheses it is one condition, if there is anything in them.
Parens(text) == IF text = NoText THEN NoText ELSE << Found(text) >>
-----------------------------------------------------------------------------
(* The parser *)

Node(keyword, text) == [is |-> keyword, text |-> text]
IsKeyword(node) == node.is \in {"AND", "OR"}

Inverted == [o \in {"=", "LIKE", "AND"} |->
                CASE o = "=" -> "!=" [] o = "LIKE" -> "NOT LIKE" [] o = "AND" -> "OR"]

Operator(of) == IF of \in {"name", "desc"} THEN "LIKE" ELSE "="

TermNode(c) ==
    Node("term",
         << Condition(c.of, IF c.not THEN Inverted[Operator(c.of)] ELSE Operator(c.of),
                      c.value) >>)

\* A range is two comparisons.  Negation inverts the keyword that joins them and
\* the operators one level down, where those of available_date are not.
RangeNode(c) ==
    LET keyword == IF c.not THEN Inverted["AND"] ELSE "AND"
        inverted == c.not /\ c.of = "baseline_date"
    IN Node(keyword,
            Join(keyword, << Condition(c.of, IF inverted THEN "<" ELSE ">=", c.value) >>,
                          << Condition(c.of, IF inverted THEN ">" ELSE "<=", c.value) >>))

ParensNode(node) == Node("parens", Parens(node.text))

\* Variant: the query of a reference is not isolated.
ExpandedBare(node) == Node("term", node.text)

\* The query of a reference takes its place.
Expanded(node) == ParensNode(node)

\* What becomes of a criterion, given what becomes of queries.  The operator of a
\* reference, and of parentheses, is not looked at.
Visit(c, tree) ==
    CASE c.of = "parens" -> ParensNode(tree[QueryIn(c)])
      [] c.of \in References -> Expanded(tree[QueryIn(c)])
      [] c.of \in Ranges -> RangeNode(c)
      [] OTHER -> TermNode(c)

\* The keyword whose children are being collected takes the next one too, if no
\* operator is written before it.
Keyword(current, op) ==
    IF op # "space" THEN op ELSE IF IsKeyword(current) THEN current.is ELSE "AND"

Chained(current, op, node) ==
    LET keyword == Keyword(current, op)
    IN Node(keyword, Join(keyword, current.text, node.text))

\* The nodes of the criteria of q, from the first up to each.
Combined(q, nodes) ==
    LET upTo[i \in DOMAIN q] ==
            IF i = 1 THEN nodes[1] ELSE Chained(upTo[i - 1], q[i].op, nodes[i])
    IN upTo

ParseTree[q \in Queries] ==
    IF q = Everything THEN Node("nil", NoText)
    ELSE Combined(q, [i \in DOMAIN q |-> Visit(q[i], ParseTree)])[Len(q)]

\* The filter of the query comes after the one every search has.
Where(q) == And(<< {row \in Rows : ~row.excluded} >>, ParseTree[q].text)

Finds(q, row) == row \in Found(Where(q))
-----------------------------------------------------------------------------
(* What queries say *)

Within(date, range) == date # Null /\ date >= range.from /\ date <= range.to

\* What a criterion is about, given what queries say.
About(c, row, says) ==
    \/ HasQuery(c) /\ says[QueryIn(c)][row]
    \/ c.of = "name" /\ \E k \in {"name", "key"} : c.value \in row.text[k]
    \/ c.of = "desc" /\ \E k \in {"name", "key", "desc"} : c.value \in row.text[k]
    \/ c.of = "id" /\ row.key = c.value
    \/ c.of = "group" /\ c.value \in row.groups
    \/ c.of = "snapshot" /\ c.value \in row.snapshots
    \/ c.of = "baseline_status" /\ row.status = c.value
    \/ c.of = "baseline_date" /\ Within(row.low, c.value)
    \/ c.of = "available_on" /\ row.release # Null
    \/ c.of = "available_date" /\ Within(row.release, c.value)

Meets(c, row, says) == c.not # About(c, row, says)

\* Positions at which an alternative starts.
Starts(q) == {i \in DOMAIN q : i = 1 \/ q[i].op = "OR"}

\* A space is an AND, which binds tighter than OR.
Says[q \in Queries] ==
    [row \in Rows |->
        q = Everything
        \/ \E i \in Starts(q) : \A j \in i .. Len(q) :
              i + 1 .. j \cap Starts(q) = {} => Meets(q[j], row, Says)]

\* Queries that ask for nothing, but refer to others that do not either.
Void[q \in Queries] == \A i \in DOMAIN q : HasQuery(q[i]) /\ Void[QueryIn(q[i])]

\* The features for which a term and its negation are opposites: what is
\* compared is known, and one of it.
Definite(c, row) ==
    \/ c.of = "name" /\ row.text["name"] = row.text["key"]
    \/ c.of = "desc" /\ row.text["name"] = row.text["key"]
                       /\ row.text["desc"] = row.text["key"]
    \/ c.of = "group" /\ \E g \in row.groups : row.groups = {g}
    \/ c.of = "snapshot" /\ \E s \in row.snapshots : row.snapshots = {s}
    \/ c.of = "baseline_status" /\ row.status # Null
    \/ c.of = "baseline_date" /\ row.low # Null
    \/ c.of \in {"available_on", "id"}

\* The criterion at i is joined as it reads: by an operator that is written, or, if
\* it is not, the last one written before is no OR.
JoinedAsRead(q, i) ==
    LET written == {j \in 2 .. i : q[j].op # "space"} IN
    written # {} => \E j \in written : (j = i \/ q[j].op = "AND") /\ \A k \in written : k <= j

\* The features for which a query is read as it is meant: every criterion is
\* joined as it reads, what stands next to an OR is not void, a term is negated
\* where that is definite, and a range on its own only.
Plain[q \in Queries] ==
    [row \in Rows |->
        \A i \in DOMAIN q :
            /\ JoinedAsRead(q, i)
            /\ q[i].not => Definite(q[i], row)
            /\ q[i].not /\ q[i].of = "baseline_date" => Len(q) = 1
            /\ HasQuery(q[i]) => /\ Plain[QueryIn(q[i])][row]
                                 /\ Void[QueryIn(q[i])] => Starts(q) = {1}]

\* No OR is outside of parentheses, written or by the negation of a range.
NoAlternatives(q) ==
    /\ Starts(q) \subseteq {1}
    /\ \A i \in DOMAIN q : ~(q[i].not /\ q[i].of \in Ranges)

\* A search finds the features its query says, with whatever references and
\* parentheses, and however AND and OR follow one another; features that are
\* excluded are not found, as long as no OR is outside of parentheses.
SearchFindsWhatQuerySays ==
    query # Null =>
    LET found == Found(Where(query)) IN
    \A row \in Rows :
        IF row.excluded
          THEN NoAlternatives(query) => row \notin found
          ELSE Plain[query][row] => (row \in found <=> Says[query][row])

\* Expectation that the code does not meet: a negated term finds no feature
\* that the term finds (antlr/FeatureSearch.md: "search for features not matching
\* that criterion").
NegationExcludes ==
    query # Null /\ Len(query) = 1 /\ query[1].not =>
        LET opposite == << [query[1] EXCEPT !.not = FALSE] >>
        IN \A row \in Rows : ~(Finds(query, row) /\ Finds(opposite, row))

\* Expectation that the code does not meet: an excluded feature is never found.
ExcludedAreHidden ==
    query # Null => \A row \in Rows : row.excluded => ~Finds(query, row)

SearchSpec == SearchInit /\ [][SearchNext]_query
=============================================================================
