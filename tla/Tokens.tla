------------------------------- MODULE Tokens -------------------------------
(***************************************************************************)
(* The vocabulary of the lexer and the parser (internal/frontend/token):   *)
(* a token is its spelling, and the classes below are the ranges and       *)
(* switches of the code that tell spellings apart.  Identifiers and        *)
(* literals are the constants Names and Literals.                          *)
(***************************************************************************)
EXTENDS Naturals, Sequences, FiniteSets

CONSTANTS Names,      \* spellings that lex as IDENT
          Literals,   \* spellings that lex as INT, REAL, STRING, TIMESPAN, ...
          Integrals,  \* those of them that lex as INT
          Strings     \* and as STRING

Equality   == {"==", "!="}
Relational == {"<", ">", "<=", ">="}
Additive   == {"+", "-"}
Multiply   == {"*", "/", "%"}
InOperators == {"in", "in~", "!in", "!in~", "has_any", "has_all"}
Betweens    == {"between", "!between"}

\* The operators of isStringOpToken.
StringOperators ==
    {":", "=~", "!~", "matches regex", "notlike", "notlikecs", "like", "likecs"}
    \cup {"has", "has_cs", "hasprefix", "hasprefix_cs", "hassuffix", "hassuffix_cs"}
    \cup {"contains", "contains_cs", "startswith", "startswith_cs", "endswith", "endswith_cs"}
    \cup {"!has", "!has_cs", "!hasprefix", "!hasprefix_cs", "!hassuffix", "!hassuffix_cs"}
    \cup {"!contains", "!contains_cs", "!startswith", "!startswith_cs", "!endswith", "!endswith_cs"}

OperatorKeywords ==
    {"as", "by", "consume", "count", "distinct", "evaluate", "extend", "facet", "filter",
     "find", "fork", "getschema", "invoke", "assert-schema", "execute-and-cache",
     "graph-match", "graph-mark-components", "graph-shortest-paths", "graph-to-table",
     "graph-where-edges", "graph-where-nodes", "__partitionby",
     "join", "macro-expand", "limit", "lookup", "make-graph", "make-series", "mv-apply",
     "mv-expand", "order", "parse", "parse-kv", "parse-where", "partition", "print",
     "project", "project-away", "project-keep", "project-rename", "project-reorder",
     "project-smart", "range", "reduce", "render", "sample", "sample-distinct", "scan",
     "search", "serialize", "sort", "summarize", "take", "top", "top-hitters",
     "top-nested", "union", "where"}

StatementKeywords == {"alias", "declare", "entity_group", "let", "pattern", "restrict", "set"}

ClauseKeywords ==
    {"access", "asc", "between", "database", "datascope", "datatable", "default", "desc", "edges",
     "externaldata", "first", "from", "hotcache", "in", "kind", "last", "materialize", "nodes",
     "nooptimization", "nulls", "of", "on", "partitionedby", "step", "to", "toscalar", "totable",
     "view", "with", "with_node_id", "withsource",
     "and", "not", "or", "typeof", "pack", "cluster", "null"}

TypeKeywords == {"bool", "datetime", "decimal", "dynamic", "guid", "int", "long", "real",
                 "string", "timespan"}

\* keywordBeg .. keywordEnd; the string, list and range operators are keywords too,
\* except the three that are punctuation.
Keywords == OperatorKeywords \cup StatementKeywords \cup ClauseKeywords \cup TypeKeywords
            \cup InOperators \cup Betweens \cup (StringOperators \ {":", "=~", "!~"})

\* Spellings accepted where the grammar wants a name.
NameLike == Names \cup Keywords

\* isPipelineOperatorToken: the operators that are no function or column name.
PipelineStarters ==
    {"summarize", "extend", "sort", "order", "take", "limit", "top", "distinct",
     "mv-expand", "mv-apply", "evaluate", "render", "consume", "getschema", "serialize",
     "fork", "facet", "reduce", "partition", "top-nested", "top-hitters", "scan",
     "sample-distinct"}

\* isWildcardSegment.
WildcardSegments == Names \cup Keywords \cup {"*"} \cup Integrals

EndOfOperator == {"|", ";", "EOF"}
EndOfStatement == {";", "EOF"}
=============================================================================
