------------------------------ MODULE MCBinder ------------------------------
(***************************************************************************)
(* Two binds over two tables; one of the two spellings of the first table   *)
(* is not the stored one.                                                   *)
(***************************************************************************)
EXTENDS Binder

CONSTANTS tabA, tabB, A, aUpper, B, a, b, c, x,
          pExtend, pJoin, pSelf, pUnion, pUnknown, rJoin, rSelf, rUnion

MCName     == {a, b, c, x}
MCTable    == {tabA, tabB}
MCCreated  == {tabA}
MCColumns  == [tb \in MCTable |-> IF tb = tabA THEN <<a, b>> ELSE <<c>>]
MCSpelling == {A, aUpper, B}
MCTableOf  == [s \in MCSpelling |-> IF s = B THEN tabB ELSE tabA]
MCExact    == {A, B}

Ref(n)     == [ref |-> n, name |-> None, star |-> FALSE]
As(n, out) == [ref |-> n, name |-> out, star |-> FALSE]
Star       == [ref |-> None, name |-> None, star |-> TRUE]
Op(op, items)       == [op |-> op, items |-> items, subs |-> <<>>]
Sub(op, items, sub) == [op |-> op, items |-> items, subs |-> <<sub>>]

MCWhole == {pExtend, pJoin, pSelf, pUnion, pUnknown}
MCPipe  == MCWhole \cup {rJoin, rSelf, rUnion}
MCSource ==
  [p \in MCPipe |->
     CASE p \in {pExtend, pJoin, pSelf, rSelf} -> A
       [] p = pUnion -> aUpper
       [] p \in {rJoin, rUnion} -> B
       [] p = pUnknown -> None]

MCStages ==
  [p \in MCPipe |->
     CASE p = pExtend ->  \* where a | extend x = a | where x, a, b and an unknown c
            <<Op("pass", <<Ref(a)>>), Op("extend", <<As(a, x)>>), Op("pass", <<Ref(x), Ref(a), Ref(b), Ref(c)>>)>>
       [] p = pJoin ->    \* join (B | where c) on a | project *, c, a
            <<Sub("join", <<Ref(a)>>, rJoin), Op("project", <<Star, Ref(c), Ref(a)>>)>>
       [] p = pSelf ->    \* the self-join, between two mentions of a; x is unknown
            <<Op("pass", <<Ref(a)>>), Sub("join", <<>>, rSelf), Op("pass", <<Ref(a), Ref(b), Ref(x)>>)>>
       [] p = pUnion ->   \* the other spelling | union (B) | summarize x = .. by a | where x, a
            <<Sub("union", <<>>, rUnion), Op("aggregate", <<As(None, x), Ref(a)>>),
              Op("pass", <<Ref(x), Ref(a)>>)>>
       [] p = rJoin -> <<Op("pass", <<Ref(c)>>)>>
       [] p \in {rSelf, rUnion} -> <<>>
       [] p = pUnknown -> \* a source without a schema: project a, b | where a, b | extend x = a | where c
            <<Op("project", <<Ref(a), Ref(b)>>), Op("pass", <<Ref(a), Ref(b)>>),
              Op("extend", <<As(a, x)>>), Op("pass", <<Ref(c)>>)>>]

=============================================================================
