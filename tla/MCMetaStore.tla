---------------------------- MODULE MCMetaStore -----------------------------
(***************************************************************************)
(* MetaStore with contents around the limit of a page.                     *)
(***************************************************************************)
EXTENDS MetaStore

Holding(s, c, a, p) ==
    [servers |-> s, clusters |-> c, apis |-> a, routings |-> {}, plugins |-> p]

\* Nothing at all; objects that fill a page, or not, with binds and applied
\* plugins; ids up to the value of the id key.
MCContents ==
    {[objs |-> Holding({}, {}, {}, {}), binds |-> {}, applied |-> {},
      id |-> Absent],
     [objs |-> Holding({1, 2, 3}, {4}, {}, {}),
      binds |-> {4} \X {1, 2, 3}, applied |-> {}, id |-> 4],
     [objs |-> Holding({1}, {2}, {}, {3, 4}),
      binds |-> {<<2, 1>>}, applied |-> {3}, id |-> 4],
     [objs |-> Holding({}, {}, {1}, {2, 3, 4}), binds |-> {},
      applied |-> {2, 3}, id |-> 4]}
=============================================================================
