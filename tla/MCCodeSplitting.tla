-------------------------- MODULE MCCodeSplitting --------------------------
(* Projects for model-checking CodeSplitting: modules 1 and 2 are the user's entries. *)
EXTENDS CodeSplitting

MCModules == 1..5

Project(static, dynamic, options) ==
    [user |-> {1, 2}, static |-> static, dynamic |-> dynamic \cup {<<1, 3>>}] @@ options

\* Every module exports something or has side effects: it would not be included otherwise.
Options(exporting, effects, strict, sealed, avoid, merge) ==
    [exporting |-> exporting, effects |-> effects, strict |-> strict, sealed |-> sealed,
     avoid |-> avoid, merge |-> merge]

\* Modules 3 and 4 are imported dynamically, 5 is shared.
StaticPairs == {<<1, 3>>, <<1, 5>>, <<2, 5>>, <<3, 4>>, <<3, 5>>, <<4, 5>>, <<5, 4>>}
DynamicPairs == {<<2, 3>>, <<1, 4>>, <<4, 3>>}

\* No entry of the user's is imported; or the first one is, by the module it imports
\* dynamically, and the second one has no side effects that could leak to its page.
MCProjects ==
    {Project(static, dynamic, options) :
        static \in SUBSET StaticPairs,
        dynamic \in SUBSET DynamicPairs,
        options \in {Options(1..5, {1, 2, 3}, {}, {}, TRUE, TRUE),
                     Options(1..4, {1, 3, 5}, {}, {}, FALSE, TRUE),
                     Options({1, 2, 3, 5}, {1, 3, 4}, {1}, {3}, TRUE, TRUE),
                     Options({1, 2, 3, 5}, {1, 3, 4}, {1}, {}, TRUE, FALSE)}}
    \cup
    {Project(static \cup {<<3, 1>>}, dynamic, options) :
        static \in SUBSET StaticPairs,
        dynamic \in SUBSET DynamicPairs,
        options \in {Options(1..5, {1, 3}, {}, {}, TRUE, TRUE),
                     Options(1..5, {1, 3}, {1}, {3}, FALSE, TRUE)}}

\* The first entry imports the second.
ImportedEntry ==
    {Project(static \cup {<<1, 2>>}, dynamic, Options(1..5, {1}, {}, {}, TRUE, TRUE)) :
        static \in SUBSET {<<1, 5>>, <<2, 5>>, <<3, 5>>, <<5, 4>>},
        dynamic \in SUBSET {<<2, 3>>, <<2, 4>>}}
=============================================================================
