---------------------------- MODULE MCLocaleEdits ----------------------------
(* Values for the constants of LocaleEdits.                                   *)
EXTENDS LocaleEdits

Title == <<"app", "title">>
Home == <<"seo", "routes", "home">>
Tag == <<"seo", "tag">>
Seo == <<"seo">>

MCKeys == {Title, Home, Tag, Seo}
Roots == {<<"seo", "routes">>}

(* t(`seo.routes.${r}`) with and without a literal key next to it, a module   *)
(* without dynamic keys, one that uses a node over leaves, and an empty scan  *)
MCScans ==
    {[resolved |-> {Title}, uncertain |-> Roots],
     [resolved |-> {Title, Tag}, uncertain |-> Roots],
     [resolved |-> {Home}, uncertain |-> {}],
     [resolved |-> {Title, Seo}, uncertain |-> {}],
     [resolved |-> {}, uncertain |-> {}]}

MCPolicies ==
    {[copy |-> {<<"app">>}, uncertain |-> {}, protect |-> TRUE],
     [copy |-> {}, uncertain |-> {Seo}, protect |-> TRUE],
     [copy |-> {}, uncertain |-> Roots, protect |-> FALSE]}

(* a fresh project, and one with translations, a placeholder and a leak       *)
Leaves == MCKeys \ {Seo}
MCFirstDocs ==
    {[l \in Locales |-> IF l = Source THEN [k \in {Title} |-> "copy"] ELSE << >>],
     [l \in Locales |->
        IF l = Source THEN [k \in Leaves |-> "copy"]
        ELSE [k \in Leaves |-> IF k = Title THEN "leak" ELSE IF k = Tag THEN "todo" ELSE "own"]]}
==============================================================================
