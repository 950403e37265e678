--------------------------- MODULE MCLocaleBuild ---------------------------
(* Values for the constants of LocaleBuild.                                   *)
EXTENDS LocaleBuild

Leaf(kind, shape, ph) == [kind |-> kind, shape |-> shape, ph |-> ph]
Old == [by |-> "old", ph |-> None]
Leak == [by |-> "leak", ph |-> None]
Same(l) == SourceText(l)

\* Three texts, two of them the same, between leaves of every policy.
MCSource == <<Leaf("parity", "p", None), Leaf("text", "s", None), Leaf("placeholder", "q", "a"),
              Leaf("text", "t", None), Leaf("preserve", "r", None), Leaf("text", "s", None),
              Leaf("empty", "e", None)>>

\* Nearly nothing yet; or texts untranslated, leaked and translated.
MCDocs ==
  {<<None, None, None, Old, None, None, None>>,
   <<Old, Same(2), Leak, Leak, None, Old, None>>}

\* No cache yet, or one that a run which wrote nothing has left.
Written == [by |-> "machine", ph |-> None]
MCFiles == {[epoch |-> 0, texts |-> NoTexts],
            [epoch |-> 1, texts |-> [NoTexts EXCEPT ![<<1, "s">>] = Written]]}
NoFiles == {[epoch |-> 0, texts |-> NoTexts]}

\* Two texts that differ only by the name of their placeholder.
TwinSource == <<Leaf("text", "s", "a"), Leaf("text", "s", "b")>>
TwinDocs == {[l \in 1 .. 2 |-> None]}

=============================================================================
