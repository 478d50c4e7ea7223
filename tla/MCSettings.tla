----------------------------- MODULE MCSettings -----------------------------
(* Constants for model checking SettingsService: three settings, one of which *)
(* is the blank state, a default drawn at random, and a rejected document.    *)
EXTENDS SettingsService

CONSTANTS net, loop, c1, c2

MCValues == {"blank", "a", "b"}
MCDocument == [v \in MCValues |-> <<"doc", v>>]
MCEmptyDoc == <<"doc", "empty">>
MCRejected == {<<"doc", "bad">>}
MCDocs == {MCDocument[v] : v \in MCValues} \cup {MCEmptyDoc} \cup MCRejected

\* A document without the field leaves its value to the random default.
MCUpdated == [d \in MCDocs |-> [v \in MCValues |->
                 IF d = MCEmptyDoc \/ d \in MCRejected
                   THEN {"a", "b"}
                   ELSE {w \in MCValues : MCDocument[w] = d}]]

MCFlash == {Missing, Partial} \cup {MCDocument[v] : v \in MCValues}
=============================================================================
