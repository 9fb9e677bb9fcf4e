-------------------------- MODULE MCConversation ---------------------------
(***************************************************************************)
(* An instance of Conversation for TLC: one tool outside namespaces, one    *)
(* custom tool in the namespace n, and one whose own name is the flat name  *)
(* of that one.                                                             *)
(***************************************************************************)
EXTENDS Conversation, TLC

Plain      == Tool(<<>>, <<"a">>, FALSE)
Grouped    == Tool(<<"n">>, <<"a">>, TRUE)
Lookalike  == Tool(<<>>, <<"n", "a">>, FALSE)

TwoModels  == {[route |-> "messages", images |-> TRUE], [route |-> "chat", images |-> TRUE]}
MCTops     == {<<Plain>>}
MCGroups   == {<<Grouped>>, <<Lookalike, Grouped>>, <<Grouped, Lookalike>>}
MCImages   == {"none", "inline", "remote"}

\* Stamps are only compared, so that states whose stamps differ by a renaming
\* are one; a body follows from the rest of its state.
FirstAt(n) == Min({i \in DOMAIN history : history[i].of = n})
Renamed    == [i \in DOMAIN history |-> [history[i] EXCEPT !.of = FirstAt(@)]]
View       == <<model, top, Renamed, phase, ctx.choice, body.omit, body.budget, corrected>>
=============================================================================
