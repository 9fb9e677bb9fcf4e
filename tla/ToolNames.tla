----------------------------- MODULE ToolNames ------------------------------
(***************************************************************************)
(* The tools of a request and the names they travel under                  *)
(* (codex_tools.go).  The client groups tools in namespaces and declares    *)
(* some of them inside its input; upstreams know one flat list of names.    *)
(* A name is a sequence of segments, so that `n__a' is <<"n", "a">> and     *)
(* the flat name of {n, a} can be the name of a tool outside any namespace. *)
(* Names over 64 bytes, which end in a hash, are left out.                  *)
(***************************************************************************)
EXTENDS Sequences, SequencesExt

\* codexToolIdentity and its kind: ns is <<>> for a tool outside namespaces.
Tool(ns, name, custom) == [ns |-> ns, name |-> name, custom |-> custom]

flattenNamespaceToolName(t) == t.ns \o t.name

SameIdentity(t, u) == t.ns = u.ns /\ t.name = u.name

\* The tools declared inside the input, in order.
collectCarriedTools(input) ==
  FlattenSeq([i \in DOMAIN input |->
                IF input[i].kind = "carrier" THEN input[i].tools ELSE <<>>])

\* One carried tool joins the list.  Outside a namespace a tool whose name is
\* taken is dropped in silence; inside one it makes the request fail, also when
\* it is the very tool that took the name.
AddCarried(ctx, t) ==
  LET flat  == flattenNamespaceToolName(t)
      taken == \E u \in ToSet(ctx.tools) : flattenNamespaceToolName(u) = flat
  IN  IF taken
      THEN [ctx EXCEPT !.clash = @ \/ t.ns # <<>>]
      ELSE [ctx EXCEPT !.tools = Append(@, t),
                       !.restore = IF t.ns = <<>> THEN @ ELSE @ \cup {t}]

\* tools: what will be offered, under flat names; restore: the tools whose name
\* was flattened, and must be unflattened on the way back.
buildCodexToolContext(top, input) ==
  FoldLeft(AddCarried, [tools |-> top, restore |-> {}, clash |-> FALSE],
           collectCarriedTools(input))

\* A past call inside the input, given the name its tool is offered under.
rewriteNamespaceCall(restore, item) ==
  IF item.kind = "call" /\ \E t \in restore : SameIdentity(t, item.tool)
  THEN [item EXCEPT !.tool.ns = <<>>, !.tool.name = flattenNamespaceToolName(item.tool)]
  ELSE item

\* The input that the converters read.  Without a carrier it is untouched.
applyCodexToolContext(ctx, input) ==
  IF collectCarriedTools(input) = <<>> THEN input
  ELSE FlattenSeq([i \in DOMAIN input |->
         IF input[i].kind = "carrier" THEN <<>>
         ELSE <<rewriteNamespaceCall(ctx.restore, input[i])>>])

\* tool_choice: "auto", "none", a whole "namespace", or one tool.
neutralizeNamespaceToolChoice(ctx, input, choice) ==
  IF collectCarriedTools(input) = <<>> THEN choice
  ELSE IF choice.kind = "namespace" THEN [kind |-> "auto"]
  ELSE IF choice.kind = "tool" /\ \E t \in ctx.restore : SameIdentity(t, choice.tool)
       THEN [choice EXCEPT !.tool.ns = <<>>,
                           !.tool.name = flattenNamespaceToolName(choice.tool)]
       ELSE choice

\* The names offered whose calls come back as custom_tool_call.
collectCustomToolNames(ctx) ==
  {flattenNamespaceToolName(t) : t \in {u \in ToSet(ctx.tools) : u.custom}}

\* Mutant of restoreNamespaceNames: the kind is decided on the restored name.
restoreThenCustom(ctx, flat) ==
  LET known == {t \in ctx.restore : flattenNamespaceToolName(t) = flat}
      back  == IF known = {} THEN Tool(<<>>, flat, FALSE) ELSE CHOOSE t \in known : TRUE
  IN  [back EXCEPT !.custom = back.name \in collectCustomToolNames(ctx)]

\* What the client is told it was asked to run, from the name the model used.
\* The kind is decided on the flat name, before the name is restored.
restoreNamespaceNames(ctx, flat) ==
  LET known == {t \in ctx.restore : flattenNamespaceToolName(t) = flat}
      back  == IF known = {} THEN Tool(<<>>, flat, FALSE) ELSE CHOOSE t \in known : TRUE
  IN  [back EXCEPT !.custom = flat \in collectCustomToolNames(ctx)]
=============================================================================
