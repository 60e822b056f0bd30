------------------------------ MODULE SampleTrees ------------------------------
(* Declared trees for the small instances: a View root whose children are drawn from *)
(* keys a to d, two kinds and a few properties.                                       *)
EXTENDS ReconciliationValidation

Node(kind, key, properties, children) ==
  [kind |-> kind, key |-> key, properties |-> properties, children |-> children]

Plain(kind, key) == Node(kind, key, <<>>, <<>>)
Root(children) == Node("View", NoKey, <<>>, children)
Views(keys) == Root([i \in DOMAIN keys |-> Plain("View", keys[i])])

Hidden == "2" :> Value("bool", "true", 0, TRUE)
Shown == "2" :> Value("bool", "false", 0, TRUE)

\* Insertions, removals, replacements, moves and reorders of up to four keyed children.
KeyedLists ==
  {Views(keys) : keys \in {<<>>, <<"a">>, <<"b">>, <<"a", "b">>, <<"b", "a">>, <<"a", "c">>,
                           <<"b", "c">>, <<"a", "b", "c">>, <<"c", "a", "b">>,
                           <<"c", "b", "a">>, <<"b", "c", "a">>, <<"a", "c", "b">>,
                           <<"d", "c", "b", "a">>, <<"b", "d", "a", "c">>}}

\* Kinds, unkeyed children, properties and nested lists.
Variants ==
  {Root(<<Plain("Text", "a"), Plain("View", "b")>>),
   Root(<<Plain("Text", "a"), Plain("Text", "b")>>),
   Root(<<Plain("Text", "b"), Plain("View", "a")>>),
   Root(<<Plain("View", NoKey), Plain("View", "a")>>),
   Root(<<Plain("Text", NoKey), Plain("View", "a")>>),
   Root(<<Plain("View", NoKey), Plain("View", "b")>>),
   Plain("Text", NoKey),
   Node("View", NoKey, Hidden, <<>>),
   Node("View", NoKey, Shown, <<Node("View", "a", Hidden, <<>>)>>),
   Root(<<Node("View", "a", Shown, <<Plain("View", "a"), Plain("Text", "b")>>)>>),
   Root(<<Node("View", "a", <<>>, <<Plain("Text", "b")>>), Plain("View", "b")>>),
   Root(<<Plain("View", "b"), Node("View", "a", Hidden, <<Plain("Text", "b")>>)>>),
   Root(<<Node("View", "a", <<>>, <<Views(<<"a", "b">>)>>)>>),
   Root(<<Node("View", "a", <<>>, <<Views(<<"b", "a">>)>>), Plain("View", "c")>>)}

WideCandidates == KeyedLists \cup Variants

Opacity == "4" :> Value("f64", "0.5", 0, TRUE)
Content(bytes) == "1" :> Value("string", "text", bytes, TRUE)

\* Unkeyed children that change place.
Unkeyed ==
  {Root(<<Plain("View", "a"), Plain("View", NoKey)>>),
   Root(<<Plain("View", NoKey), Plain("View", NoKey), Plain("Text", "b")>>)}

Styled == Node("View", NoKey, Hidden @@ Opacity, <<Node("Text", "a", Content(3), <<>>)>>)
Nested == Root(<<Node("View", "a", <<>>, <<Plain("Text", NoKey), Plain("Text", NoKey)>>),
                 Node("View", "b", <<>>, <<Plain("Text", NoKey)>>)>>)

\* Trees that are valid under some limits, and trees that are valid under none.
Irregular ==
  {Styled, Nested,
   Root(<<Node("Text", "a", <<>>, <<Plain("View", "b")>>)>>),
   Root(<<Plain("View", "a"), Plain("View", "b"), Plain("Text", "a")>>),
   Root(<<Node("View", "b", <<>>, <<Plain("View", "a"), Plain("View", "a")>>)>>),
   Root(<<Plain("Image", "a")>>),
   Root(<<Plain("View", "b"), Plain("", "a")>>),
   Node("View", NoKey, "1" :> Value("string", "text", 1, TRUE), <<>>),
   Node("View", NoKey, "2" :> Value("i64", "7", 0, TRUE), <<>>),
   Node("View", NoKey, "3" :> Value("i64", "2^63", 0, FALSE), <<>>),
   Node("View", NoKey, "0" :> Value("bool", "true", 0, TRUE), <<>>),
   Root(<<Node("Text", "a", "4" :> Value("date", "today", 0, TRUE), <<>>)>>)}
=============================================================================
