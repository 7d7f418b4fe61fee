--------------------------- MODULE MCPluginImport ---------------------------
(***************************************************************************)
(* Instances of PluginImport: two node maps whose closures overlap, and a  *)
(* loose A3 or A4 package imported beside them.                            *)
(***************************************************************************)
EXTENDS PluginImport, TLC

CONSTANTS mapA, mapB, loose, type,
          text, textOld, chart,     \* textOld is other content under the id of text
          intent, scene,
          intentNew                 \* other content under the id of intent

\* mapA carries two elements and the type of the first; mapB shares text and
\* offers another type that registers one capability of intent's as well.
Closures == (mapA :> <<chart, text>>) @@ (mapB :> <<text>>)
Types == (mapA :> <<intent>>) @@ (mapB :> <<scene>>)

LooseClosures == Closures @@ (loose :> <<textOld>>) @@ (type :> <<>>)
LooseTypes == Types @@ (loose :> <<>>) @@ (type :> <<intentNew>>)

Ids == (text :> "text") @@ (textOld :> "text") @@ (chart :> "chart")
       @@ (intent :> "intent") @@ (intentNew :> "intent") @@ (scene :> "scene")
OwnTags == (text :> "x-text") @@ (textOld :> "x-text") @@ (chart :> "x-chart")
Refs == (intent :> {text}) @@ (intentNew :> {}) @@ (scene :> {text})
Provides == (intent :> {"command", "view"}) @@ (intentNew :> {"command"}) @@ (scene :> {"view"})
=============================================================================
