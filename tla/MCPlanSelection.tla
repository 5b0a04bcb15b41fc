--------------------------- MODULE MCPlanSelection ---------------------------
(***************************************************************************)
(* An instance of PlanSelection for TLC: two builds of a game as APKs,     *)
(* splits and bundles, and what else players keep beside them.             *)
(***************************************************************************)
EXTENDS PlanSelection

\* Contents: t and u of the tree, l and m the two builds of the library, v its
\* 32-bit build, s and z two patches of one size, w and k two whole files.
MCSize == [c \in {"t", "u", "l", "m", "v", "s", "z", "w", "k"} |->
             IF c \in {"s", "z"} THEN 1 ELSE 2]

File(kind, package, members) ==
  [kind |-> kind, package |-> package, members |-> members, known |-> TRUE,
   obb |-> FALSE, broken |-> FALSE, split |-> "", inner |-> {},
   name |-> kind, content |-> "w"]
Patch(c) == [File("other", Nothing, {}) EXCEPT !.name = "patch", !.content = c]
Bundle(inner) == [File("bundle", Nothing, {}) EXCEPT !.inner = inner]

One == <<"a/x", "t">>
Lib == <<"lib64", "l">>
MCSource == <<
  File("apk", "game", {One, Lib}),
  [File("apk", "game", {<<"a/y", "u">>}) EXCEPT !.split = "data"],
  Bundle({13, 14}),
  File("apk", "game", {One, <<"lib64", "m">>, <<"lib", "l">>}),
  File("apk", "other", {One, <<"lib32", "v">>}),
  Patch("s"), Patch("z"),
  [File("archive", Nothing, {<<"a/Y", "u">>, <<"patch", "s">>})
     EXCEPT !.obb = TRUE],
  [File("apk", "game", {One, <<"A/y", "u">>, Lib}) EXCEPT !.known = FALSE],
  Bundle({13, 15}),
  [File("archive", Nothing, {}) EXCEPT !.broken = TRUE],
  [File("apk", Nothing,
        {One, <<"lib64", "w">>, <<"lib32", "v">>, <<"lib", "l">>})
     EXCEPT !.content = "k"],
  File("apk", "game", {One, Lib}),
  [File("apk", "game", {<<"a/y", "u">>}) EXCEPT !.split = "data"],
  File("apk", "other", {<<"a/y", "u">>})>>

MCFold == [n \in {"a", "A", "a/x", "a/y", "a/Y", "A/y", "lib64", "lib32", "lib",
                  "patch", "apk", "archive", "bundle", "other", "libgame",
                  "game.apk", "b/y"} |->
             IF n = "A" THEN "a" ELSE IF n \in {"a/Y", "A/y"} THEN "a/y" ELSE n]
MCDown == [n \in DOMAIN MCFold |->
             {n} \cup IF n = "A/y" THEN {"A"}
                      ELSE IF n \in {"a/x", "a/y", "a/Y"} THEN {"a"} ELSE {}]

\* ABI 1 is arm64, 2 is arm.
Anywhere(s) == [abi \in {1, 2} |-> s]
Into(d) == Anywhere([n \in DOMAIN MCFold |-> d])

TreeRule == [id |-> "tree", kind |-> "entries", scopes |-> {"apk", "bundle"},
  patterns |-> Anywhere(<<{"a/x"}, {"a/x", "a/y", "a/Y", "A/y", "patch"}>>),
  valid |-> Anywhere({}), required |-> TRUE, counts |-> 1 .. 2, split |-> "",
  dest |-> Anywhere([n \in DOMAIN MCFold |->
                      IF n = "patch" THEN Nothing ELSE n]),
  committed |-> TRUE]
LibRule == [id |-> "lib", kind |-> "entry", scopes |-> {"apk"},
  patterns |-> <<<<{"lib64"}, {"lib"}>>, <<{"lib32"}, {"lib"}>>>>,
  valid |-> <<{"l", "m"}, {"v"}>>, required |-> TRUE,
  counts |-> {}, split |-> "", dest |-> Into("libgame"), committed |-> TRUE]
PatchRule == [id |-> "patch", kind |-> "entry_or_file", scopes |-> {"bundle"},
  patterns |-> Anywhere(<<{"patch"}>>), valid |-> Anywhere({"s", "z"}),
  required |-> FALSE, counts |-> {}, split |-> "", dest |-> Into("b/y"),
  committed |-> TRUE]
ApkRule == [id |-> "apk", kind |-> "container", scopes |-> {"apk"},
  patterns |-> Anywhere(<<{"apk"}>>), valid |-> Anywhere({"w", "k"}),
  required |-> FALSE, counts |-> {}, split |-> "", dest |-> Into("game.apk"),
  committed |-> TRUE]
\* Writes where the tree does, or outside the recipe's roots.
ObbRule == [id |-> "obb", kind |-> "file", scopes |-> {"apk"},
  patterns |-> Anywhere(<<{"archive"}>>), valid |-> Anywhere({"w"}),
  required |-> FALSE, counts |-> {}, split |-> "", dest |-> Into("a/x"),
  committed |-> TRUE]

Recipe(rules, packages, prefer, max) ==
  [rules |-> rules, packages |-> packages, prefer |-> prefer, sniff |-> prefer,
   max |-> max]
MCRecipes == {
  Recipe(<<TreeRule, LibRule>>, {}, TRUE, 3),
  Recipe(<<TreeRule, LibRule, PatchRule>>, {"game"}, FALSE, 2),
  Recipe(<<ApkRule, TreeRule, ObbRule,
           [PatchRule EXCEPT !.kind = "file", !.committed = FALSE]>>,
         {"game"}, TRUE, 3)}
=============================================================================
