---------------------------- MODULE PlanSelection ----------------------------
(***************************************************************************)
(* Which of the player's files make the payload (nxextract.py): the search *)
(* directories, the classification by content, bundles and APK sets as     *)
(* candidate groups, a plan per group and ABI, and the choice among them.  *)
(* A pattern is the set of names it matches, a template the function from  *)
(* a name to its destination.                                              *)
(*                                                                         *)
(* A list whose order decides something (directories, patterns, rules,     *)
(* ABIs) keeps it.  The order of any other (files of a listing, bundles,   *)
(* groups, candidates of one content) is left open: sets.                  *)
(***************************************************************************)
EXTENDS Naturals, FiniteSets

CONSTANTS
  Files,     \* what the player may own
  Source,    \* and the APKs inside bundles: what is in each
  NumDirs,   \* input.search_dirs, in their order
  Recipes,
  ABIs,      \* abi_order, numbered in it
  Size,      \* of a content; size and CRC together identify one
  Fold,      \* portable_path_key
  Down,      \* the paths down to a member, its own name included
  Nothing,   \* no package, no destination, nothing selected yet
  MaxPut     \* files the player puts somewhere

FileNames == UNION {{Source[f].name} \cup {m[1] : m \in Source[f].members} :
                  f \in DOMAIN Source}

\* A file with a manifest is an APK, and rules have ids of their own.
ASSUME SelectionAssumption ==
  /\ Files \subseteq DOMAIN Source
  /\ NumDirs \in Nat \ {0} /\ MaxPut \in Nat /\ ABIs \subseteq Nat
  /\ \A f \in DOMAIN Source :
       /\ Source[f].inner \subseteq DOMAIN Source
       /\ Source[f].kind # "apk" => Source[f].package = Nothing
  /\ \A r \in Recipes :
       /\ r.max \in Nat \ {0} /\ DOMAIN r.rules \subseteq Nat
       /\ \A m, n \in DOMAIN r.rules :
            r.rules[m].id = r.rules[n].id => m = n
       /\ \A n \in DOMAIN r.rules : r.rules[n].kind \in
            {"entry", "file", "entry_or_file", "container", "entries"}

\* A rule for one file writes it to one place, whatever the file is called.
\* (A recipe may put {basename} into the template: then equal files of
\* different names would be different payloads.)
ASSUME DestinationAssumption ==
  \A r \in Recipes : \A n \in DOMAIN r.rules : \A abi \in ABIs :
    r.rules[n].kind # "entries" => \A x, y \in FileNames :
      r.rules[n].dest[abi][x] = r.rules[n].dest[abi][y]

VARIABLES
  step,      \* the function that is next
  files,     \* where the player has put what: pairs of directory and file
  input,     \* --input
  recipe,
  at,        \* the search directory it is at
  found,     \* the candidate files of discover_inputs
  left,      \* the bundles, then the attempts (group, ABI), still to come
  groups,    \* the candidate groups
  plans,     \* the plans so far
  outcome    \* the selected plan, or why there is none

selection == <<step, files, input, recipe, at, found, left, groups, plans,
               outcome>>

Paths == (1 .. NumDirs) \X Files
Of(p) == Source[p[2]]

SelectionInit ==
  /\ step = "player" /\ files = {} /\ input = {} /\ recipe \in Recipes
  /\ at = 1 /\ found = {} /\ left = {} /\ groups = {} /\ plans = {}
  /\ outcome = Nothing

Fail(why) == step' = "failed" /\ outcome' = why
Goes(next) == step' = next /\ UNCHANGED outcome
-----------------------------------------------------------------------------
(* The player                                                              *)

Put(p) ==
  /\ step = "player" /\ Cardinality(files) < MaxPut
  /\ files' = files \cup {p}
  /\ UNCHANGED <<step, input, recipe, at, found, left, groups, plans, outcome>>

Name(p) ==
  /\ step = "player" /\ p \in files /\ Cardinality(input) < 2
  /\ input' = input \cup {p}
  /\ UNCHANGED <<step, files, recipe, at, found, left, groups, plans, outcome>>
-----------------------------------------------------------------------------
(* discover_inputs                                                         *)

TooMany(paths) == Cardinality(paths) > recipe.max

\* The named files alone, each once, ...
TakeInput ==
  /\ step = "player" /\ input # {}
  /\ found' = input
  /\ IF TooMany(found') THEN Fail("source") ELSE Goes("companions")
  /\ UNCHANGED <<files, input, recipe, at, left, groups, plans>>

\* ... or the search directories; the first counts every file it holds.
Search ==
  /\ step = "player" /\ input = {}
  /\ Goes("scan")
  /\ UNCHANGED <<files, input, recipe, at, found, left, groups, plans>>

Scan ==
  /\ step = "scan"
  /\ LET here == {p \in files : /\ p[1] = at
                                /\ Of(p).known \/ (at = 1 /\ recipe.sniff)}
         last == at = NumDirs \/ (here # {} /\ recipe.prefer)
     IN  /\ found' = found \cup here
         /\ at' = IF last THEN 1 ELSE at + 1
         /\ IF ~last THEN Goes("scan")
            ELSE IF TooMany(found') THEN Fail("source") ELSE Goes("companions")
  /\ UNCHANGED <<files, input, recipe, left, groups, plans>>

\* zip_classification: what a file is depends on what is in it, and only where
\* it is no ZIP on its extension; an .obb is an archive and a file.
OfKind(k) == {p \in found : Of(p).kind = k}
Loose == {p \in found : \/ Of(p).kind = "archive" /\ Of(p).obb
                        \/ Of(p).kind = "other" /\ Of(p).known}
-----------------------------------------------------------------------------
(* build_candidate_groups                                                  *)

Archive(p, id, scope) == [path |-> p, id |-> id, scope |-> scope]
Companions == {Archive(p, p[2], "bundle") : p \in OfKind("archive")}
Group(kind, package, archives) ==
  [kind |-> kind, package |-> package, archives |-> archives \cup Companions,
   loose |-> Loose]

\* Archive._open refuses what it cannot read or would not extract; a bundle may
\* also be beyond the recipe's limits or the room on the card.
Broken(id) == Source[id].broken

OpenCompanions ==
  /\ step = "companions"
  /\ IF \E p \in OfKind("archive") : Broken(p[2])
     THEN Fail("source") /\ UNCHANGED left
     ELSE Goes("bundles") /\ left' = OfKind("bundle")
  /\ UNCHANGED <<files, input, recipe, at, found, groups, plans>>

\* The APKs of a bundle, all of one package, and the bundle itself.
PackagesIn(p) == {Source[a].package : a \in Of(p).inner}
BundleGroup(p, package) ==
  Group("bundle", package,
        {Archive(p, a, "apk") : a \in Of(p).inner}
        \cup {Archive(p, p[2], "bundle")})

\* Bug: the package is that of one APK.
OpenBundle_Mixed(p) ==
  /\ step = "bundles" /\ p \in left
  /\ \E package \in PackagesIn(p) :
       groups' = groups \cup {BundleGroup(p, package)}
  /\ left' = left \ {p}
  /\ UNCHANGED <<step, files, input, recipe, at, found, plans, outcome>>
OpenBundle(p) ==
  /\ step = "bundles" /\ p \in left
  /\ LET broken == Broken(p[2]) \/ \E a \in Of(p).inner : Broken(a)
         one(package) == package # Nothing /\ PackagesIn(p) = {package}
     IN  \/ /\ broken \/ ~\E package \in PackagesIn(p) : one(package)
            /\ Fail("source") /\ UNCHANGED <<left, groups>>
         \/ /\ ~broken
            /\ \E package \in PackagesIn(p) :
                 one(package) /\ groups' = groups \cup {BundleGroup(p, package)}
            /\ left' = left \ {p} /\ Goes("bundles")
  /\ UNCHANGED <<files, input, recipe, at, found, plans>>

\* The APKs beside them are sets, one per package and one without.
ApkSet(package) ==
  Group("apk-set", package,
        {Archive(p, p[2], "apk") :
           p \in {p \in OfKind("apk") : Of(p).package = package}})
ApkSets == {ApkSet(Of(p).package) : p \in OfKind("apk")}

\* input.packages refuses other applications, not those without a name.
Accepted(g) == \/ recipe.packages = {} \/ g.package = Nothing
               \/ g.package \in recipe.packages

GroupDirect ==
  /\ step = "bundles" /\ left = {}
  /\ LET all  == groups \cup ApkSets
         some == IF all = {} /\ (Companions # {} \/ Loose # {})
                 THEN {Group("companion", Nothing, {})} ELSE all
         kept == {g \in some : Accepted(g)}
     IN  IF (\E p \in OfKind("apk") : Broken(p[2])) \/ kept = {}
         THEN Fail("source") /\ UNCHANGED <<left, groups>>
         ELSE Goes("attempt") /\ groups' = kept /\ left' = kept \X ABIs
  /\ UNCHANGED <<files, input, recipe, at, found, plans>>
-----------------------------------------------------------------------------
(* build_plan_for: one group, one ABI                                      *)

Members(a) == {[in |-> a, name |-> m[1], content |-> m[2], as |-> "member"] :
                 m \in Source[a.id].members}
Whole(a) == [in |-> a, name |-> Source[a.id].name,
             content |-> Source[a.id].content, as |-> "file"]

Scoped(g, r) == {a \in g.archives : a.scope \in r.scopes}
Entries(g, r) == UNION {Members(a) : a \in Scoped(g, r)}

\* member_matches: by one pattern, by any.
Matching(es, r, abi, i) == {e \in es : e.name \in r.patterns[abi][i]}
Named(es, r, abi) == UNION {Matching(es, r, abi, i) : i \in DOMAIN r.patterns[abi]}

\* _candidate_loose and _candidate_containers.
LooseFiles(g) == {Whole(Archive(p, p[2], "file")) : p \in g.loose}
Containers(g, r) ==
  {Whole(a) : a \in {a \in Scoped(g, r) : Source[a.id].split = r.split}}

\* _assert_portable_selection: two members of one archive that a pattern selects
\* may not meet, in name or directory, on a card that folds case.
Meet(a, b) == \E x \in Down[a], y \in Down[b] : x # y /\ Fold[x] = Fold[y]
Collide(r, g, abi) ==
  \E i \in DOMAIN r.patterns[abi] :
    \E e, f \in Matching(Entries(g, r), r, abi, i) :
      e.in = f.in /\ Meet(e.name, f.name)

\* validate_member_candidate, validate_loose_candidate: size, CRC, magic, ELF
\* machine of the ABI, hash.
Valid(es, r, abi) == {e \in es : e.content \in r.valid[abi]}

\* The template of the rule; Nothing for a name without the prefix to strip.
Destination(r, e, abi) == r.dest[abi][e.name]

\* _under_any_commit: whether the rule writes below the recipe's roots.
UnderCommit(r) == r.committed

Item(r, e, abi) ==
  [rule |-> r.id, dest |-> Destination(r, e, abi), content |-> e.content,
   as |-> e.as, in |-> e.in]
Chosen(items) == [error |-> "none", items |-> items]
Refused(error) == [error |-> error, items |-> {}]

\* The candidates by the kind of the source.
MembersOf(r, g) ==
  IF r.kind \in {"entry", "entry_or_file"} THEN Entries(g, r) ELSE {}
FilesOf(r, g, abi) ==
  Named(IF r.kind = "container" THEN Containers(g, r)
        ELSE IF r.kind = "entry" THEN {} ELSE LooseFiles(g), r, abi)

\* The valid members of the first pattern that has one.
BestMembers_AnyPattern(r, g, abi) == Valid(Named(MembersOf(r, g), r, abi), r, abi)
BestMembers(r, g, abi) ==
  LET By(i) == Valid(Matching(MembersOf(r, g), r, abi, i), r, abi)
  IN  UNION {By(i) : i \in {i \in DOMAIN r.patterns[abi] :
               \A j \in DOMAIN r.patterns[abi] : j < i => By(j) = {}}}

\* What each _choose_ may come to.  One file: a member before a loose file; the
\* candidates may be several, their content only one.
ChooseOne(r, g, abi) ==
  LET members == BestMembers(r, g, abi)
      whole   == Valid(FilesOf(r, g, abi), r, abi)
      all     == members \cup whole
  IN  IF MembersOf(r, g) # {} /\ Collide(r, g, abi) THEN {Refused("source")}
      ELSE IF \E e, f \in all : e.content # f.content THEN {Refused("plan")}
      ELSE IF all = {} THEN {IF r.required THEN Refused("plan") ELSE Chosen({})}
      ELSE {Chosen({Item(r, e, abi)}) :
              e \in IF members # {} THEN members ELSE whole}

\* A tree: every match that keeps a name below the prefix, each destination
\* once, and the count the recipe asks for.
Tree(r, g, abi) == Named(Entries(g, r), r, abi)
Below(r, g, abi) == {e \in Tree(r, g, abi) : Destination(r, e, abi) # Nothing}
Places(r, g, abi) == {Destination(r, e, abi) : e \in Below(r, g, abi)}
Conflict(r, g, abi) ==
  \E e, f \in Below(r, g, abi) :
    /\ Fold[Destination(r, e, abi)] = Fold[Destination(r, f, abi)]
    /\ Destination(r, e, abi) # Destination(r, f, abi) \/ e.content # f.content
Takings(r, g, abi) ==
  LET one == {from \in [Places(r, g, abi) -> Below(r, g, abi)] :
                \A d \in DOMAIN from : Destination(r, from[d], abi) = d}
  IN  {{Item(r, from[d], abi) : d \in DOMAIN from} : from \in one}
ChooseMany(r, g, abi) ==
  IF Collide(r, g, abi) THEN {Refused("source")}
  ELSE IF Tree(r, g, abi) = {}
       THEN {IF r.required THEN Refused("plan") ELSE Chosen({})}
  ELSE IF \/ Conflict(r, g, abi)
          \/ Cardinality(Places(r, g, abi)) \notin r.counts
       THEN {Refused("plan")}
  ELSE {Chosen(items) : items \in Takings(r, g, abi)}

Choose(r, g, abi) ==
  IF r.kind = "entries" THEN ChooseMany(r, g, abi) ELSE ChooseOne(r, g, abi)

\* What all rules may come to, s[n] for the n-th.
Selections(rules, g, abi) ==
  LET may == UNION {{n} \X Choose(rules[n], g, abi) : n \in DOMAIN rules}
  IN  {s \in [DOMAIN rules -> {c[2] : c \in may}] :
         \A n \in DOMAIN rules : <<n, s[n]>> \in may}
Items(s) == UNION {s[n].items : n \in DOMAIN s}

\* What is wrong with the n-th: with itself, or with where it writes.
Keys(items) == {Fold[i.dest] : i \in items}
Trouble(rules, s, n) ==
  IF s[n].error # "none" THEN s[n].error
  ELSE IF s[n].items # {} /\ ~UnderCommit(rules[n]) THEN "recipe"
  ELSE IF \E m \in DOMAIN s :
            m < n /\ Keys(s[m].items) \cap Keys(s[n].items) # {} THEN "plan"
  ELSE "none"

\* The rules in their order: the first that fails says how.
Fails(rules, s, why) ==
  \E n \in DOMAIN s :
    /\ Trouble(rules, s, n) = why
    /\ \A m \in DOMAIN s : m < n => Trouble(rules, s, m) = "none"
Sound(rules, s) == \A n \in DOMAIN s : Trouble(rules, s, n) = "none"
-----------------------------------------------------------------------------
(* resolve_plan                                                            *)

\* The groups one after the other, each under the ABIs in their order.
NextUp(g, abi) ==
  /\ \A other \in ABIs : other < abi => <<g, other>> \notin left
  /\ \A h \in groups \ {g} : left \cap ({h} \X ABIs) \in {{}, {h} \X ABIs}

\* Only a plan that does not fit is passed over; other errors end the run.
Attempt(g, abi) ==
  /\ step = "attempt" /\ <<g, abi>> \in left /\ NextUp(g, abi)
  /\ left' = left \ {<<g, abi>>}
  /\ \E s \in Selections(recipe.rules, g, abi) :
       \/ /\ Sound(recipe.rules, s) /\ Items(s) # {}
          /\ plans' = plans \cup {[group |-> g, abi |-> abi, items |-> Items(s)]}
          /\ Goes("attempt")
       \/ /\ \/ Fails(recipe.rules, s, "plan")
             \/ Sound(recipe.rules, s) /\ Items(s) = {}
          /\ Goes("attempt") /\ UNCHANGED plans
       \/ \E why \in {"source", "recipe"} :
            Fails(recipe.rules, s, why) /\ Fail(why) /\ UNCHANGED plans
  /\ UNCHANGED <<files, input, recipe, at, found, groups>>

\* plan.fingerprint: of a loose file there is the size alone.
Fingerprint_Size(plan) ==
  {<<i.rule, i.dest, Size[i.content]>> : i \in plan.items}
Fingerprint(plan) ==
  {<<i.rule, i.dest, Size[i.content], IF i.as = "file" THEN {} ELSE {i.content}>> :
     i \in plan.items}

\* Of equivalent plans one of the best ABI, and of those one of the best kind of
\* source.
Best(p) ==
  \A q \in plans :
    \/ p.abi < q.abi
    \/ p.abi = q.abi /\ (p.group.kind = "apk-set" \/ q.group.kind # "apk-set")

Resolve ==
  /\ step = "attempt" /\ left = {}
  /\ LET several == \E p, q \in plans : Fingerprint(p) # Fingerprint(q)
     IN  \/ plans = {} /\ Fail("plan")
         \/ several /\ Fail("ambiguous")
         \/ /\ ~several /\ step' = "chosen"
            /\ \E p \in plans : Best(p) /\ outcome' = p
  /\ UNCHANGED <<files, input, recipe, at, found, left, groups, plans>>

\* The player looks at what came of it.
Look == step \in {"chosen", "failed"} /\ UNCHANGED selection

SelectionNext ==
  \/ \E p \in Paths : Put(p) \/ Name(p) \/ OpenBundle(p)
  \/ TakeInput \/ Search \/ Scan \/ OpenCompanions \/ GroupDirect
  \/ \E g \in groups, abi \in ABIs : Attempt(g, abi)
  \/ Resolve \/ Look

SelectionSpec == SelectionInit /\ [][SelectionNext]_selection
-----------------------------------------------------------------------------
(* What a payload is, whatever the order of files, groups and rules        *)

\* What a rule for one file may take of a group: the valid members that the
\* best of its patterns has, and the valid files beside them.
Acceptable(r, g, abi) ==
  LET Fits(e, i) == e \in Valid(Matching(MembersOf(r, g), r, abi, i), r, abi)
      best == {e \in MembersOf(r, g) : \E i \in DOMAIN r.patterns[abi] :
                 /\ Fits(e, i)
                 /\ \A j \in DOMAIN r.patterns[abi] :
                      j < i => \A f \in MembersOf(r, g) : ~Fits(f, j)}
  IN  best \cup Valid(FilesOf(r, g, abi), r, abi)

\* An item without the archive it is taken from.
Bare(i) == [rule |-> i.rule, dest |-> i.dest, content |-> i.content,
            as |-> i.as]
Bares(r, es, abi) == {Bare(Item(r, e, abi)) : e \in es}

\* What a rule contributes to a payload: a tree as a whole, or one file, whose
\* candidates agree.
Shares(r, g, abi) ==
  LET tree == Bares(r, Below(r, g, abi), abi)
      ones == Acceptable(r, g, abi)
      from == IF r.kind = "entries" THEN Tree(r, g, abi) ELSE ones
  IN  IF from = {} THEN {S \in {{}} : ~r.required}
      ELSE IF r.kind = "entries"
           THEN {S \in {tree} : Cardinality({i.dest : i \in S}) \in r.counts}
      ELSE {{i} : i \in {i \in Bares(r, ones, abi) :
                          \A e \in ones : e.content = i.content}}

\* A payload has a share of every rule, and no two items for one place.
Offers(rules, g, abi) ==
  LET share == UNION {{n} \X Shares(rules[n], g, abi) : n \in DOMAIN rules}
      whole == {f \in [DOMAIN rules -> {s[2] : s \in share}] :
                  \A n \in DOMAIN rules : <<n, f[n]>> \in share}
  IN  {P \in {UNION {f[n] : n \in DOMAIN rules} : f \in whole} :
         P # {} /\ \A i, j \in P : Fold[i.dest] = Fold[j.dest] => i = j}

Offered == UNION {Offers(recipe.rules, g, abi) : g \in groups, abi \in ABIs}

\* Two items a run could take for one another: loose files of one size are.
Alike(i, j) ==
  /\ i.rule = j.rule /\ i.dest = j.dest
  /\ \/ i.content = j.content
     \/ i.as = "file" /\ j.as = "file" /\ Size[i.content] = Size[j.content]

\* What is selected is a payload of its group, and no other group, bundle or
\* ABI among the player's files offers a different one: nothing is chosen by
\* the accident of an order (_choose_one, _choose_many, resolve_plan).
TheOnlyPayload ==
  step = "chosen" =>
    LET mine == {Bare(i) : i \in outcome.items}
    IN  /\ mine \in Offers(recipe.rules, outcome.group, outcome.abi)
        /\ \A P \in Offered :
             /\ \A i \in P : \E j \in mine : Alike(i, j)
             /\ \A j \in mine : \E i \in P : Alike(i, j)

\* A file that build_candidate_groups or a rule refuses with a SourceError.
Clashes(id) == \E m, n \in Source[id].members : Meet(m[1], n[1])
Defective(p) ==
  \/ \E id \in {p[2]} \cup Of(p).inner : Broken(id) \/ Clashes(id)
  \/ /\ Of(p).kind = "bundle"
     /\ ~\E package \in PackagesIn(p) \ {Nothing} : PackagesIn(p) = {package}
Usable(p) ==
  /\ Of(p).kind = "apk" /\ recipe.packages # {} =>
       Of(p).package \in recipe.packages \cup {Nothing}
  /\ Of(p).kind = "bundle" /\ recipe.packages # {} =>
       PackagesIn(p) \subseteq recipe.packages

\* A refusal has its reason in the files: no group has what the recipe asks for,
\* two differ, or a file that was read is defective or none of it usable.
RefusesForAReason ==
  step = "failed" =>
    /\ outcome = "plan" => Offered = {}
    /\ outcome = "ambiguous" => \E P, Q \in Offered : P # Q
    /\ outcome = "source" =>
         \/ TooMany(found) \/ \E p \in found : Defective(p)
         \/ \A p \in found : Usable(p) => Of(p).kind \notin {"apk", "bundle"}
    /\ outcome = "recipe" =>
         \E n \in DOMAIN recipe.rules : ~UnderCommit(recipe.rules[n])

\* Every item comes from one application, and from one the recipe accepts; only
\* archives without a manifest mix in (build_candidate_groups).
OnePackage ==
  step = "chosen" =>
    \E package \in {Source[f].package : f \in DOMAIN Source} \cup {Nothing} :
      /\ \A i \in outcome.items : Source[i.in.id].package \in {package, Nothing}
      /\ package \in recipe.packages \cup {Nothing} \/ recipe.packages = {}
=============================================================================
