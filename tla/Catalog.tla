------------------------------ MODULE Catalog ------------------------------
(***************************************************************************)
(* The catalog service: the tree of categories, the attributes linked to   *)
(* them, and the two caches in Redis; and the creation of an ad in Listing *)
(* that checks its values against the attributes of a category.            *)
(*                                                                         *)
(* cats       the rows of categories; "path" is the slugs from the root    *)
(* attrs      the rows of attributes, each with its options                *)
(* links      the rows <<category, attribute>> of category_attributes      *)
(* treeCache  the key catalog:tree                                         *)
(* attrCache  the keys catalog:attrs:<generation>:<category>               *)
(* gen        the key catalog:attrs:gen                                    *)
(* ads        the ads that Listing has stored: category and values         *)
(*                                                                         *)
(* The names in two languages and the order of the rows are left out; what *)
(* an update changes of a category is its "label".  Slugs have none of the *)
(* wildcards of LIKE.                                                      *)
(***************************************************************************)
EXTENDS StoreRequests

CONSTANTS Slug, Label

VARIABLES cats, attrs, links, treeCache, attrCache, gen, ads

(* History.                                                                *)
VARIABLES
  outrun,    \* readers of whose rows some have changed since they were read
  doubtful   \* keys of the caches that an outrun reader has written, or that an
             \* invalidation has not reached

tables == <<cats, attrs, links>>
caches == <<treeCache, attrCache, gen>>
catalogHistory == <<outrun, doubtful>>
catalogVars == <<tables, caches, ads, catalogHistory>>

ValidOptions(type, options) == (type = "enum") = (options # {})

(* What a budget says of the catalog: the root and the attribute there are *)
(* at first, the slugs of new categories, and the bodies that are sent.    *)
StoryFits(b) ==
  /\ {"root", "label", "attribute", "slugs", "bodies"} \subseteq DOMAIN b
  /\ b.root \in Slug /\ b.label \in Label /\ b.slugs \subseteq Slug
  /\ ValidOptions(b.attribute.type, b.attribute.options)
  /\ \A body \in b.bodies : {"type", "options"} \subseteq DOMAIN body

ASSUME BudgetAssumption == \A b \in Budgets : StoryFits(b)

(* A root with one attribute.                                              *)
Root == 0
CatalogInit ==
  /\ cats = Put(<<>>, Root, [parent |-> None, slug |-> budget.root, path |-> <<budget.root>>,
                              level |-> 0, label |-> budget.label])
  /\ attrs = Put(<<>>, Root, budget.attribute) /\ links = {<<Root, Root>>}
  /\ treeCache = None /\ attrCache = <<>> /\ gen = 0 /\ ads = <<>>
  /\ outrun = {} /\ doubtful = {}

Drop(f, keys) == [k \in DOMAIN f \ keys |-> f[k]]

TreeKey == <<"catalog:tree">>

(* What a change of the rows does to those who have read them.             *)
ReadersOf(ops) == {q \in Request : req[q].op \in ops /\ req[q].step \notin {"check", "gen", "get", "rows"}}
Checked(c) == {q \in Request : req[q].op = "ad" /\ req[q].cat = c /\ req[q].step # "check"}
Outruns(ops) == outrun' = outrun \cup ReadersOf(ops)
OutrunsAll(c) == outrun' = outrun \cup ReadersOf({"tree"}) \cup Checked(c)

(***************************************************************************)
(* domain.BuildTree: a category is under its parent, or a root if that is  *)
(* not among the rows.                                                     *)
(***************************************************************************)
BuildTree(rows) ==
  {[id |-> c, label |-> rows[c].label,
    under |-> IF rows[c].parent \in DOMAIN rows THEN rows[c].parent ELSE None] : c \in DOMAIN rows}

(* The attributes of a category: those of its ancestors by the path.       *)
IsPrefix(s, t) == Len(s) <= Len(t) /\ SubSeq(t, 1, Len(s)) = s
Ancestors(c) == {a \in DOMAIN cats : IsPrefix(cats[a].path, cats[c].path)}
Linked(c) == {l[2] : l \in {l \in links : l[1] \in Ancestors(c)}}

(* The rows of the attributes and, later, their options, which a second    *)
(* query reads; put together they are the specification of a category.     *)
Rows(c) == [a \in Linked(c) |-> [type |-> attrs[a].type, required |-> attrs[a].required]]
Options(A) == [a \in A |-> IF a \in DOMAIN attrs THEN attrs[a].options ELSE {}]
Specified(rows, options) ==
  {[attr |-> a, type |-> rows[a].type, required |-> rows[a].required, options |-> options[a]]
     : a \in DOMAIN rows}
Effective(c) == Specified(Rows(c), Options(Linked(c)))

(***************************************************************************)
(* GET /categories.                                                        *)
(***************************************************************************)
AskTree(q) ==
  /\ Fresh(q) /\ May("reads") /\ Spend("reads")
  /\ Turn(q, [op |-> "tree", step |-> "get"])
  /\ UNCHANGED catalogVars

GetTree(q) ==
  /\ Asks(q, "tree", "get")
  /\ IF treeCache # None THEN Turn(q, Done) ELSE Proceed(q, "rows")
  /\ UNCHANGED <<budget, catalogVars>>

AllCategories(q) ==
  /\ Asks(q, "tree", "rows")
  /\ Turn(q, [op |-> "tree", step |-> "set", body |-> BuildTree(cats)])
  /\ UNCHANGED <<budget, catalogVars>>

SetTree(q) ==
  /\ Asks(q, "tree", "set")
  /\ treeCache' = req[q].body
  /\ doubtful' = IF q \in outrun THEN doubtful \cup {TreeKey} ELSE doubtful \ {TreeKey}
  /\ Turn(q, Done)
  /\ UNCHANGED <<budget, tables, attrCache, gen, ads, outrun>>

(***************************************************************************)
(* GET /categories/{id}/attributes, and the same rows for Listing by gRPC, *)
(* which does not look at the cache.                                       *)
(***************************************************************************)
Readers == {"attrs", "ad"}

AskAttributes(q, c) ==
  /\ Fresh(q) /\ May("reads") /\ Spend("reads")
  /\ Turn(q, [op |-> "attrs", step |-> "check", cat |-> c])
  /\ UNCHANGED catalogVars

(* POST /ads of Listing, with the values of the ad.                        *)
AskAd(q, c, values) ==
  /\ Fresh(q) /\ May("ads") /\ Spend("ads")
  /\ Turn(q, [op |-> "ad", step |-> "check", cat |-> c, values |-> values])
  /\ UNCHANGED catalogVars

CheckCategory(q) ==
  /\ req[q].op \in Readers /\ req[q].step = "check"
  /\ IF req[q].cat \notin DOMAIN cats THEN Turn(q, Done)
     ELSE Proceed(q, IF req[q].op = "attrs" THEN "gen" ELSE "rows")
  /\ UNCHANGED <<budget, catalogVars>>

GetGeneration(q) ==
  /\ Asks(q, "attrs", "gen")
  /\ Turn(q, With(req[q], [step |-> "get", at |-> gen]))
  /\ UNCHANGED <<budget, catalogVars>>

GetCached(q) ==
  /\ Asks(q, "attrs", "get")
  /\ IF <<req[q].at, req[q].cat>> \in DOMAIN attrCache THEN Turn(q, Done) ELSE Proceed(q, "rows")
  /\ UNCHANGED <<budget, catalogVars>>

(* A category that is gone since the check has no attributes: its path     *)
(* finds no ancestor.                                                      *)
EffectiveRows(q) ==
  /\ req[q].op \in Readers /\ req[q].step = "rows"
  /\ Turn(q, With(req[q], [step |-> "options",
              rows |-> IF req[q].cat \in DOMAIN cats THEN Rows(req[q].cat) ELSE <<>>]))
  /\ UNCHANGED <<budget, catalogVars>>

EffectiveOptions(q) ==
  /\ req[q].op \in Readers /\ req[q].step = "options"
  /\ Turn(q, With(req[q], [step |-> IF req[q].op = "ad" THEN "validate" ELSE "again",
              body |-> Specified(req[q].rows, Options(DOMAIN req[q].rows))]))
  /\ UNCHANGED <<budget, catalogVars>>

(* The body is stored under the generation of now.                         *)
GetGenerationAgain(q) ==
  /\ Asks(q, "attrs", "again")
  /\ Turn(q, With(req[q], [step |-> "set", at |-> gen]))
  /\ UNCHANGED <<budget, catalogVars>>

SetAttributes(q) ==
  LET key == <<req[q].at, req[q].cat>> IN
  /\ Asks(q, "attrs", "set")
  /\ attrCache' = Put(attrCache, key, req[q].body)
  /\ doubtful' = IF q \in outrun THEN doubtful \cup {key} ELSE doubtful \ {key}
  /\ Turn(q, Done)
  /\ UNCHANGED <<budget, tables, treeCache, gen, ads, outrun>>

(* Redis does not answer: the rows are read, or the body is not stored.    *)
CacheFails(q) ==
  /\ req[q].op \in {"tree", "attrs"} /\ May("failures") /\ Spend("failures")
  /\ \/ req[q].step \in {"gen", "get"} /\ Proceed(q, "rows")
     \/ req[q].step \in {"again", "set"} /\ Turn(q, Done)
  /\ UNCHANGED catalogVars

(* The time to live of a key.                                              *)
ExpireTree ==
  /\ treeCache # None
  /\ treeCache' = None /\ doubtful' = doubtful \ {TreeKey}
  /\ UNCHANGED <<inputs, tables, attrCache, gen, ads, outrun>>

(* Mutant: the keys are stored without a time to live.                     *)
ExpireNever(key) == FALSE /\ key = <<>> /\ UNCHANGED <<inputs, catalogVars>>

ExpireAttributes(key) ==
  /\ key \in DOMAIN attrCache
  /\ attrCache' = Drop(attrCache, {key}) /\ doubtful' = doubtful \ {key}
  /\ UNCHANGED <<inputs, tables, treeCache, gen, ads, outrun>>

(***************************************************************************)
(* domain.ValidateAttributes of Listing, and the INSERT of the ad.         *)
(***************************************************************************)
ValidValue(spec, v) == IF spec.type = "enum" THEN v \in spec.options ELSE v # "bad"
ValidateAttributes(specs, values) ==
  /\ \A a \in DOMAIN values : \E spec \in specs : spec.attr = a /\ ValidValue(spec, values[a])
  /\ \A spec \in specs : spec.required => spec.attr \in DOMAIN values

(* Mutant: the values are not checked.                                     *)
StoreUnchecked(q) ==
  /\ Asks(q, "ad", "validate")
  /\ ads' = Put(ads, q, [cat |-> req[q].cat, values |-> req[q].values])
  /\ Turn(q, Done)
  /\ UNCHANGED <<budget, tables, caches, catalogHistory>>

StoreAd(q) ==
  /\ Asks(q, "ad", "validate")
  /\ ads' = IF ValidateAttributes(req[q].body, req[q].values)
            THEN Put(ads, q, [cat |-> req[q].cat, values |-> req[q].values]) ELSE ads
  /\ Turn(q, Done)
  /\ UNCHANGED <<budget, tables, caches, catalogHistory>>

(***************************************************************************)
(* The changes of the categories.  Each reads, writes in one transaction,  *)
(* and then removes the tree from the cache.                               *)
(***************************************************************************)
CategoryChanges == {"add category", "update category", "delete category"}

(* requireStaff turns the others away.                                     *)
Refused(q, input) ==
  /\ Fresh(q) /\ May(input) /\ Spend(input)
  /\ Turn(q, Done)
  /\ UNCHANGED catalogVars

AskCategory(q, op, c, slug, label) ==
  /\ op \in budget.changes
  /\ Fresh(q) /\ May("categories") /\ Spend("categories")
  /\ Turn(q, [op |-> op, step |-> "read", cat |-> c, slug |-> slug, label |-> label])
  /\ UNCHANGED catalogVars

(* The row of the category, or of the parent of a new one.                 *)
ReadCategory(q) ==
  LET c == req[q].cat
      next == CASE req[q].op = "delete category" -> "count" [] OTHER -> "write" IN
  /\ req[q].op \in CategoryChanges /\ req[q].step = "read"
  /\ CASE c = None -> Turn(q, With(req[q], [step |-> "write", row |-> None]))
       [] c # None /\ c \notin DOMAIN cats -> Turn(q, Done)
       [] OTHER -> Turn(q, With(req[q], [step |-> next, row |-> cats[c]]))
  /\ UNCHANGED <<budget, catalogVars>>

Written(q) == Proceed(q, "invalidate")
SlugTaken(s) == \E c \in DOMAIN cats : cats[c].slug = s

(* Mutant: the path of a category starts at itself.                        *)
PathOfItself(q) == <<req[q].slug>>
PathOf(q) == IF req[q].cat = None THEN <<req[q].slug>> ELSE Append(req[q].row.path, req[q].slug)
LevelOf(q) == IF req[q].cat = None THEN 0 ELSE req[q].row.level + 1

(* The slug is unique; the foreign key wants the parent to be there.       *)
CreateCategory(q) ==
  /\ Asks(q, "add category", "write")
  /\ IF SlugTaken(req[q].slug) \/ req[q].cat \notin DOMAIN cats \cup {None}
     THEN Turn(q, Done) /\ UNCHANGED <<cats, outrun>>
     ELSE /\ cats' = Put(cats, q, [parent |-> req[q].cat, slug |-> req[q].slug, path |-> PathOf(q),
                                  level |-> LevelOf(q), label |-> req[q].label])
          /\ Outruns({"tree"}) /\ Written(q)
  /\ UNCHANGED <<budget, attrs, links, caches, ads, doubtful>>

UpdateCategory(q) ==
  LET c == req[q].cat IN
  /\ Asks(q, "update category", "write")
  /\ IF c \notin DOMAIN cats THEN Turn(q, Done) /\ UNCHANGED <<cats, outrun>>
     ELSE cats' = [cats EXCEPT ![c].label = req[q].label] /\ Outruns({"tree"}) /\ Written(q)
  /\ UNCHANGED <<budget, attrs, links, caches, ads, doubtful>>

Children(c) == {d \in DOMAIN cats : cats[d].parent = c}
CountChildren(q) ==
  /\ Asks(q, "delete category", "count")
  /\ IF Children(req[q].cat) # {} THEN Turn(q, Done) ELSE Proceed(q, "write")
  /\ UNCHANGED <<budget, catalogVars>>

(* Mutant: nothing protects a child that was added after the count.        *)
DeleteCascades(q) ==
  LET c == req[q].cat IN
  /\ Asks(q, "delete category", "write")
  /\ IF c \notin DOMAIN cats THEN Turn(q, Done) /\ UNCHANGED <<cats, links, outrun>>
     ELSE /\ cats' = Drop(cats, {c}) /\ links' = {l \in links : l[1] # c}
          /\ OutrunsAll(c) /\ Written(q)
  /\ UNCHANGED <<budget, attrs, caches, ads, doubtful>>

(* The foreign key of a child that was added meanwhile refuses; the links  *)
(* of the category go with it.                                             *)
DeleteCategory(q) ==
  LET c == req[q].cat IN
  /\ Asks(q, "delete category", "write")
  /\ IF c \notin DOMAIN cats \/ Children(c) # {}
     THEN Turn(q, Done) /\ UNCHANGED <<cats, links, outrun>>
     ELSE /\ cats' = Drop(cats, {c}) /\ links' = {l \in links : l[1] # c}
          /\ OutrunsAll(c) /\ Written(q)
  /\ UNCHANGED <<budget, attrs, caches, ads, doubtful>>

(* Mutant: the tree stays in the cache.                                    *)
KeepTree(q) ==
  /\ req[q].op \in CategoryChanges /\ req[q].step = "invalidate"
  /\ Turn(q, Done)
  /\ UNCHANGED <<budget, catalogVars>>

InvalidateTree(q) ==
  /\ req[q].op \in CategoryChanges /\ req[q].step = "invalidate"
  /\ treeCache' = None /\ doubtful' = doubtful \ {TreeKey}
  /\ Turn(q, Done)
  /\ UNCHANGED <<budget, tables, attrCache, gen, ads, outrun>>

(***************************************************************************)
(* The changes of the attributes and of their links.                       *)
(***************************************************************************)
AttributeChanges == {"update attribute", "delete attribute", "link", "unlink"}

AskAttribute(q, op, c, a, body) ==
  /\ op \in budget.changes
  /\ Fresh(q) /\ May("attributes") /\ Spend("attributes")
  /\ Turn(q, [op |-> op, step |-> IF op = "link" THEN "check" ELSE "read",
              cat |-> c, attr |-> a, body |-> body])
  /\ UNCHANGED catalogVars

CreateAttribute(q) ==
  LET body == req[q].body IN
  /\ Asks(q, "add attribute", "read")
  /\ attrs' = IF ValidOptions(body.type, body.options) THEN Put(attrs, q, body) ELSE attrs
  /\ Turn(q, Done)
  /\ UNCHANGED <<budget, cats, links, caches, ads, catalogHistory>>

(* An attribute keeps its type.                                            *)
ReadAttribute(q) ==
  LET a == req[q].attr IN
  /\ Asks(q, "update attribute", "read")
  /\ Turn(q, IF a \notin DOMAIN attrs \/ ~ValidOptions(attrs[a].type, req[q].body.options) THEN Done
             ELSE With(req[q], [step |-> "write", body |-> [req[q].body EXCEPT !.type = attrs[a].type]]))
  /\ UNCHANGED <<budget, catalogVars>>

(* Link looks at the category, then at the attribute.                      *)
CheckLinked(q) ==
  /\ req[q].op = "link" /\ req[q].step \in {"check", "read"}
  /\ CASE req[q].step = "check" /\ req[q].cat \in DOMAIN cats -> Proceed(q, "read")
       [] req[q].step = "read" /\ req[q].attr \in DOMAIN attrs -> Proceed(q, "write")
       [] OTHER -> Turn(q, Done)
  /\ UNCHANGED <<budget, catalogVars>>

(* The row and its options, in one transaction.                            *)
UpdateAttribute(q) ==
  LET a == req[q].attr IN
  /\ Asks(q, "update attribute", "write")
  /\ IF a \notin DOMAIN attrs THEN Turn(q, Done) /\ UNCHANGED <<attrs, outrun>>
     ELSE attrs' = [attrs EXCEPT ![a] = req[q].body] /\ Outruns(Readers) /\ Written(q)
  /\ UNCHANGED <<budget, cats, links, caches, ads, doubtful>>

(* Its options and its links go with it.                                   *)
DeleteAttribute(q) ==
  LET a == req[q].attr IN
  /\ Asks(q, "delete attribute", "read")
  /\ IF a \notin DOMAIN attrs THEN Turn(q, Done) /\ UNCHANGED <<attrs, links, outrun>>
     ELSE /\ attrs' = Drop(attrs, {a}) /\ links' = {l \in links : l[2] # a}
          /\ Outruns(Readers) /\ Written(q)
  /\ UNCHANGED <<budget, cats, caches, ads, doubtful>>

(* The primary key and the two foreign keys refuse.                        *)
LinkAttribute(q) ==
  LET link == <<req[q].cat, req[q].attr>> IN
  /\ Asks(q, "link", "write")
  /\ IF link \in links \/ link[1] \notin DOMAIN cats \/ link[2] \notin DOMAIN attrs
     THEN Turn(q, Done) /\ UNCHANGED <<links, outrun>>
     ELSE links' = links \cup {link} /\ Outruns(Readers) /\ Written(q)
  /\ UNCHANGED <<budget, cats, attrs, caches, ads, doubtful>>

UnlinkAttribute(q) ==
  LET link == <<req[q].cat, req[q].attr>> IN
  /\ Asks(q, "unlink", "read")
  /\ IF link \notin links THEN Turn(q, Done) /\ UNCHANGED <<links, outrun>>
     ELSE links' = links \ {link} /\ Outruns(Readers) /\ Written(q)
  /\ UNCHANGED <<budget, cats, attrs, caches, ads, doubtful>>

(* One INCR puts the keys of every category out of use.                    *)
InvalidateAttributes(q) ==
  /\ req[q].op \in AttributeChanges /\ req[q].step = "invalidate"
  /\ gen' = gen + 1
  /\ Turn(q, Done)
  /\ UNCHANGED <<budget, tables, treeCache, attrCache, ads, catalogHistory>>

(* The invalidation fails, which is only logged, or the process dies: what *)
(* is in the cache stays there.                                            *)
InvalidationFails(q) ==
  /\ req[q].op \in CategoryChanges \cup AttributeChanges /\ req[q].step = "invalidate"
  /\ May("failures") /\ Spend("failures")
  /\ doubtful' = doubtful \cup IF req[q].op \in CategoryChanges THEN {TreeKey} ELSE DOMAIN attrCache
  /\ Turn(q, Done)
  /\ UNCHANGED <<tables, caches, ads, outrun>>

(***************************************************************************)
(* The steps that go on by themselves, and what is asked.                  *)
(***************************************************************************)
CatalogWork(q) ==
  \/ GetTree(q) \/ AllCategories(q) \/ SetTree(q)
  \/ CheckCategory(q) \/ GetGeneration(q) \/ GetCached(q) \/ EffectiveRows(q)
  \/ EffectiveOptions(q) \/ GetGenerationAgain(q) \/ SetAttributes(q) \/ StoreAd(q)
  \/ ReadCategory(q) \/ CreateCategory(q) \/ UpdateCategory(q)
  \/ CountChildren(q) \/ DeleteCategory(q) \/ InvalidateTree(q)
  \/ CreateAttribute(q) \/ CheckLinked(q) \/ ReadAttribute(q) \/ UpdateAttribute(q)
  \/ DeleteAttribute(q) \/ LinkAttribute(q) \/ UnlinkAttribute(q) \/ InvalidateAttributes(q)

Known == DOMAIN cats \cup {Root}
CatalogAsks(q) ==
  \/ AskTree(q)
  \/ \E c \in Known : AskAttributes(q, c) \/ \E values \in budget.values : AskAd(q, c, values)
  \/ \E c \in Known, l \in Label : AskCategory(q, "update category", c, None, l)
  \/ \E c \in Known \cup {None}, s \in budget.slugs : AskCategory(q, "add category", c, s, budget.label)
  \/ \E c \in Known : AskCategory(q, "delete category", c, None, None)
  \/ \E body \in budget.bodies : AskAttribute(q, "add attribute", None, None, body)
  \/ \E a \in DOMAIN attrs, body \in budget.bodies : AskAttribute(q, "update attribute", None, a, body)
  \/ \E a \in DOMAIN attrs : AskAttribute(q, "delete attribute", None, a, None)
  \/ \E c \in Known, a \in DOMAIN attrs, op \in {"link", "unlink"} : AskAttribute(q, op, c, a, None)
  \/ \E input \in {"categories", "attributes"} : Refused(q, input)

Expiry == ExpireTree \/ \E key \in DOMAIN attrCache : ExpireAttributes(key)

CatalogNext ==
  \/ \E q \in Request : CatalogAsks(q) \/ CatalogWork(q) \/ CacheFails(q) \/ InvalidationFails(q)
  \/ Expiry

(***************************************************************************)
(* Properties.                                                             *)
(***************************************************************************)
CatalogTypeOK ==
  /\ DOMAIN cats \subseteq Request \cup {Root}
  /\ \A c \in DOMAIN cats : cats[c].slug \in Slug /\ cats[c].label \in Label /\ cats[c].level \in Nat
  /\ \A a \in DOMAIN attrs : ValidOptions(attrs[a].type, attrs[a].options)
  /\ \A l \in links : l[1] \in DOMAIN cats /\ l[2] \in DOMAIN attrs
  /\ gen \in Nat /\ DOMAIN ads \subseteq Request /\ outrun \subseteq Request

(* Every category hangs on the tree, and by the LIKE on the materialised   *)
(* path it inherits from itself and from what its parent, a level above,   *)
(* inherits from, and so on to a root: whatever order categories are added *)
(* and deleted in.                                                         *)
InheritanceFollowsTheTree ==
  \A c \in DOMAIN cats :
    IF cats[c].parent = None THEN Ancestors(c) = {c} /\ cats[c].level = 0
    ELSE /\ cats[c].parent \in DOMAIN cats
         /\ Ancestors(c) = {c} \cup Ancestors(cats[c].parent)
         /\ cats[c].level = cats[cats[c].parent].level + 1

Changing(ops) == \E q \in Request : req[q].op \in ops /\ req[q].step = "invalidate"
TreeIsExact == treeCache \in {None, BuildTree(cats)}
KeysInUse == {<<gen, c>> : c \in DOMAIN cats} \cap DOMAIN attrCache

(* What the caches answer is what the rows say: but while a change has not *)
(* invalidated them yet, or could not, and when a reader stores what it    *)
(* read before the change; of the attributes, under the new generation.    *)
QuietCachesAreExact ==
  /\ ~Changing(CategoryChanges) /\ TreeKey \notin doubtful => TreeIsExact
  /\ ~Changing(AttributeChanges) =>
       \A key \in KeysInUse \ doubtful : attrCache[key] = Effective(key[2])

(* Once nothing changes, the caches come to say what the rows say.         *)
CachesConverge ==
  <>[](TreeIsExact /\ \A key \in KeysInUse : attrCache[key] = Effective(key[2]))

(* Listing stores an ad whose values fit the attributes of its category as *)
(* they are, inherited ones included; unless they changed after they were  *)
(* read, or the category was deleted after it was looked at.               *)
StoredAdsFit ==
  [][\A q \in DOMAIN ads' \ (DOMAIN ads \cup outrun) :
       /\ ads'[q].cat \in DOMAIN cats
       /\ ValidateAttributes(Effective(ads'[q].cat), ads'[q].values)]_catalogVars

(* The tree, what is inherited along it, and what the caches say of both   *)
(* agree.                                                                  *)
CatalogIsCoherent ==
  /\ CatalogTypeOK
  /\ InheritanceFollowsTheTree
  /\ QuietCachesAreExact
=============================================================================
