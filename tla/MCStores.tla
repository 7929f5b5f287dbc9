------------------------------ MODULE MCStores ------------------------------
(***************************************************************************)
(* Stores for TLC: each budget is one story about one of the services.     *)
(***************************************************************************)
EXTENDS Stores, TLC

CONSTANTS a1, a2, shop, boats, cars

Picture(ad, side) == [ad |-> ad, side |-> side, size |-> 1, type |-> "image/png"]
Enum(options) == [type |-> "enum", required |-> TRUE, options |-> options]
Text == [type |-> "string", required |-> FALSE, options |-> {}]

Quiet == [uploads |-> 0, retakes |-> 0, failures |-> 0, reads |-> 0, ads |-> 0, categories |-> 0,
          attributes |-> 0, views |-> 0, deletions |-> 0,
          files |-> {}, root |-> shop, label |-> "old", attribute |-> Enum({"red"}),
          slugs |-> {boats}, changes |-> {}, bodies |-> {Text}, values |-> {<<>>}]

(* Pictures of one ad, which may have two.                                 *)
Gallery == [Quiet EXCEPT !.uploads = 3, !.failures = 1,
             !.files = {Picture(a1, 1), [Picture(a1, 1) EXCEPT !.size = 2],
                        [Picture(a1, 1) EXCEPT !.type = "application/pdf"]}]

(* Two pictures without an ad; one with two handlers and sweeps at it.     *)
Loose == [Quiet EXCEPT !.uploads = 2, !.files = {Picture(None, 1)}]
Racing == [Quiet EXCEPT !.uploads = 1, !.failures = 2, !.retakes = 1,
             !.files = {Picture(None, side) : side \in 0..2}]

(* The tree of categories while it is read; a tree that grows and shrinks. *)
Structure == {"add category", "delete category"}
Tree == [Quiet EXCEPT !.categories = 1, !.reads = 2, !.failures = 1,
           !.changes = Structure \cup {"update category"}]
Renaming == [Quiet EXCEPT !.categories = 2, !.reads = 1, !.changes = {"update category", "delete category"}]
Growth == [Quiet EXCEPT !.categories = 3, !.slugs = {boats, cars}, !.changes = Structure]

(* The attributes of categories while they are read; ads.                  *)
Attributes == [Quiet EXCEPT !.attributes = 1, !.reads = 2, !.failures = 1, !.bodies = {Enum({"blue"})},
                 !.changes = {"update attribute", "delete attribute", "unlink"}]
Rewriting == [Quiet EXCEPT !.attributes = 2, !.reads = 1, !.bodies = {Enum({"blue"})},
                !.changes = {"update attribute", "delete attribute"}]
Links == [Quiet EXCEPT !.attributes = 2, !.reads = 1, !.changes = {"add attribute", "link", "unlink"}]
Below == [Quiet EXCEPT !.attributes = 1, !.categories = 1, !.reads = 1, !.bodies = {Enum({"blue"})},
            !.changes = {"add category", "update attribute"}]
Ads == [Quiet EXCEPT !.attributes = 1, !.ads = 2, !.bodies = {Enum({"blue"}), Text},
          !.changes = {"update attribute", "unlink"},
          !.values = {<<>>, 0 :> "red", 0 :> "blue", 1 :> "red"}]
Inherited == [Quiet EXCEPT !.categories = 2, !.ads = 1, !.changes = Structure,
                !.values = {<<>>, 0 :> "red"}]

(* Views of two ads, one of which may be deleted, and two flushers.        *)
Viewing == [Quiet EXCEPT !.views = 3, !.failures = 2, !.deletions = 1]

MCBudgets == {Gallery, Loose, Racing, Tree, Renaming, Growth, Attributes, Rewriting, Links, Below,
               Ads, Inherited, Viewing}
=============================================================================
