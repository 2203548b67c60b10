----------------------------- MODULE MCGardener -----------------------------
(***************************************************************************)
(* One installation with three repositories.  "o/a-b" has the branches: a  *)
(* dead one, one with work of a human and a bot or of an author GitHub     *)
(* does not know, an excluded one.  "o/a.b" has the same sanitized name,   *)
(* and "o/c" comes after both.  A night's slot and a maintainer's command  *)
(* can have two runs at work at a time.                                    *)
(***************************************************************************)
EXTENDS Gardener, TLC

CONSTANT Asked  \* the commands of maintainers

MCMain == <<"main">>
Dead   == <<"dead">>
Feat   == <<"feat">>
Rel    == <<"rel/", "1">>
MCProtected == {MCMain}
MCBranches == <<Dead, Feat, MCMain, Rel>>

Start(main, dead, feat) == [b \in {Dead, Feat, MCMain, Rel} |->
  CASE b = MCMain -> main [] b = Dead -> dead [] b = Feat -> feat [] b = Rel -> {}]
MCTips   == {Start({}, {}, {"h", "k", "u"}), Start({"h"}, {"h"}, {"h", "k"}),
             Start({}, {}, {"u"}), Start({}, {}, {"k", "u"})}
MCPushes == {<<Dead, {}>>, <<Dead, {"h"}>>, <<MCMain, {}>>}

GardenSection(autonomy, exclude, repos) ==
  [enabled |-> FALSE, autonomy |-> autonomy, schedule |-> 1,
   exclude |-> {exclude}, repos |-> repos]
On(at) == [enabled |-> <<TRUE>>, autonomy |-> <<>>, schedule |-> <<at>>, exclude |-> <<>>]

\* Two commanded runs at a time among the users' pushes, or a schedule whose
\* runs find every branch excluded.
MCConfigs ==
  {GardenSection("prune-dead", <<"rel/", "*">>, "o/a-b" :> On(2)),
   GardenSection("propose", <<"rel/", "*">>, "o/a-b" :> On(2)),
   GardenSection("prune-dead", <<"*">>, "o/a-b" :> On(1)),
   GardenSection("prune-dead", <<"*">>, "o/a-b" :> On(1) @@ "o/a.b" :> On(1) @@ "o/c" :> On(1)),
   GardenSection("propose", <<"*">>, "o/c" :> On(0))}

MCInstallations == <<[id |-> "i", account |-> "o", repos |-> {"o/a-b"}]>>
MCCap       == [i \in {"i"} |-> 2]
MCAuthor    == [c \in {"h", "k", "u"} |->
  CASE c = "h" -> "human" [] c = "k" -> "bot" [] c = "u" -> "unknown"]
MCRepoOrder == <<"o/a-b", "o/a.b", "o/c">>
MCOwnerOf   == [r \in {"o/a-b", "o/a.b", "o/c"} |-> "o"]
MCSanitized == [r \in {"o/a-b", "o/a.b", "o/c"} |-> IF r = "o/c" THEN "o-c" ELSE "o-a-b"]

Asks == {<<"webhook", a>> : a \in Asked}
Nightly == {SlotDelivery("i", r, 1) : r \in {"o/a-b", "o/a.b", "o/c"}}
        \union {SlotDelivery("i", "o/c", 0)}
MCDelivery == Asks \union Nightly
MCTask == {<<"uuid", a>> : a \in Asked}
          \union {SlotTask("i", "o/a-b", 1), SlotTask("i", "o/c", 1), SlotTask("i", "o/c", 0)}
MCSource == [t \in MCTask |->
  IF t[1] = "uuid" THEN <<"webhook", t[2]>>
  ELSE SlotDelivery("i", IF t[3] = "o-c" THEN "o/c" ELSE "o/a-b", t[4])]
MCRepoOf == [t \in MCTask |-> IF t[1] # "uuid" /\ t[3] = "o-c" THEN "o/c" ELSE "o/a-b"]
MCEvent == [d \in MCDelivery |->
  [kind |-> "garden", installation |-> "i", pr |-> "no pr",
   commander |-> IF d \in Asks THEN "writer" ELSE "nobody"]]

Askers == Permutations(Asked)
=============================================================================
