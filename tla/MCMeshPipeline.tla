--------------------------- MODULE MCMeshPipeline ---------------------------
(* Imports of four cells in a square, of three around one edge, and of three on one face. *)
EXTENDS MeshPipeline

MCWords == {"wall", "gap", "Fluid", "fluid", "solid", "defaultFaces", "interface_fluid_to_solid"}
MCFolded == [w \in MCWords |-> IF w = "Fluid" THEN "fluid" ELSE w]
MCNameRank == [w \in MCWords |-> CASE w = "Fluid" -> 1 [] w = "defaultFaces" -> 2 [] w = "fluid" -> 3
                                   [] w = "gap" -> 4 [] w = "interface_fluid_to_solid" -> 5
                                   [] w = "solid" -> 6 [] w = "wall" -> 7]
MCInterfaceName == [p \in MCWords \X (MCWords \cup {"unknown"}) |-> "interface_" \o p[1] \o "_to_" \o p[2]]

\* Tags 1 to 3 and 7 are of surfaces, two of which have one name, 4 to 6 of cells.
MCTagName == <<"wall", "gap", "wall", "fluid", "solid", "Fluid", "interface_fluid_to_solid">>
MCListed == <<2, 1>>
MCPatchType == [w \in MCWords |-> IF w = "wall" THEN "wall" ELSE "patch"]

Ring(k) == [key |-> k, sense |-> "+"]
Back(k) == [key |-> k, sense |-> "-"]
Square == << <<Ring(1), Ring(3), Ring(5)>>, <<Back(1), Ring(4), Ring(6)>>,
             <<Ring(2), Back(3), Ring(7)>>, <<Back(2), Back(4), Ring(8)>> >>
Around == << <<Ring(1), Ring(2), Ring(5)>>, <<Back(1), Ring(3), Ring(6)>>, <<Back(2), Back(3), Ring(7)>> >>
Shared == << <<Ring(1), Ring(5)>>, <<Back(1), Ring(6)>>, <<Ring(1), Ring(7)>> >>

Surface(k, t) == [key |-> k, tag |-> t]
MCKeys == 1 .. 9
SurfaceLists == {<<>>, <<Surface(1, 1)>>, <<Surface(5, 1), Surface(3, 1)>>, <<Surface(4, 2), Surface(6, 1)>>,
                 <<Surface(5, 1), Surface(5, 3)>>, <<Surface(3, 2), Surface(9, 1)>>, <<Surface(3, 7)>>,
                 <<Surface(7, 1), Surface(6, 2), Surface(2, 2)>>}
Tagged(rings, tags) == [c \in DOMAIN rings |-> [rings |-> rings[c], tag |-> tags[c]]]
TagLists(n) == {t \in [1 .. n -> {4, 5, 6}] : 6 \notin {t[i] : i \in 1 .. n - 1}}
MCImports == {[cells |-> Tagged(r, t), surfaces |-> s] :
                r \in {Square}, t \in TagLists(4), s \in SurfaceLists}
             \cup {[cells |-> Tagged(r, t), surfaces |-> s] :
                r \in {Around, Shared}, t \in TagLists(3), s \in SurfaceLists}
=============================================================================
