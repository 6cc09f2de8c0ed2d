---------------------------- MODULE MeshTopology ----------------------------
(***************************************************************************)
(* The faces of a mesh that is imported as a list of cells (foam.rs): each *)
(* face is found where the first of its cells lists it, its second cell    *)
(* becomes the neighbour, and a third is only counted.  Then internal      *)
(* faces are ordered before those of each patch, labels are those of this  *)
(* order, and the files of constant/polyMesh and system are written.       *)
(*                                                                         *)
(* A face of a cell is the set of its nodes, which is its key, and the     *)
(* sense in which the cell lists them, which turns it out of the cell.     *)
(* Cells and labels start at 1.  The points are left out.                  *)
(***************************************************************************)
EXTENDS FoamFile, FiniteSets

CONSTANTS
  Keys,       \* the sets of nodes of faces
  Imports,    \* meshes that may be imported
  TagName,    \* the sanitized name of each physical tag
  Listed,     \* physical_names: the tags of surfaces in their order
  PatchType   \* FoamWriteOptions: the type of each patch

\* Physical tags are numbers and names are words.  The nodes of a cell differ, so that no two
\* of its faces have the same.
ASSUME TopologyAssumption ==
  /\ TagName \in [DOMAIN TagName -> Words] /\ DOMAIN TagName \subseteq Int
  /\ Listed \in Seq(DOMAIN TagName)
  /\ PatchType \in [Words -> STRING] /\ "defaultFaces" \in Words
  /\ Imports \subseteq
       [cells : Seq([rings : Seq([key : Keys, sense : {"+", "-"}]), tag : DOMAIN TagName]),
        surfaces : Seq([key : Keys, tag : DOMAIN TagName])]
  /\ \A m \in Imports : \A c \in DOMAIN m.cells : \A i, j \in DOMAIN m.cells[c].rings :
       m.cells[c].rings[i].key = m.cells[c].rings[j].key => i = j

VARIABLES
  import,      \* the mesh that is imported
  step,        \* where the import is
  found,       \* the faces of the topology
  cell,        \* the next cell
  nonManifold, \* non_manifold_faces
  polyMesh,    \* the files of constant/polyMesh
  output       \* the file that is written next

importVars == <<import, step, found, cell, nonManifold, polyMesh, output>>

NoNeighbour == 0

\* The files of a case in the order in which they are written; the mesh is the first seven.
CaseFiles == <<"points", "faces", "owner", "neighbour", "boundary", "faceZones", "cellZones",
               "controlDict", "fvSchemes", "fvSolution", "ferrumMeshSummary.txt">>
MeshFiles == {CaseFiles[i] : i \in 1 .. 7}

\* The numbers of a finite set in ascending order, and the place of each.
Place(S, x) == 1 + Cardinality({y \in S : y < x})
InOrder(S) == [n \in 1 .. Cardinality(S) |-> CHOOSE x \in S : Place(S, x) = n]
Lowest(S) == CHOOSE x \in S : \A y \in S : x <= y
Highest(S) == CHOOSE x \in S : \A y \in S : y <= x

-----------------------------------------------------------------------------
(***************************************************************************)
(* build_topology, one cell at a time.                                     *)
(***************************************************************************)
KeysOf(faceList) == {faceList[i].key : i \in DOMAIN faceList}
Rings == import.cells[cell].rings

\* A face that has a neighbour stays as it is.
Meets(g) == g.key \in KeysOf(Rings) /\ g.neighbour = NoNeighbour

Face(ring) == [key |-> ring.key, sense |-> ring.sense, owner |-> cell, neighbour |-> NoNeighbour]

AddCell ==
  /\ step = "cells"
  /\ cell \in DOMAIN import.cells
  /\ LET new == InOrder({i \in DOMAIN Rings : Rings[i].key \notin KeysOf(found)})
     IN  found' = [i \in DOMAIN found |-> IF Meets(found[i]) THEN [found[i] EXCEPT !.neighbour = cell]
                                          ELSE found[i]]
                  \o [n \in DOMAIN new |-> Face(Rings[new[n]])]
  /\ nonManifold' = nonManifold + Cardinality({i \in DOMAIN found :
       found[i].key \in KeysOf(Rings) /\ found[i].neighbour # NoNeighbour})
  /\ cell' = cell + 1
  /\ UNCHANGED <<import, step, polyMesh, output, faults>>

CellsEnd == /\ step = "cells"
            /\ cell \notin DOMAIN import.cells
            /\ step' = "files"
            /\ output' = 1
            /\ UNCHANGED <<import, found, cell, nonManifold, polyMesh, faults>>

-----------------------------------------------------------------------------
(***************************************************************************)
(* order_faces.  Of surfaces with the same nodes the last names the patch. *)
(***************************************************************************)
Surfaces == import.surfaces
SurfacesOf(k) == {s \in DOMAIN Surfaces : Surfaces[s].key = k}
PatchName(g) == IF SurfacesOf(g.key) = {} THEN "defaultFaces"
                ELSE TagName[Surfaces[Highest(SurfacesOf(g.key))].tag]

Boundary == {i \in DOMAIN found : found[i].neighbour = NoNeighbour}
InternalFaces == InOrder(DOMAIN found \ Boundary)
FacesOfPatch(n) == InOrder({i \in Boundary : PatchName(found[i]) = n})
PatchNames == {PatchName(found[i]) : i \in Boundary}

\* Names in the order of the physical names, then the others alphabetically.
ListedAs(n) == {l \in DOMAIN Listed : TagName[Listed[l]] = n}
NameOrder(n) == IF ListedAs(n) = {} THEN Len(Listed) + NameRank[n] ELSE Lowest(ListedAs(n))
PatchOrder == LET order == InOrder({NameOrder(n) : n \in PatchNames})
              IN  [p \in DOMAIN order |-> CHOOSE n \in PatchNames : NameOrder(n) = order[p]]

\* face_indices, when the patches up to p have their faces in it.
FaceIndices[p \in 0 .. Len(PatchOrder)] ==
  IF p = 0 THEN InternalFaces ELSE FaceIndices[p - 1] \o FacesOfPatch(PatchOrder[p])
Ordered == FaceIndices[Len(PatchOrder)]

\* The label of a face before and after the faces are ordered.
TopologyIndex(i) == i
LabelOf(i) == LET order == Ordered
              IN  CHOOSE n \in DOMAIN order : order[n] = i

WrittenPatches == [p \in DOMAIN PatchOrder |->
  [name |-> PatchOrder[p], type |-> PatchType[PatchOrder[p]],
   start |-> 1 + Len(FaceIndices[p - 1]), count |-> Len(FacesOfPatch(PatchOrder[p]))]]

\* write_face_zones: all surfaces of the mesh, by tag; nothing is flipped.
FacesOfKey(k) == {i \in DOMAIN found : found[i].key = k}
Matched == {s \in DOMAIN Surfaces : FacesOfKey(Surfaces[s].key) # {}}
SurfacesTagged(t) == {s \in Matched : Surfaces[s].tag = t}
ZoneLabels(t) ==
  LET mine == InOrder(SurfacesTagged(t))
  IN  [n \in DOMAIN mine |->
        [face |-> LabelOf(CHOOSE i \in FacesOfKey(Surfaces[mine[n]].key) : TRUE), flip |-> FALSE]]
FaceZones == LET tags == InOrder({Surfaces[s].tag : s \in Matched})
             IN  [z \in DOMAIN tags |-> [name |-> TagName[tags[z]], faces |-> ZoneLabels(tags[z])]]

\* write_cell_zones
CellsTagged(t) == {c \in DOMAIN import.cells : import.cells[c].tag = t}
CellZones == LET tags == InOrder({import.cells[c].tag : c \in DOMAIN import.cells})
             IN  [z \in DOMAIN tags |-> [name |-> TagName[tags[z]], cells |-> InOrder(CellsTagged(tags[z]))]]

MeshContent(f) ==
  CASE f = "faces" -> LET order == Ordered
                           IN  [n \in DOMAIN order |-> [key |-> found[order[n]].key,
                                                        sense |-> found[order[n]].sense]]
    [] f = "owner" -> LET order == Ordered
                      IN  [n \in DOMAIN order |-> found[order[n]].owner]
    [] f = "neighbour" -> LET order == InternalFaces
                          IN  [n \in DOMAIN order |-> found[order[n]].neighbour]
    [] f = "boundary" -> WrittenPatches
    [] f = "faceZones" -> FaceZones
    [] f = "cellZones" -> CellZones
    [] f = "points" -> <<>>

-----------------------------------------------------------------------------
(***************************************************************************)
(* write_openfoam_case_with_options                                        *)
(***************************************************************************)
ImportInit == /\ import \in Imports
              /\ step = "cells"
              /\ found = <<>> /\ cell = 1 /\ nonManifold = 0
              /\ polyMesh = [f \in MeshFiles |-> Unreadable]
              /\ output = 0

Puts(c) == polyMesh' = IF CaseFiles[output] \in MeshFiles
                       THEN [polyMesh EXCEPT ![CaseFiles[output]] = c] ELSE polyMesh
Ends == IF CaseFiles[output] \in MeshFiles
        THEN Torn(CaseFiles[output], MeshContent(CaseFiles[output])) ELSE {Unreadable}

WriteCaseFile == /\ step = "files"
                 /\ output \in DOMAIN CaseFiles
                 /\ Puts(IF CaseFiles[output] \in MeshFiles
                         THEN Reads(MeshContent(CaseFiles[output])) ELSE Unreadable)
                 /\ output' = output + 1
                 /\ UNCHANGED <<import, step, found, cell, nonManifold, faults>>

LoseEndOfCaseFile == /\ step = "files"
                     /\ output \in DOMAIN CaseFiles
                     /\ Fault
                     /\ \E c \in Ends : Puts(c)
                     /\ output' = output + 1
                     /\ UNCHANGED <<import, step, found, cell, nonManifold>>

\* An error that is seen, or the end of the process.
CaseFileFails == /\ step = "files"
                 /\ output \in DOMAIN CaseFiles
                 /\ Fault
                 /\ (\E c \in Ends : Puts(c)) \/ UNCHANGED polyMesh
                 /\ step' = "failed"
                 /\ UNCHANGED <<import, found, cell, nonManifold, output>>

Imported == /\ step = "files"
            /\ output \notin DOMAIN CaseFiles
            /\ step' = "imported"
            /\ UNCHANGED <<import, found, cell, nonManifold, polyMesh, output, faults>>

\* The command is run again, over the files that there are.
ImportAgain == /\ step = "failed"
               /\ step' = "cells"
               /\ found' = <<>> /\ cell' = 1 /\ nonManifold' = 0
               /\ UNCHANGED <<import, polyMesh, output, faults>>

ImportStep == AddCell \/ CellsEnd \/ WriteCaseFile \/ LoseEndOfCaseFile \/ CaseFileFails
              \/ Imported \/ ImportAgain
=============================================================================
