---------------------------- MODULE MeshPipeline ----------------------------
(***************************************************************************)
(* An import followed by splits, each a command of its own that finds the  *)
(* files the one before has left, whole or not (gmshToFerrum, then         *)
(* splitFerrumMeshRegions).                                                *)
(***************************************************************************)
EXTENDS MeshTopology, InterfaceRegistry

vars == <<importVars, splitVars, faults>>

ReadableMesh == \A f \in MeshFiles : polyMesh[f].readable
DiskMesh == [owner |-> polyMesh["owner"].data, neighbour |-> polyMesh["neighbour"].data,
             patches |-> polyMesh["boundary"].data,
             cellZones |-> polyMesh["cellZones"].data, faceZones |-> polyMesh["faceZones"].data]

NoMesh == [owner |-> <<>>, neighbour |-> <<>>, patches |-> <<>>, cellZones |-> <<>>, faceZones |-> <<>>]

Init == mesh = NoMesh /\ ImportInit /\ SplitInit

BeginSplit == /\ step \in {"imported", "failed"}
              /\ ReadableMesh
              /\ mesh' = DiskMesh
              /\ Begins
              /\ UNCHANGED importVars

Next == \/ ImportStep /\ pc \in {"idle", "failed", "done"} /\ UNCHANGED splitVars
        \/ BeginSplit
        \/ SplitStep /\ step \in {"imported", "failed"} /\ UNCHANGED importVars

Spec == Init /\ [][Next]_vars

(***************************************************************************)
(* An import whose files are whole has each face once, with the first of   *)
(* its cells as the owner, out of which it turns, and the second as the    *)
(* neighbour; the owner first; each face of one cell is in one patch, that *)
(* of its last surface; a zone has the faces of its surfaces under the     *)
(* labels that were written, or all cells of its tag; and both readers     *)
(* accept it if every cell is the first or the second of one of its faces  *)
(* and there are as many faces as cells.                                   *)
(* (foam.rs, build_topology, order_faces, write_face_zones)                *)
(***************************************************************************)
MeshKeys == UNION {KeysOf(import.cells[c].rings) : c \in DOMAIN import.cells}
CellsWith(k) == {c \in DOMAIN import.cells : k \in KeysOf(import.cells[c].rings)}
Labelled == polyMesh["faces"].data
FaceRight(n) ==
  LET k == Labelled[n].key
      first == Lowest(CellsWith(k))
      others == CellsWith(k) \ {first}
      around == {p \in DOMAIN DiskMesh.patches : n \in PatchRange(DiskMesh.patches[p])}
  IN  /\ DiskMesh.owner[n] = first
      /\ \E i \in DOMAIN import.cells[first].rings : import.cells[first].rings[i] = Labelled[n]
      /\ NeighbourOf(DiskMesh, n) = IF others = {} THEN NoCell ELSE Lowest(others)
      /\ around # {} <=> others = {}
      /\ \A p \in around : DiskMesh.patches[p].name = PatchName(Labelled[n])
FacesRight == /\ {Labelled[n].key : n \in DOMAIN Labelled} = MeshKeys
              /\ \A n, o \in DOMAIN Labelled : Labelled[n].key = Labelled[o].key => n = o
              /\ \A n \in DOMAIN Labelled : FaceRight(n)

OnFaces(t) == {s \in DOMAIN Surfaces : Surfaces[s].tag = t /\ Surfaces[s].key \in MeshKeys}
ZoneRight(t, listed) ==
  /\ listed.name = TagName[t]
  /\ Len(listed.faces) = Cardinality(OnFaces(t))
  /\ \A s \in OnFaces(t) : Labelled[listed.faces[Place(OnFaces(t), s)].face].key = Surfaces[s].key
FaceZonesRight ==
  LET tags == {t \in DOMAIN TagName : OnFaces(t) # {}}
  IN  /\ Len(DiskMesh.faceZones) = Cardinality(tags)
      /\ \A t \in tags : ZoneRight(t, DiskMesh.faceZones[Place(tags, t)])
CellZonesRight ==
  LET tags == {import.cells[c].tag : c \in DOMAIN import.cells}
  IN  /\ Len(DiskMesh.cellZones) = Cardinality(tags)
      /\ \A t \in tags : LET z == DiskMesh.cellZones[Place(tags, t)]
                         IN  /\ z.name = TagName[t]
                             /\ {z.cells[i] : i \in DOMAIN z.cells} = CellsTagged(t)
                             /\ \A i, j \in DOMAIN z.cells : i < j => z.cells[i] < z.cells[j]

\* Every cell has a face that does not have two cells before it.
CellsReached == \A c \in DOMAIN import.cells : \E k \in KeysOf(import.cells[c].rings) :
  Cardinality({d \in CellsWith(k) : d < c}) < 2
MeshSound == step = "imported" /\ faults = 0 =>
  /\ FacesRight /\ FaceZonesRight /\ CellZonesRight
  /\ OnePatchEach(DiskMesh) /\ OwnerFirst(DiskMesh)
  /\ CellsReached /\ Len(import.cells) <= Cardinality(MeshKeys) => Valid(DiskMesh)
=============================================================================
