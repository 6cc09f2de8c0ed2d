---------------------------- MODULE RegionSplit ----------------------------
(***************************************************************************)
(* The split of a mesh into one mesh per cell zone (regions.rs).  The mesh *)
(* is read and checked, and then for each zone its faces are collected in  *)
(* one pass over the faces of the mesh, internal ones apart from those of  *)
(* each patch, laid out one after the other, and written file by file.     *)
(*                                                                         *)
(* Labels start at 1.  The nodes of a face are its label in the mesh that  *)
(* is split and whether they have been reversed; the nodes of the mesh     *)
(* turn a face out of its owner.  The name that the split makes of two     *)
(* zones may be that of a patch.  The numbering of the points is left out. *)
(***************************************************************************)
EXTENDS FoamFile

CONSTANTS
  Folded,        \* the output name of each, by which a file system may tell it from others
  InterfaceName  \* interface_<zone>_to_<other> of two names of zones

ASSUME SplitAssumption == DOMAIN Folded = Words

\* What the files of a mesh may say.
Meshes ==
  [owner : Seq(Nat), neighbour : Seq(Nat),
   patches : Seq([name : Words, type : STRING, start : Nat, count : Nat]),
   cellZones : Seq([name : Words, cells : Seq(Nat)]),
   faceZones : Seq([name : Words, faces : Seq([face : Nat, flip : BOOLEAN])])]

VARIABLES
  mesh,       \* what was read last
  pc,         \* where the split is
  zone,       \* the cell zone it is at
  face,       \* the face of the mesh
  internal,   \* internal_faces
  patches,    \* the patches of BoundaryAccumulator
  faces,      \* the faces that have been laid out
  laid,       \* the patch that is laid out next
  file,       \* the file that is written next
  region,     \* the files below each output name
  summaries   \* those of the regions written

building == <<zone, face, internal, patches, faces, laid, file>>
splitVars == <<mesh, pc, building, region, summaries>>

\* The files of a region, in the order in which they are written.
FileNames == <<"points", "faces", "owner", "neighbour", "boundary", "faceZones", "cellZones">>
FileSet == {FileNames[i] : i \in DOMAIN FileNames}

NoFiles == [f \in FileSet |-> Unreadable]

-----------------------------------------------------------------------------
(***************************************************************************)
(* The mesh, what is checked of it, and its lookup tables.                 *)
(***************************************************************************)
NoCell == 0
FacesOf(m) == DOMAIN m.owner
NeighbourOf(m, f) == IF f \in DOMAIN m.neighbour THEN m.neighbour[f] ELSE NoCell
Labels(m) == {m.owner[f] : f \in DOMAIN m.owner} \cup {m.neighbour[f] : f \in DOMAIN m.neighbour}
PatchRange(p) == p.start .. p.start + p.count - 1

\* PolyMesh::read: sizes, labels from 1 on without a gap, ranges of patches, labels in zones.
Valid(m) ==
  /\ Len(m.neighbour) <= Len(m.owner)
  /\ \E n \in 0 .. Len(m.owner) :
       /\ Labels(m) = 1 .. n
       /\ \A z \in DOMAIN m.cellZones : \A i \in DOMAIN m.cellZones[z].cells :
            m.cellZones[z].cells[i] \in 1 .. n
  /\ \A p \in DOMAIN m.patches :
       /\ Len(m.neighbour) < m.patches[p].start
       /\ m.patches[p].start + m.patches[p].count - 1 <= Len(m.owner)
  /\ \A z \in DOMAIN m.faceZones : \A i \in DOMAIN m.faceZones[z].faces :
       m.faceZones[z].faces[i].face \in FacesOf(m)

\* The reader of the solver also wants every face in one patch at most.
OnePatchEach(m) == \A p, q \in DOMAIN m.patches :
  p # q => PatchRange(m.patches[p]) \cap PatchRange(m.patches[q]) = {}

\* Comparing the output names as they are.
ComparedAsWritten(a, b) == a = b

\* Comparing the output names as a file system without case does.
Same(a, b) == Folded[a] = Folded[b]

\* Names that would share a directory, and cells that are in two zones or twice in one.
NamesCollide(m) == \E y, z \in DOMAIN m.cellZones :
  y # z /\ Same(m.cellZones[y].name, m.cellZones[z].name)
CellsCollide(m) == \E y, z \in DOMAIN m.cellZones :
  \E i \in DOMAIN m.cellZones[y].cells, j \in DOMAIN m.cellZones[z].cells :
    <<y, i>> # <<z, j>> /\ m.cellZones[y].cells[i] = m.cellZones[z].cells[j]

Splits(m) == Valid(m) /\ m.cellZones # <<>> /\ ~NamesCollide(m) /\ ~CellsCollide(m)

CellsIn(z) == {mesh.cellZones[z].cells[i] : i \in DOMAIN mesh.cellZones[z].cells}
Local(z, c) == CHOOSE i \in DOMAIN mesh.cellZones[z].cells : mesh.cellZones[z].cells[i] = c
ZonesOf(c) == {z \in DOMAIN mesh.cellZones : c \in CellsIn(z)}
Directory(z) == Folded[mesh.cellZones[z].name]

\* The last patch whose range has the face, the first face zone that lists it, and its place there.
PatchesAt(f) == {p \in DOMAIN mesh.patches : f \in PatchRange(mesh.patches[p])}
LastPatch(f) == CHOOSE p \in PatchesAt(f) : \A q \in PatchesAt(f) : q <= p
PlacesIn(z, f) == {i \in DOMAIN mesh.faceZones[z].faces : mesh.faceZones[z].faces[i].face = f}
ListingForOwner(f) == {z \in DOMAIN mesh.faceZones :
  PlacesIn(z, f) # {} /\ mesh.owner[f] \in CellsIn(zone)}
Listing(f) == {z \in DOMAIN mesh.faceZones : PlacesIn(z, f) # {}}
FirstZone(f) == CHOOSE z \in Listing(f) : \A y \in Listing(f) : z <= y
Flipped(f) ==
  /\ Listing(f) # {}
  /\ LET z == FirstZone(f)
     IN  \E i \in PlacesIn(z, f) : mesh.faceZones[z].faces[i].flip
                                   /\ \A j \in PlacesIn(z, f) : i <= j

\* The name of a patch between zones, where y has the zone beyond, if there is one.
Between(z, y) == InterfaceName[<<mesh.cellZones[z].name,
  IF y = {} THEN "unknown" ELSE mesh.cellZones[CHOOSE x \in y : TRUE].name>>]

\* region_patch_for_face; y is the zone beyond the face, if there is one.
PatchFor(z, y, f) ==
  IF PatchesAt(f) # {}
  THEN LET p == mesh.patches[LastPatch(f)]
       IN  [name |-> p.name, type |-> p.type, flip |-> Flipped(f)]
  ELSE IF Listing(f) # {}
  THEN [name |-> mesh.faceZones[FirstZone(f)].name, type |-> "patch", flip |-> Flipped(f)]
  ELSE [name |-> Between(z, y), type |-> "patch", flip |-> FALSE]

-----------------------------------------------------------------------------
(***************************************************************************)
(* One region: a pass over the faces of the mesh, one at a time.           *)
(***************************************************************************)
SplitInit ==
  /\ mesh \in Meshes
  /\ pc = "idle"
  /\ zone = 0 /\ face = 0 /\ laid = 0 /\ file = 0
  /\ internal = <<>> /\ patches = <<>> /\ faces = <<>>
  /\ region = [d \in {Folded[n] : n \in Words} |-> NoFiles]
  /\ summaries = <<>>
  /\ faults = 0

\* build_region_mesh of zone z begins with nothing of the one before.
Starts(z) == /\ zone' = z
             /\ face' = 1
             /\ internal' = <<>> /\ patches' = <<>> /\ faces' = <<>>
             /\ laid' = 1 /\ file' = 1
             /\ pc' = "collect"

\* The zones, their names and sizes are checked before the first file; mesh' is what was read.
Begins == /\ pc \in {"idle", "failed", "done"}
          /\ summaries' = <<>>
          /\ IF Splits(mesh')
             THEN Starts(1)
             ELSE pc' = "failed" /\ UNCHANGED building
          /\ UNCHANGED <<region, faults>>

Begin == mesh' \in Meshes /\ Begins

\* The files cannot be opened or read.
CannotRead == /\ pc \in {"idle", "failed", "done"}
              /\ pc' = "failed"
              /\ summaries' = <<>>
              /\ UNCHANGED <<mesh, building, region, faults>>

Collects(f) == pc = "collect" /\ face = f /\ f \in FacesOf(mesh)
Next1 == face' = face + 1 /\ UNCHANGED <<mesh, pc, zone, faces, laid, file, region, summaries, faults>>

OwnerIn(f) == mesh.owner[f] \in CellsIn(zone)
NeighbourIn(f) == NeighbourOf(mesh, f) \in CellsIn(zone)
NodesAsGiven(f, reversed) == [of |-> f, reversed |-> FALSE]
Nodes(f, reversed) == [of |-> f, reversed |-> reversed]
RegionFace(nodes, owner, neighbour) == [nodes |-> nodes, owner |-> owner, neighbour |-> neighbour]

KeepInternal(f) == /\ Collects(f)
                   /\ OwnerIn(f) /\ NeighbourIn(f)
                   /\ internal' = Append(internal, RegionFace(Nodes(f, FALSE),
                        Local(zone, mesh.owner[f]), Local(zone, mesh.neighbour[f])))
                   /\ Next1 /\ UNCHANGED patches

\* BoundaryAccumulator::push: the first face gives a patch its type.
WithFace(p, one, f) == [p EXCEPT !.flipped = p.flipped + one, !.faces = Append(p.faces, f)]
Push(patch, f) ==
  LET found == {p \in DOMAIN patches : patches[p].name = patch.name}
      one == IF patch.flip THEN 1 ELSE 0
  IN  \/ /\ found = {}
         /\ patches' = Append(patches, [name |-> patch.name, type |-> patch.type, start |-> 0,
                                        flipped |-> one, faces |-> <<f>>])
      \/ \E p \in found : patches' = [patches EXCEPT ![p] = WithFace(patches[p], one, f)]

KeepOwned(f) ==
  /\ Collects(f)
  /\ OwnerIn(f) /\ ~NeighbourIn(f)
  /\ Push(PatchFor(zone, ZonesOf(NeighbourOf(mesh, f)), f),
          RegionFace(Nodes(f, FALSE), Local(zone, mesh.owner[f]), NoCell))
  /\ Next1 /\ UNCHANGED internal

\* The region is beyond the face: its nodes are reversed.
KeepReversed(f) ==
  /\ Collects(f)
  /\ ~OwnerIn(f) /\ NeighbourIn(f)
  /\ Push(PatchFor(zone, IF ZonesOf(mesh.owner[f]) = {} THEN {zone} ELSE ZonesOf(mesh.owner[f]), f),
          RegionFace(Nodes(f, TRUE), Local(zone, mesh.neighbour[f]), NoCell))
  /\ Next1 /\ UNCHANGED internal

PassBy(f) == /\ Collects(f)
             /\ ~OwnerIn(f) /\ ~NeighbourIn(f)
             /\ Next1 /\ UNCHANGED <<internal, patches>>

Collected == /\ pc = "collect"
             /\ face \notin FacesOf(mesh)
             /\ faces' = internal
             /\ pc' = "lay"
             /\ UNCHANGED <<mesh, zone, face, internal, patches, laid, file, region, summaries, faults>>

\* The place of the next face without those of the patches before, and with them.
StartOfFirst == Len(internal) + 1
StartHere == Len(faces) + 1

\* into_patches: one patch after the other.
Lay == /\ pc = "lay"
       /\ laid \in DOMAIN patches
       /\ patches' = [patches EXCEPT ![laid].start = StartHere]
       /\ faces' = faces \o patches[laid].faces
       /\ laid' = laid + 1
       /\ UNCHANGED <<mesh, pc, zone, face, internal, file, region, summaries, faults>>

Laid == /\ pc = "lay"
        /\ laid \notin DOMAIN patches
        /\ pc' = "write"
        /\ UNCHANGED <<mesh, building, region, summaries, faults>>

-----------------------------------------------------------------------------
(***************************************************************************)
(* The files of a region.  Nothing waits for what a buffered writer still  *)
(* holds when it is dropped: an error there goes unseen.                   *)
(***************************************************************************)
Content(f) ==
  CASE f = "faces" -> [i \in DOMAIN faces |-> faces[i].nodes]
    [] f = "owner" -> [i \in DOMAIN faces |-> faces[i].owner]
    [] f = "neighbour" -> [i \in DOMAIN internal |-> faces[i].neighbour]
    [] f = "boundary" -> [p \in DOMAIN patches |->
         [name |-> patches[p].name, type |-> patches[p].type,
          start |-> patches[p].start, count |-> Len(patches[p].faces)]]
    [] f \in {"points", "faceZones", "cellZones"} -> <<>>

Writes(c) == region' = [region EXCEPT ![Directory(zone)][FileNames[file]] = c]

WriteFile == /\ pc = "write"
             /\ file \in DOMAIN FileNames
             /\ Writes(Reads(Content(FileNames[file])))
             /\ file' = file + 1
             /\ UNCHANGED <<mesh, pc, zone, face, internal, patches, faces, laid, summaries, faults>>

LoseEnd == /\ pc = "write"
           /\ file \in DOMAIN FileNames
           /\ Fault
           /\ \E c \in Torn(FileNames[file], Content(FileNames[file])) : Writes(c)
           /\ file' = file + 1
           /\ UNCHANGED <<mesh, pc, zone, face, internal, patches, faces, laid, summaries>>

\* An error that is seen, or the end of the process; the directory may not even be made.
WriteFails == /\ pc = "write"
              /\ file \in DOMAIN FileNames
              /\ Fault
              /\ \/ \E c \in Torn(FileNames[file], Content(FileNames[file])) : Writes(c)
                 \/ UNCHANGED region
              /\ pc' = "failed"
              /\ summaries' = <<>>
              /\ UNCHANGED <<mesh, building>>

Summary == [name |-> mesh.cellZones[zone].name,
            cells |-> Len(mesh.cellZones[zone].cells),
            faces |-> Len(faces), internal |-> Len(internal), boundary |-> Content("boundary")]

\* The next zone, or the end.
Written == /\ pc = "write"
           /\ file \notin DOMAIN FileNames
           /\ summaries' = Append(summaries, Summary)
           /\ IF zone < Len(mesh.cellZones)
              THEN Starts(zone + 1)
              ELSE pc' = "done" /\ UNCHANGED building
           /\ UNCHANGED <<mesh, region, faults>>

SplitStep == \/ CannotRead
             \/ \E f \in FacesOf(mesh) : \/ KeepInternal(f) \/ KeepOwned(f)
                                         \/ KeepReversed(f) \/ PassBy(f)
             \/ Collected \/ Lay \/ Laid
             \/ WriteFile \/ LoseEnd \/ WriteFails \/ Written

\* A write of another program goes wrong.
Elsewhere == Fault /\ UNCHANGED splitVars

SplitSpec == SplitInit /\ [][Begin \/ SplitStep \/ Elsewhere]_<<splitVars, faults>>

-----------------------------------------------------------------------------
TypeOK ==
  /\ mesh \in Meshes
  /\ pc \in {"idle", "collect", "lay", "write", "done", "failed"}
  /\ zone \in Nat /\ face \in Nat /\ laid \in Nat /\ file \in Nat

(***************************************************************************)
(* A region has every face of its cells once and no other: as an internal  *)
(* face with both of its cells when both are in the zone, and otherwise    *)
(* with the one that is, turned out of it.  (regions.rs, build_region_mesh)*)
(***************************************************************************)
Touches(f) == OwnerIn(f) \/ NeighbourIn(f)
Turned(i) == LET g == faces[i]
                 f == g.nodes.of
             IN  /\ g.nodes.reversed <=> ~OwnerIn(f)
                 /\ g.owner \in DOMAIN mesh.cellZones[zone].cells
                 /\ mesh.cellZones[zone].cells[g.owner] =
                      IF OwnerIn(f) THEN mesh.owner[f] ELSE mesh.neighbour[f]
                 /\ i <= Len(internal) <=> OwnerIn(f) /\ NeighbourIn(f)
                 /\ i <= Len(internal) =>
                      /\ g.neighbour \in DOMAIN mesh.cellZones[zone].cells
                      /\ mesh.cellZones[zone].cells[g.neighbour] = mesh.neighbour[f]
Conserved == pc = "write" =>
  /\ {faces[i].nodes.of : i \in DOMAIN faces} = {f \in FacesOf(mesh) : Touches(f)}
  /\ \A i, j \in DOMAIN faces : faces[i].nodes.of = faces[j].nodes.of => i = j
  /\ \A i \in DOMAIN faces : Turned(i)

(***************************************************************************)
(* A region that has been written is not written to by the region of       *)
(* another zone.  (regions.rs, unique_region_output_names)                 *)
(***************************************************************************)
OwnRegion == [][\A z \in DOMAIN summaries :
  zone # z => region'[Directory(z)] = region[Directory(z)]]_splitVars

(***************************************************************************)
(* The two sides of an interface between regions list the same faces in    *)
(* the same order, each once, each patch facing one patch: what is coupled *)
(* across it may go by the place of a face.  Unless the mesh has a patch   *)
(* or a face zone of the name that the split gives to the interface: one   *)
(* side may then have its faces with those of the interface.               *)
(***************************************************************************)
Whole(z) == \A f \in FileSet : region[Directory(z)][f].readable
FileOf(z, f) == region[Directory(z)][f].data
Complete(z) == Whole(z) /\ FileOf(z, "boundary") = summaries[z].boundary
GivenNames == {mesh.patches[p].name : p \in DOMAIN mesh.patches}
              \cup {mesh.faceZones[z].name : z \in DOMAIN mesh.faceZones}
NamesBetween(z, y) == {Between(z, {y}), Between(y, {z})}
OtherCell(z, f) == IF mesh.owner[f] \in CellsIn(z) THEN NeighbourOf(mesh, f) ELSE mesh.owner[f]
LabelAt(z, i) == FileOf(z, "faces")[i].of
Facing(z, y, p) == {i \in PatchRange(FileOf(z, "boundary")[p]) : OtherCell(z, LabelAt(z, i)) \in CellsIn(y)}
SameFaces(z, y, here, there) ==
  /\ {LabelAt(z, i) : i \in here} = {LabelAt(y, j) : j \in there}
  /\ \A h, i \in here : \A j, k \in there :
       LabelAt(z, h) = LabelAt(y, j) /\ LabelAt(z, i) = LabelAt(y, k) => (h < i <=> j < k)
SidesMatch == \A z, y \in DOMAIN summaries :
  z # y /\ Complete(z) /\ Complete(y) /\ NamesBetween(z, y) \cap GivenNames = {} =>
    \A p \in DOMAIN FileOf(z, "boundary") : Facing(z, y, p) # {} =>
      \E q \in DOMAIN FileOf(y, "boundary") : SameFaces(z, y, Facing(z, y, p), Facing(y, z, q))

(***************************************************************************)
(* The files of a region that the split has reported read back as what it  *)
(* reported, and keep the owner before the neighbour if the mesh did.  A   *)
(* lost end of a file is noticed, except that the last patches may be      *)
(* missing.  The reader also wants as many faces as cells, which they are  *)
(* if no cell has a single face.  (regions.rs, PolyMesh::read;             *)
(* poly_mesh.rs, PolyMesh::read)                                           *)
(***************************************************************************)
AsMesh(z) == [owner |-> FileOf(z, "owner"), neighbour |-> FileOf(z, "neighbour"),
              patches |-> FileOf(z, "boundary"), cellZones |-> <<>>, faceZones |-> <<>>]
OwnerFirst(m) == \A f \in DOMAIN m.neighbour : m.owner[f] < m.neighbour[f]
Ascending(z) == \A i, j \in DOMAIN mesh.cellZones[z].cells :
  i < j => mesh.cellZones[z].cells[i] < mesh.cellZones[z].cells[j]
TwoFacesEach(z) == \A c \in CellsIn(z) : \E f, g \in FacesOf(mesh) :
  f # g /\ c \in {mesh.owner[f], NeighbourOf(mesh, f)} /\ c \in {mesh.owner[g], NeighbourOf(mesh, g)}
ReadBack == \A z \in DOMAIN summaries : Whole(z) =>
  LET m == AsMesh(z)
      n == Len(m.patches)
  IN  /\ TwoFacesEach(z) => Valid(m)
      /\ OnePatchEach(m)
      /\ Len(FileOf(z, "faces")) = Len(m.owner)
      /\ Len(m.owner) = summaries[z].faces
      /\ Len(m.neighbour) = summaries[z].internal
      /\ Labels(m) = 1 .. summaries[z].cells
      /\ n <= Len(summaries[z].boundary) /\ m.patches = SubSeq(summaries[z].boundary, 1, n)
      /\ faults = 0 => m.patches = summaries[z].boundary
      /\ OwnerFirst(mesh) /\ Ascending(z) => OwnerFirst(m)

(***************************************************************************)
(* "existing external boundary patch names and types are preserved"        *)
(* (docs/user-guide.md:301), in every region that has the face.            *)
(***************************************************************************)
FacesUnder(z, n, type) == {i \in DOMAIN FileOf(z, "faces") :
  \E q \in DOMAIN FileOf(z, "boundary") :
    LET p == FileOf(z, "boundary")[q]
    IN  p.name = n /\ p.type = type /\ i \in PatchRange(p)}
PatchKept == \A z \in DOMAIN summaries : Complete(z) =>
  \A f \in FacesOf(mesh) : PatchesAt(f) # {} /\ mesh.owner[f] \in CellsIn(z) =>
    LET p == mesh.patches[LastPatch(f)]
    IN  \E i \in FacesUnder(z, p.name, p.type) : FileOf(z, "faces")[i].of = f
=============================================================================
