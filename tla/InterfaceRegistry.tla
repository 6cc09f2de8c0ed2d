-------------------------- MODULE InterfaceRegistry --------------------------
(***************************************************************************)
(* The registry of the interfaces between regions (regions.rs,             *)
(* build_interface_registry): the entries of the face zones, counted by    *)
(* the name of the zone and the two regions, in the direction from the     *)
(* region that comes first by name; and an interface of constant/interfaces*)
(* that is looked up in it (interfaces.rs).                                *)
(***************************************************************************)
EXTENDS RegionSplit, FiniteSets

\* An entry is its face zone and its place there.
Entries == UNION {{z} \X DOMAIN mesh.faceZones[z].faces : z \in DOMAIN mesh.faceZones}
Entry(e) == mesh.faceZones[e[1]].faces[e[2]]
ZoneName(z) == mesh.cellZones[z].name
FirstByName(a, b) == NameRank[ZoneName(a)] <= NameRank[ZoneName(b)]

\* The entries of an interface; those in one region or of unknown cells are counted apart.
EntriesBetween(n, a, b) == {e \in Entries :
  /\ mesh.faceZones[e[1]].name = n
  /\ Entry(e).face \in DOMAIN mesh.neighbour
  /\ \/ mesh.owner[Entry(e).face] \in CellsIn(a) /\ mesh.neighbour[Entry(e).face] \in CellsIn(b)
     \/ mesh.owner[Entry(e).face] \in CellsIn(b) /\ mesh.neighbour[Entry(e).face] \in CellsIn(a)}

\* The mesh turns the face from a to b, and from b to a.
FromSecond(e, a) == mesh.neighbour[Entry(e).face] \in CellsIn(a)
FromFirst(e, a) == mesh.owner[Entry(e).face] \in CellsIn(a)

\* InterfaceAccumulator::add of all entries.
Registered(n, a, b) ==
  LET all == EntriesBetween(n, a, b)
  IN  [faces |-> Cardinality(all),
       meshAToB |-> Cardinality({e \in all : FromFirst(e, a)}),
       zoneAToB |-> Cardinality({e \in all : FromFirst(e, a) # Entry(e).flip})]

\* mesh_faces of a configured interface of face zone n between two regions, in either order.
MeshFaces(n, z, y) ==
  LET r == IF FirstByName(z, y) THEN Registered(n, z, y) ELSE Registered(n, y, z)
  IN  IF r.faces = 0 THEN {} ELSE {r.faces}

(***************************************************************************)
(* The registry and the split agree on an interface, from either side: it  *)
(* has the faces of the patches that have its name, and turns those from   *)
(* the first region to the second that the first did not have to reverse   *)
(* and the second did.  A name that the split gives to the interface is    *)
(* left out.  (docs/user-guide.md:212, Interface Registry)                 *)
(***************************************************************************)
FaceAt(z, i) == FileOf(z, "faces")[i]
Side(n, z, y) == {i \in DOMAIN FileOf(z, "faces") :
  /\ OtherCell(z, FaceAt(z, i).of) \in CellsIn(y)
  /\ \E q \in DOMAIN FileOf(z, "boundary") :
       /\ FileOf(z, "boundary")[q].name = n
       /\ i \in PatchRange(FileOf(z, "boundary")[q])}
ListedOnce == \A d, e \in Entries : Entry(d).face = Entry(e).face => d = e
RegistryAgrees == \A a, b \in DOMAIN summaries :
  a # b /\ Complete(a) /\ Complete(b) /\ ListedOnce /\ FirstByName(a, b) =>
    \A n \in Words \ NamesBetween(a, b) :
      LET forward(z) == {i \in Side(n, z, IF z = a THEN b ELSE a) : ~FaceAt(z, i).reversed}
      IN  /\ {Cardinality(Side(n, a, b)), Cardinality(Side(n, b, a))} \ {0} = MeshFaces(n, b, a)
          /\ Registered(n, a, b).meshAToB = Cardinality(forward(a))
          /\ Registered(n, a, b).meshAToB = Cardinality(Side(n, b, a) \ forward(b))
=============================================================================
