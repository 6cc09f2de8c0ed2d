------------------------- MODULE MeshPipelineProofs -------------------------
(***************************************************************************)
(* Proofs about MeshPipeline, for any mesh: first about its splits alone   *)
(* (RegionSplit and InterfaceRegistry), then about its imports.            *)
(*                                                                         *)
(* Splits.  A first inductive invariant, IInv, has the faces: a region has *)
(* every face of its cells once, and no region is written over another.    *)
(* Where a face of a patch stands is a slot; what Push does to the slots   *)
(* is PushFacts.  A second one, JInv, has the names and the order of the   *)
(* faces of a patch, the ranges, and the files: what has been written      *)
(* reads back as what was reported, and the two sides of an interface      *)
(* match, and the registry.                                                *)
(*                                                                         *)
(* Imports.  ImportInv has the faces found and the files, whole or not.    *)
(* FaceIndices is a function by recursion: ChainExists makes one by        *)
(* induction, and LaidAll follows it patch by patch.  The splits of a      *)
(* pipeline are then splits of RegionSplit, whatever it finds on the disk. *)
(***************************************************************************)
EXTENDS MeshPipeline, SequenceTheorems, FiniteSetTheorems, WellFoundedInduction, TLAPS

\* The faces, patches and summaries that are built, of whatever names.
RFace == [nodes : [of : Nat, reversed : BOOLEAN], owner : Nat, neighbour : Nat]
Patch(N, T) == [name : N, type : T, start : Nat, flipped : Nat, faces : Seq(RFace)]
HasPatches == \E N, T : patches \in Seq(Patch(N, T))
BuiltOK == /\ internal \in Seq(RFace) /\ faces \in Seq(RFace) /\ HasPatches
           /\ \E S : summaries \in Seq(S)

Building == pc \in {"collect", "lay", "write"}
Slot(p, i) == p \in DOMAIN patches /\ i \in DOMAIN patches[p].faces
SlotFace(p, i) == patches[p].faces[i]

\* The zone that is built, and the regions before it.
Zones ==
  /\ Building => /\ Splits(mesh) /\ zone \in DOMAIN mesh.cellZones
                 /\ Len(summaries) + 1 = zone
  /\ DOMAIN region = {Folded[n] : n \in Words}

IsLocal(n, c) == /\ n \in DOMAIN mesh.cellZones[zone].cells
                 /\ mesh.cellZones[zone].cells[n] = c

\* A face as it should be in the region, between two of its cells or at its boundary.
Inside(g) ==
  LET f == g.nodes.of
  IN  /\ f \in FacesOf(mesh) /\ OwnerIn(f) /\ NeighbourIn(f) /\ ~g.nodes.reversed
      /\ IsLocal(g.owner, mesh.owner[f]) /\ IsLocal(g.neighbour, mesh.neighbour[f])
Outer(g) ==
  LET f == g.nodes.of
  IN  /\ f \in FacesOf(mesh) /\ Touches(f) /\ ~(OwnerIn(f) /\ NeighbourIn(f))
      /\ g.nodes.reversed <=> ~OwnerIn(f)
      /\ IsLocal(g.owner, IF OwnerIn(f) THEN mesh.owner[f] ELSE mesh.neighbour[f])

\* The faces passed so far are in internal or in a slot, each once.
InternalIn == \A i \in DOMAIN internal : Inside(internal[i]) /\ internal[i].nodes.of < face
InternalOnce == \A i, j \in DOMAIN internal : internal[i].nodes.of = internal[j].nodes.of => i = j
SlotsOut == \A p, i : Slot(p, i) => Outer(SlotFace(p, i)) /\ SlotFace(p, i).nodes.of < face
SlotsOnce == \A p, i, q, j :
  Slot(p, i) /\ Slot(q, j) /\ SlotFace(p, i).nodes.of = SlotFace(q, j).nodes.of => p = q /\ i = j
InInternal(f) == \E i \in DOMAIN internal : internal[i].nodes.of = f
InSlot(f) == \E p, i : Slot(p, i) /\ SlotFace(p, i).nodes.of = f
Passed == \A f \in FacesOf(mesh) : f < face /\ Touches(f) => InInternal(f) \/ InSlot(f)
Collecting ==
  pc = "collect" => /\ laid = 1 /\ face # 0
                    /\ InternalIn /\ InternalOnce /\ SlotsOut /\ SlotsOnce /\ Passed

\* The faces laid out, and the slots still to come.
Rest(p, i) == Slot(p, i) /\ laid <= p
LaidOut ==
  /\ Len(internal) <= Len(faces)
  /\ \A i \in DOMAIN faces : IF i <= Len(internal) THEN Inside(faces[i]) ELSE Outer(faces[i])
  /\ \A i, j \in DOMAIN faces : faces[i].nodes.of = faces[j].nodes.of => i = j
RestOut == \A p, i : Rest(p, i) => Outer(SlotFace(p, i))
RestOnce == \A p, i, q, j :
  Rest(p, i) /\ Rest(q, j) /\ SlotFace(p, i).nodes.of = SlotFace(q, j).nodes.of => p = q /\ i = j
RestApart == \A p, i, n :
  Rest(p, i) /\ n \in DOMAIN faces => SlotFace(p, i).nodes.of # faces[n].nodes.of
InFaces(f) == \E n \in DOMAIN faces : faces[n].nodes.of = f
InRest(f) == \E p, i : Rest(p, i) /\ SlotFace(p, i).nodes.of = f
Kept == \A f \in FacesOf(mesh) : Touches(f) => InFaces(f) \/ InRest(f)
Laying ==
  pc = "lay" => laid # 0 /\ LaidOut /\ RestOut /\ RestOnce /\ RestApart /\ Kept

Writing ==
  pc = "write" => LaidOut /\ \A f \in FacesOf(mesh) : Touches(f) => InFaces(f)

SplitNext == Begin \/ SplitStep \/ Elsewhere
IInv == TypeOK /\ BuiltOK /\ Zones /\ Collecting /\ Laying /\ Writing
-----------------------------------------------------------------------------
(***************************************************************************)
(* Sequences.                                                              *)
(***************************************************************************)
LEMMA AppendFacts ==
  ASSUME NEW S, NEW s \in Seq(S), NEW e \in S
  PROVE  /\ Append(s, e) \in Seq(S)
         /\ Len(s) \in Nat /\ Len(Append(s, e)) = Len(s) + 1
         /\ Len(s) + 1 \notin DOMAIN s
         /\ DOMAIN Append(s, e) = DOMAIN s \cup {Len(s) + 1}
         /\ Append(s, e)[Len(s) + 1] = e
         /\ \A i \in DOMAIN s : Append(s, e)[i] = s[i]
<1>1. Append(s, e) \in Seq(S) /\ Len(Append(s, e)) = Len(s) + 1 /\ Len(s) \in Nat
  BY AppendProperties
<1>2. DOMAIN s = 1 .. Len(s) /\ DOMAIN Append(s, e) = 1 .. Len(s) + 1
  BY <1>1
<1>3. DOMAIN Append(s, e) = DOMAIN s \cup {Len(s) + 1} /\ Len(s) + 1 \notin DOMAIN s
  BY <1>1, <1>2
<1>4. Append(s, e)[Len(s) + 1] = e /\ \A i \in 1 .. Len(s) : Append(s, e)[i] = s[i]
  BY AppendProperties
<1> QED
  BY <1>1, <1>2, <1>3, <1>4

LEMMA ConcatFacts ==
  ASSUME NEW S, NEW s \in Seq(S), NEW t \in Seq(S)
  PROVE  /\ s \o t \in Seq(S)
         /\ Len(s) \in Nat /\ Len(s) <= Len(s \o t)
         /\ \A i \in DOMAIN s : /\ i \in DOMAIN (s \o t) /\ (s \o t)[i] = s[i]
                               /\ i <= Len(s)
         /\ \A j \in DOMAIN t : Len(s) + j \in DOMAIN (s \o t) /\ (s \o t)[Len(s) + j] = t[j]
         /\ \A i \in DOMAIN (s \o t) :
              \/ i \in DOMAIN s
              \/ \E j \in DOMAIN t : i = Len(s) + j
<1>1. s \o t \in Seq(S) /\ Len(s \o t) = Len(s) + Len(t) /\ Len(s) \in Nat /\ Len(t) \in Nat
  BY ConcatProperties
<1>2. /\ DOMAIN s = 1 .. Len(s) /\ DOMAIN t = 1 .. Len(t)
      /\ DOMAIN (s \o t) = 1 .. Len(s) + Len(t)
  BY <1>1
<1>3. \A i \in 1 .. Len(s) + Len(t) :
        (s \o t)[i] = IF i <= Len(s) THEN s[i] ELSE t[i - Len(s)]
  BY ConcatProperties
<1>4. ASSUME NEW i \in DOMAIN s
      PROVE  i \in DOMAIN (s \o t) /\ (s \o t)[i] = s[i] /\ i <= Len(s)
  BY <1>1, <1>2, <1>3
<1>5. ASSUME NEW j \in DOMAIN t
      PROVE  Len(s) + j \in DOMAIN (s \o t) /\ (s \o t)[Len(s) + j] = t[j]
  <2>1. Len(s) + j \in 1 .. Len(s) + Len(t) /\ ~(Len(s) + j <= Len(s)) /\ Len(s) + j - Len(s) = j
    BY <1>1, <1>2
  <2> QED
    BY <1>2, <1>3, <2>1
<1>6. ASSUME NEW i \in DOMAIN (s \o t)
      PROVE  i \in DOMAIN s \/ \E j \in DOMAIN t : i = Len(s) + j
  <2>1. CASE i > Len(s)
    <3>1. i - Len(s) \in 1 .. Len(t) /\ i = Len(s) + (i - Len(s))
      BY <1>1, <1>2, <2>1
    <3> QED
      BY <1>2, <3>1
  <2>2. CASE ~(i > Len(s))
    BY <1>1, <1>2, <2>2
  <2> QED
    BY <2>1, <2>2
<1> QED
  BY <1>1, <1>4, <1>5, <1>6

LEMMA SeqOf ==
  ASSUME NEW S, NEW n \in Nat, NEW f \in [1 .. n -> S]
  PROVE  f \in Seq(S) /\ Len(f) = n
  OBVIOUS

LEMMA WiderSeq ==
  ASSUME NEW S, NEW U, S \subseteq U, NEW s \in Seq(S)
  PROVE  s \in Seq(U)
  OBVIOUS

LEMMA EntryIn ==
  ASSUME NEW S, NEW s \in Seq(S), NEW i \in DOMAIN s
  PROVE  s[i] \in S
  OBVIOUS

LEMMA ReplacedIn ==
  ASSUME NEW S, NEW s \in Seq(S), NEW i \in DOMAIN s, NEW e \in S
  PROVE  [s EXCEPT ![i] = e] \in Seq(S)
  BY ExceptSeq

\* One slot more, with the face in it; the others keep theirs.
PushedTo(p, i, g) ==
  /\ ~Slot(p, i) /\ Slot(p, i)' /\ SlotFace(p, i)' = g
  /\ \A q, j : Slot(q, j)' <=> Slot(q, j) \/ (q = p /\ j = i)
  /\ \A q, j : Slot(q, j) => SlotFace(q, j)' = SlotFace(q, j)

LEMMA PushFacts ==
  ASSUME HasPatches, NEW patch, NEW g \in RFace, Push(patch, g)
  PROVE  HasPatches' /\ \E p, i : PushedTo(p, i, g)
<1>1. PICK N, T : patches \in Seq(Patch(N, T))
  BY DEF HasPatches
<1> DEFINE named == {p \in DOMAIN patches : patches[p].name = patch.name}
           one == IF patch.flip THEN 1 ELSE 0
<1>2. one \in Nat
  OBVIOUS
<1>3. \A p \in DOMAIN patches : patches[p] \in Patch(N, T)
  BY <1>1
<1>4. CASE named = {} /\ patches' = Append(patches, [name |-> patch.name, type |-> patch.type,
                            start |-> 0, flipped |-> one, faces |-> <<g>>])
  <2> DEFINE e == [name |-> patch.name, type |-> patch.type, start |-> 0,
                   flipped |-> one, faces |-> <<g>>]
             M == N \cup {patch.name}
             U == T \cup {patch.type}
  <2>1. patches' = Append(patches, e)
    BY <1>4
  <2>2. <<g>> \in Seq(RFace) /\ DOMAIN <<g>> = {1} /\ <<g>>[1] = g
    OBVIOUS
  <2>3. e \in Patch(M, U) /\ e.faces = <<g>>
    BY <1>2, <2>2 DEF Patch
  <2>4. Patch(N, T) \subseteq Patch(M, U)
    BY DEF Patch
  <2>5. patches \in Seq(Patch(M, U))
    BY <1>1, <2>4, WiderSeq
  <2> HIDE DEF e
  <2>6. /\ patches' \in Seq(Patch(M, U))
        /\ Len(patches) + 1 \notin DOMAIN patches
        /\ DOMAIN patches' = DOMAIN patches \cup {Len(patches) + 1}
        /\ patches'[Len(patches) + 1] = e
        /\ \A p \in DOMAIN patches : patches'[p] = patches[p]
    BY <2>1, <2>3, <2>5, AppendFacts
  <2> DEFINE single == <<g>>
  <2>7. PICK n : /\ n \notin DOMAIN patches /\ DOMAIN patches' = DOMAIN patches \cup {n}
                 /\ patches'[n].faces = single /\ DOMAIN single = {1} /\ single[1] = g
                 /\ \A p \in DOMAIN patches : patches'[p] = patches[p]
    BY <2>2, <2>3, <2>6
  <2> HIDE DEF e, single
  <2>8. ~Slot(n, 1) /\ Slot(n, 1)' /\ SlotFace(n, 1)' = g
    BY <2>7 DEF Slot, SlotFace
  <2>9. \A q, j : Slot(q, j)' <=> Slot(q, j) \/ (q = n /\ j = 1)
    BY <2>7 DEF Slot
  <2>10. \A q, j : Slot(q, j) => SlotFace(q, j)' = SlotFace(q, j)
    BY <2>7 DEF Slot, SlotFace
  <2>11. PushedTo(n, 1, g)
    BY <2>8, <2>9, <2>10 DEF PushedTo
  <2>12. HasPatches'
    BY <2>6 DEF HasPatches
  <2> QED
    BY <2>11, <2>12
<1>5. CASE \E p \in named : patches' = [patches EXCEPT ![p] = WithFace(patches[p], one, g)]
  <2>1. PICK n \in named : patches' = [patches EXCEPT ![n] = WithFace(patches[n], one, g)]
    BY <1>5
  <2>2. n \in DOMAIN patches
    OBVIOUS
  <2>3. patches[n] \in Patch(N, T)
    BY <1>3, <2>2
  <2>4. patches[n].faces \in Seq(RFace) /\ patches[n].flipped \in Nat
    BY <2>3 DEF Patch
  <2>5. PICK k, more :
          /\ more = Append(patches[n].faces, g)
          /\ more \in Seq(RFace) /\ k \notin DOMAIN patches[n].faces
          /\ DOMAIN more = DOMAIN patches[n].faces \cup {k} /\ more[k] = g
          /\ \A i \in DOMAIN patches[n].faces : more[i] = patches[n].faces[i]
    <3> DEFINE more == Append(patches[n].faces, g)
               k == Len(patches[n].faces) + 1
    <3>1. /\ more \in Seq(RFace) /\ k \notin DOMAIN patches[n].faces
          /\ DOMAIN more = DOMAIN patches[n].faces \cup {k} /\ more[k] = g
          /\ \A i \in DOMAIN patches[n].faces : more[i] = patches[n].faces[i]
      BY <2>4, AppendFacts
    <3>2. more = Append(patches[n].faces, g)
      OBVIOUS
    <3> HIDE DEF more, k
    <3> QED
      BY <3>1, <3>2
  <2>6. PICK new : new = WithFace(patches[n], one, g)
    OBVIOUS
  <2>7. /\ new \in Patch(N, T)
        /\ new.faces = more
    <3>1. new = [patches[n] EXCEPT !.flipped = patches[n].flipped + one, !.faces = more]
      BY <2>5, <2>6 DEF WithFace
    <3>2. patches[n].flipped + one \in Nat
      BY <1>2, <2>4
    <3> HIDE DEF one
    <3> QED
      BY <2>3, <2>5, <3>1, <3>2 DEF Patch
  <2>8. patches' = [patches EXCEPT ![n] = new]
    BY <2>1, <2>6
  <2>9. /\ DOMAIN patches' = DOMAIN patches /\ patches'[n] = new
        /\ \A p \in DOMAIN patches : p # n => patches'[p] = patches[p]
    BY <1>1, <2>2, <2>8
  <2>10. patches' \in Seq(Patch(N, T))
    BY <1>1, <2>7, <2>8
  <2>11. ~Slot(n, k) /\ Slot(n, k)' /\ SlotFace(n, k)' = g
    BY <2>2, <2>5, <2>7, <2>9 DEF Slot, SlotFace
  <2>12. ASSUME NEW q, NEW j
         PROVE  /\ Slot(q, j)' <=> Slot(q, j) \/ (q = n /\ j = k)
                /\ Slot(q, j) => SlotFace(q, j)' = SlotFace(q, j)
    <3>1. CASE q = n
      BY <2>2, <2>5, <2>7, <2>9, <3>1 DEF Slot, SlotFace
    <3>2. CASE q # n
      BY <2>9, <3>2 DEF Slot, SlotFace
    <3> QED
      BY <3>1, <3>2
  <2>13. PushedTo(n, k, g)
    BY <2>11, <2>12 DEF PushedTo
  <2>14. HasPatches'
    BY <2>10 DEF HasPatches
  <2> QED
    BY <2>13, <2>14
<1> QED
  BY <1>4, <1>5 DEF Push

-----------------------------------------------------------------------------
(***************************************************************************)
(* The mesh.                                                               *)
(***************************************************************************)
LEMMA MeshFacts ==
  ASSUME mesh \in Meshes, Valid(mesh), zone \in DOMAIN mesh.cellZones
  PROVE  /\ FacesOf(mesh) \subseteq Nat /\ \A n \in Nat : n \notin FacesOf(mesh) /\ n # 0 =>
                                                  \A f \in FacesOf(mesh) : f < n
         /\ \A f \in FacesOf(mesh) : f # 0
         /\ \A f : NeighbourIn(f) => NeighbourOf(mesh, f) = mesh.neighbour[f]
         /\ \A c \in CellsIn(zone) : IsLocal(Local(zone, c), c)
         /\ \A n, c : IsLocal(n, c) => n \in Nat
<1>1. /\ mesh.owner \in Seq(Nat) /\ mesh.neighbour \in Seq(Nat)
      /\ mesh.cellZones \in Seq([name : Words, cells : Seq(Nat)])
  BY DEF Meshes
<1>2. mesh.cellZones[zone].cells \in Seq(Nat)
  <2> DEFINE R == [name : Words, cells : Seq(Nat)]
  <2>1. mesh.cellZones \in Seq(R)
    BY <1>1
  <2> HIDE DEF R
  <2>2. mesh.cellZones[zone] \in R
    BY <2>1, EntryIn
  <2> QED
    BY <2>2 DEF R
<1>3. PICK n \in 0 .. Len(mesh.owner) : \A i \in DOMAIN mesh.cellZones[zone].cells :
                                       mesh.cellZones[zone].cells[i] \in 1 .. n
  BY DEF Valid
<1>4. FacesOf(mesh) = 1 .. Len(mesh.owner) /\ Len(mesh.owner) \in Nat
  BY <1>1 DEF FacesOf
<1>5. NoCell \notin CellsIn(zone)
  BY <1>3, <1>4 DEF NoCell, CellsIn
<1>6. \A f : NeighbourIn(f) => NeighbourOf(mesh, f) = mesh.neighbour[f]
  BY <1>5 DEF NeighbourIn, NeighbourOf
<1>7. ASSUME NEW c \in CellsIn(zone)
      PROVE  IsLocal(Local(zone, c), c)
  <2>1. \E i \in DOMAIN mesh.cellZones[zone].cells : mesh.cellZones[zone].cells[i] = c
    BY DEF CellsIn
  <2> QED
    BY <2>1 DEF Local, IsLocal
<1>8. \A k, c : IsLocal(k, c) => k \in Nat
  BY <1>2 DEF IsLocal
<1> QED
  BY <1>4, <1>6, <1>7, <1>8

\* What depends on the mesh and the zone alone.
LEMMA SameMesh ==
  ASSUME mesh' = mesh, zone' = zone
  PROVE  /\ FacesOf(mesh)' = FacesOf(mesh)
         /\ \A f : Touches(f)' <=> Touches(f)
         /\ \A g : (Inside(g)' <=> Inside(g)) /\ (Outer(g)' <=> Outer(g))
  BY DEF FacesOf, Touches, OwnerIn, NeighbourIn, NeighbourOf, CellsIn, Inside, Outer, IsLocal

\* A region begins with no faces.
LEMMA StartFacts ==
  ASSUME mesh' \in Meshes, NEW z \in Nat, Starts(z)
  PROVE  /\ Collecting' /\ Laying' /\ Writing'
         /\ internal' \in Seq(RFace) /\ faces' \in Seq(RFace) /\ HasPatches'
         /\ pc' = "collect" /\ zone' = z /\ face' \in Nat /\ laid' \in Nat /\ file' \in Nat
<1>1. /\ internal' = <<>> /\ patches' = <<>> /\ faces' = <<>>
      /\ pc' = "collect" /\ zone' = z /\ face' = 1 /\ laid' = 1 /\ file' = 1
  BY DEF Starts
<1>2. mesh'.owner \in Seq(Nat)
  BY DEF Meshes
<1>3. \A f \in FacesOf(mesh') : ~(f < 1)
  BY <1>2 DEF FacesOf
<1>4. Collecting'
  BY <1>1, <1>3 DEF Collecting, InternalIn, InternalOnce, SlotsOut, SlotsOnce, Passed, Slot
<1>5. Laying' /\ Writing'
  BY <1>1 DEF Laying, Writing
<1>6. HasPatches'
  <2>1. patches' \in Seq(Patch({}, {}))
    BY <1>1
  <2> QED
    BY <2>1 DEF HasPatches
<1> QED
  BY <1>1, <1>4, <1>5, <1>6

-----------------------------------------------------------------------------
(***************************************************************************)
(* The pass over the faces.  What every step of it does not touch.         *)
(***************************************************************************)
LEMMA PassFrame ==
  ASSUME IInv, NEW f, Collects(f), Next1
  PROVE  /\ TypeOK' /\ Zones' /\ Laying' /\ Writing'
         /\ faces' \in Seq(RFace) /\ (\E S : summaries' \in Seq(S))
         /\ f = face /\ f \in FacesOf(mesh) /\ pc = "collect"
         /\ face \in Nat /\ face' = face + 1 /\ laid' = 1
<1>1. /\ mesh' = mesh /\ pc' = pc /\ zone' = zone /\ faces' = faces /\ laid' = laid /\ file' = file
      /\ region' = region /\ summaries' = summaries /\ face' = face + 1
      /\ pc = "collect" /\ f = face /\ f \in FacesOf(mesh)
  BY DEF Collects, Next1
<1>2. TypeOK'
  BY <1>1 DEF IInv, TypeOK
<1>3. Zones'
  BY <1>1 DEF IInv, Zones, Building
<1>4. Laying' /\ Writing'
  BY <1>1 DEF Laying, Writing
<1>5. faces' \in Seq(RFace) /\ (\E S : summaries' \in Seq(S))
  BY <1>1 DEF IInv, BuiltOK
<1> QED
  BY <1>1, <1>2, <1>3, <1>4, <1>5 DEF IInv, TypeOK, Collecting

LEMMA ZoneFacts ==
  ASSUME IInv, Building
  PROVE  mesh \in Meshes /\ Valid(mesh) /\ zone \in DOMAIN mesh.cellZones /\ ~NamesCollide(mesh)
  BY DEF IInv, TypeOK, Zones, Splits

\* An internal face is appended.
LEMMA KeepInternalStep ==
  ASSUME IInv, NEW f, KeepInternal(f)
  PROVE  IInv'
<1> DEFINE h == RegionFace(Nodes(f, FALSE), Local(zone, mesh.owner[f]), Local(zone, mesh.neighbour[f]))
<1>1. /\ Collects(f) /\ Next1 /\ OwnerIn(f) /\ NeighbourIn(f)
      /\ internal' = Append(internal, h) /\ patches' = patches
  BY DEF KeepInternal
<1>2. /\ TypeOK' /\ Zones' /\ Laying' /\ Writing'
      /\ faces' \in Seq(RFace) /\ (\E S : summaries' \in Seq(S))
      /\ f = face /\ f \in FacesOf(mesh) /\ pc = "collect"
      /\ face \in Nat /\ face' = face + 1 /\ laid' = 1
  BY <1>1, PassFrame
<1>3. mesh \in Meshes /\ Valid(mesh) /\ zone \in DOMAIN mesh.cellZones
  BY <1>2, ZoneFacts DEF Building
<1>4. PICK g : g = h
  OBVIOUS
<1>5. /\ g \in RFace /\ g.nodes.of = f /\ Inside(g)
  <2>1. mesh.owner[f] \in CellsIn(zone) /\ mesh.neighbour[f] \in CellsIn(zone)
    BY <1>1, <1>3, MeshFacts DEF OwnerIn, NeighbourIn
  <2>2. /\ IsLocal(Local(zone, mesh.owner[f]), mesh.owner[f])
        /\ IsLocal(Local(zone, mesh.neighbour[f]), mesh.neighbour[f])
    BY <1>3, <2>1, MeshFacts
  <2>3. /\ Local(zone, mesh.owner[f]) \in Nat /\ Local(zone, mesh.neighbour[f]) \in Nat
        /\ f \in Nat
    BY <1>2, <1>3, <2>2, MeshFacts
  <2>4. /\ g = [nodes |-> [of |-> f, reversed |-> FALSE], owner |-> Local(zone, mesh.owner[f]),
                neighbour |-> Local(zone, mesh.neighbour[f])]
    BY <1>4 DEF RegionFace, Nodes
  <2> QED
    BY <1>1, <1>2, <2>2, <2>3, <2>4 DEF RFace, Inside
<1> HIDE DEF h
<1>6. internal \in Seq(RFace) /\ HasPatches
  BY DEF IInv, BuiltOK
<1>7. PICK n : /\ internal' \in Seq(RFace)
               /\ n \notin DOMAIN internal /\ DOMAIN internal' = DOMAIN internal \cup {n}
               /\ internal'[n] = g
               /\ \A i \in DOMAIN internal : internal'[i] = internal[i]
  BY <1>1, <1>4, <1>5, <1>6, AppendFacts
<1>8. /\ \A p, i : (Slot(p, i)' <=> Slot(p, i)) /\ SlotFace(p, i)' = SlotFace(p, i)
      /\ HasPatches'
  BY <1>1, <1>6 DEF Slot, SlotFace, HasPatches
<1>9. /\ FacesOf(mesh)' = FacesOf(mesh)
      /\ \A i : Touches(i)' <=> Touches(i)
      /\ \A i : (Inside(i)' <=> Inside(i)) /\ (Outer(i)' <=> Outer(i))
  <2>1. mesh' = mesh /\ zone' = zone
    BY <1>1 DEF Next1
  <2> QED
    BY <2>1, SameMesh
<1>10. InternalIn /\ InternalOnce /\ SlotsOut /\ SlotsOnce /\ Passed
  BY <1>2 DEF IInv, Collecting
<1>11. InternalIn'
  <2>1. ASSUME NEW i \in DOMAIN internal'
        PROVE  Inside(internal'[i]) /\ internal'[i].nodes.of < face + 1
    <3>1. CASE i = n
      BY <1>2, <1>5, <1>7, <3>1
    <3>2. CASE i \in DOMAIN internal
      <4>1. Inside(internal[i]) /\ internal[i].nodes.of < face
        BY <1>10, <3>2 DEF InternalIn
      <4>2. internal[i].nodes.of \in Nat
        BY <1>3, <4>1, MeshFacts DEF Inside
      <4> QED
        BY <1>2, <1>7, <3>2, <4>1, <4>2
    <3> QED
      BY <1>7, <3>1, <3>2
  <2> QED
    BY <1>2, <1>9, <2>1 DEF InternalIn
<1>12. InternalOnce'
  <2>1. \A i \in DOMAIN internal : internal[i].nodes.of # f
    BY <1>2, <1>6, <1>10 DEF InternalIn
  <2> QED
    BY <1>5, <1>7, <1>10, <2>1 DEF InternalOnce
<1>13. SlotsOut' /\ SlotsOnce'
  <2>1. ASSUME NEW p, NEW i, Slot(p, i)
        PROVE  Outer(SlotFace(p, i)) /\ SlotFace(p, i).nodes.of < face + 1
    <3>1. Outer(SlotFace(p, i)) /\ SlotFace(p, i).nodes.of < face
      BY <1>10, <2>1 DEF SlotsOut
    <3>2. SlotFace(p, i).nodes.of \in Nat
      BY <1>3, <3>1, MeshFacts DEF Outer
    <3> QED
      BY <1>2, <3>1, <3>2
  <2>2. SlotsOut'
    BY <1>2, <1>8, <1>9, <2>1 DEF SlotsOut
  <2>3. SlotsOnce'
    BY <1>8, <1>10 DEF SlotsOnce
  <2> QED
    BY <2>2, <2>3
<1>14. Passed'
  <2>1. ASSUME NEW k \in FacesOf(mesh), k < face + 1, Touches(k)
        PROVE  InInternal(k)' \/ InSlot(k)'
    <3>1. CASE k = f
      BY <1>5, <1>7, <3>1 DEF InInternal
    <3>2. CASE k # f
      <4>1. k < face
        BY <1>2, <1>3, <2>1, <3>2, MeshFacts
      <4>2. InInternal(k) \/ InSlot(k)
        BY <1>10, <2>1, <4>1 DEF Passed
      <4>3. InInternal(k) => InInternal(k)'
        BY <1>7 DEF InInternal
      <4>4. InSlot(k) => InSlot(k)'
        BY <1>8 DEF InSlot
      <4> QED
        BY <4>2, <4>3, <4>4
    <3> QED
      BY <3>1, <3>2
  <2> QED
    BY <1>2, <1>9, <2>1 DEF Passed
<1>15. Collecting'
  BY <1>2, <1>11, <1>12, <1>13, <1>14 DEF Collecting
<1> QED
  BY <1>2, <1>7, <1>8, <1>15 DEF IInv, BuiltOK

\* A face at the boundary of the region goes to a patch.
LEMMA PushStep ==
  ASSUME IInv, NEW f, Collects(f), Next1, internal' = internal,
         NEW patch, NEW g \in RFace, Push(patch, g), Outer(g), g.nodes.of = f
  PROVE  IInv'
<1>1. /\ TypeOK' /\ Zones' /\ Laying' /\ Writing'
      /\ faces' \in Seq(RFace) /\ (\E S : summaries' \in Seq(S))
      /\ f = face /\ f \in FacesOf(mesh) /\ pc = "collect"
      /\ face \in Nat /\ face' = face + 1 /\ laid' = 1
  BY PassFrame
<1>2. mesh \in Meshes /\ Valid(mesh) /\ zone \in DOMAIN mesh.cellZones
  BY <1>1, ZoneFacts DEF Building
<1>3. internal \in Seq(RFace) /\ HasPatches
  BY DEF IInv, BuiltOK
<1>4. HasPatches' /\ \E p, i : PushedTo(p, i, g)
  BY <1>3, PushFacts
<1>5. PICK n, k : PushedTo(n, k, g)
  BY <1>4
<1>6. /\ ~Slot(n, k) /\ SlotFace(n, k)' = g
      /\ \A q, j : Slot(q, j)' <=> Slot(q, j) \/ (q = n /\ j = k)
      /\ \A q, j : Slot(q, j) => SlotFace(q, j)' = SlotFace(q, j)
  BY <1>5 DEF PushedTo
<1>7. /\ FacesOf(mesh)' = FacesOf(mesh)
      /\ \A i : Touches(i)' <=> Touches(i)
      /\ \A i : (Inside(i)' <=> Inside(i)) /\ (Outer(i)' <=> Outer(i))
  <2>1. mesh' = mesh /\ zone' = zone
    BY DEF Next1
  <2> QED
    BY <2>1, SameMesh
<1>8. InternalIn /\ InternalOnce /\ SlotsOut /\ SlotsOnce /\ Passed
  BY <1>1 DEF IInv, Collecting
<1>9. InternalIn' /\ InternalOnce'
  <2>1. ASSUME NEW i \in DOMAIN internal
        PROVE  Inside(internal[i]) /\ internal[i].nodes.of < face + 1
    <3>1. Inside(internal[i]) /\ internal[i].nodes.of < face
      BY <1>8 DEF InternalIn
    <3>2. internal[i].nodes.of \in Nat
      BY <1>2, <3>1, MeshFacts DEF Inside
    <3> QED
      BY <1>1, <3>1, <3>2
  <2> QED
    BY <1>1, <1>7, <1>8, <2>1 DEF InternalIn, InternalOnce
<1>10. SlotsOut'
  <2>1. ASSUME NEW p, NEW i, Slot(p, i)'
        PROVE  Outer(SlotFace(p, i)') /\ SlotFace(p, i)'.nodes.of < face + 1
    <3>1. CASE Slot(p, i)
      <4>1. Outer(SlotFace(p, i)) /\ SlotFace(p, i).nodes.of < face
        BY <1>8, <3>1 DEF SlotsOut
      <4>2. SlotFace(p, i).nodes.of \in Nat
        BY <1>2, <4>1, MeshFacts DEF Outer
      <4> QED
        BY <1>1, <1>6, <3>1, <4>1, <4>2
    <3>2. CASE p = n /\ i = k
      BY <1>1, <1>6, <3>2
    <3> QED
      BY <1>6, <2>1, <3>1, <3>2
  <2> QED
    BY <1>1, <1>7, <2>1 DEF SlotsOut
<1>11. SlotsOnce'
  <2>1. \A p, i : Slot(p, i) => SlotFace(p, i).nodes.of # f
    BY <1>1, <1>8 DEF SlotsOut
  <2>2. \A p, i : Slot(p, i)' => IF p = n /\ i = k THEN SlotFace(p, i)'.nodes.of = f
                                  ELSE Slot(p, i) /\ SlotFace(p, i)' = SlotFace(p, i)
    BY <1>6
  <2> QED
    BY <1>8, <2>1, <2>2 DEF SlotsOnce
<1>12. Passed'
  <2>1. ASSUME NEW m \in FacesOf(mesh), m < face + 1, Touches(m)
        PROVE  InInternal(m)' \/ InSlot(m)'
    <3>1. CASE m = f
      BY <1>6, <3>1 DEF InSlot
    <3>2. CASE m # f
      <4>1. m < face
        BY <1>1, <1>2, <2>1, <3>2, MeshFacts
      <4>2. InInternal(m) \/ InSlot(m)
        BY <1>8, <2>1, <4>1 DEF Passed
      <4>3. InInternal(m) => InInternal(m)'
        BY DEF InInternal
      <4>4. InSlot(m) => InSlot(m)'
        BY <1>6 DEF InSlot
      <4> QED
        BY <4>2, <4>3, <4>4
    <3> QED
      BY <3>1, <3>2
  <2> QED
    BY <1>1, <1>7, <2>1 DEF Passed
<1>13. Collecting'
  BY <1>1, <1>9, <1>10, <1>11, <1>12 DEF Collecting
<1> QED
  BY <1>1, <1>3, <1>4, <1>13 DEF IInv, BuiltOK

LEMMA KeepOwnedStep ==
  ASSUME IInv, NEW f, KeepOwned(f)
  PROVE  IInv'
<1>1. Collects(f) /\ Next1 /\ OwnerIn(f) /\ ~NeighbourIn(f) /\ internal' = internal
  BY DEF KeepOwned
<1>2. f \in FacesOf(mesh) /\ Building
  BY <1>1 DEF Collects, Building
<1>3. mesh \in Meshes /\ Valid(mesh) /\ zone \in DOMAIN mesh.cellZones
  BY <1>2, ZoneFacts
<1>4. IsLocal(Local(zone, mesh.owner[f]), mesh.owner[f])
  BY <1>1, <1>3, MeshFacts DEF OwnerIn
<1>5. Local(zone, mesh.owner[f]) \in Nat /\ f \in Nat
  BY <1>2, <1>3, <1>4, MeshFacts
<1>6. PICK g : g = RegionFace(Nodes(f, FALSE), Local(zone, mesh.owner[f]), NoCell)
  OBVIOUS
<1>7. PICK patch : patch = PatchFor(zone, ZonesOf(NeighbourOf(mesh, f)), f)
  OBVIOUS
<1>8. Push(patch, g)
  BY <1>6, <1>7 DEF KeepOwned
<1>9. g \in RFace /\ Outer(g) /\ g.nodes.of = f
  <2>1. g = [nodes |-> [of |-> f, reversed |-> FALSE], owner |-> Local(zone, mesh.owner[f]),
             neighbour |-> 0]
    BY <1>6 DEF RegionFace, Nodes, NoCell
  <2> QED
    BY <1>1, <1>2, <1>4, <1>5, <2>1 DEF RFace, Outer, Touches
<1> QED
  BY <1>1, <1>8, <1>9, PushStep

LEMMA KeepReversedStep ==
  ASSUME IInv, NEW f, KeepReversed(f)
  PROVE  IInv'
<1>1. Collects(f) /\ Next1 /\ ~OwnerIn(f) /\ NeighbourIn(f) /\ internal' = internal
  BY DEF KeepReversed
<1>2. f \in FacesOf(mesh) /\ Building
  BY <1>1 DEF Collects, Building
<1>3. mesh \in Meshes /\ Valid(mesh) /\ zone \in DOMAIN mesh.cellZones
  BY <1>2, ZoneFacts
<1>4. IsLocal(Local(zone, mesh.neighbour[f]), mesh.neighbour[f])
  <2>1. mesh.neighbour[f] \in CellsIn(zone)
    BY <1>1, <1>3, MeshFacts DEF NeighbourIn
  <2> QED
    BY <1>3, <2>1, MeshFacts
<1>5. Local(zone, mesh.neighbour[f]) \in Nat /\ f \in Nat
  BY <1>2, <1>3, <1>4, MeshFacts
<1>6. PICK g : g = RegionFace(Nodes(f, TRUE), Local(zone, mesh.neighbour[f]), NoCell)
  OBVIOUS
<1>7. PICK patch : patch = PatchFor(zone,
               IF ZonesOf(mesh.owner[f]) = {} THEN {zone} ELSE ZonesOf(mesh.owner[f]), f)
  OBVIOUS
<1>8. Push(patch, g)
  BY <1>6, <1>7 DEF KeepReversed
<1>9. g \in RFace /\ Outer(g) /\ g.nodes.of = f
  <2>1. g = [nodes |-> [of |-> f, reversed |-> TRUE], owner |-> Local(zone, mesh.neighbour[f]),
             neighbour |-> 0]
    BY <1>6 DEF RegionFace, Nodes, NoCell
  <2> QED
    BY <1>1, <1>2, <1>4, <1>5, <2>1 DEF RFace, Outer, Touches
<1> QED
  BY <1>1, <1>8, <1>9, PushStep

\* A face without a cell in the zone.
LEMMA PassByStep ==
  ASSUME IInv, NEW f, PassBy(f)
  PROVE  IInv'
<1>1. /\ Collects(f) /\ Next1 /\ ~Touches(f) /\ internal' = internal /\ patches' = patches
  BY DEF PassBy, Touches
<1>2. /\ TypeOK' /\ Zones' /\ Laying' /\ Writing'
      /\ faces' \in Seq(RFace) /\ (\E S : summaries' \in Seq(S))
      /\ f = face /\ f \in FacesOf(mesh) /\ pc = "collect"
      /\ face \in Nat /\ face' = face + 1 /\ laid' = 1
  BY <1>1, PassFrame
<1>3. mesh \in Meshes /\ Valid(mesh) /\ zone \in DOMAIN mesh.cellZones
  BY <1>2, ZoneFacts DEF Building
<1>4. internal \in Seq(RFace) /\ HasPatches
  BY DEF IInv, BuiltOK
<1>5. /\ \A p, i : (Slot(p, i)' <=> Slot(p, i)) /\ SlotFace(p, i)' = SlotFace(p, i)
      /\ HasPatches'
  BY <1>1, <1>4 DEF Slot, SlotFace, HasPatches
<1>6. /\ FacesOf(mesh)' = FacesOf(mesh)
      /\ \A i : Touches(i)' <=> Touches(i)
      /\ \A i : (Inside(i)' <=> Inside(i)) /\ (Outer(i)' <=> Outer(i))
  <2>1. mesh' = mesh /\ zone' = zone
    BY <1>1 DEF Next1
  <2> QED
    BY <2>1, SameMesh
<1>7. InternalIn /\ InternalOnce /\ SlotsOut /\ SlotsOnce /\ Passed
  BY <1>2 DEF IInv, Collecting
<1>8. InternalIn' /\ InternalOnce'
  <2>1. ASSUME NEW i \in DOMAIN internal
        PROVE  Inside(internal[i]) /\ internal[i].nodes.of < face + 1
    <3>1. Inside(internal[i]) /\ internal[i].nodes.of < face
      BY <1>7 DEF InternalIn
    <3>2. internal[i].nodes.of \in Nat
      BY <1>3, <3>1, MeshFacts DEF Inside
    <3> QED
      BY <1>2, <3>1, <3>2
  <2> QED
    BY <1>1, <1>2, <1>6, <1>7, <2>1 DEF InternalIn, InternalOnce
<1>9. SlotsOut' /\ SlotsOnce'
  <2>1. ASSUME NEW p, NEW i, Slot(p, i)
        PROVE  Outer(SlotFace(p, i)) /\ SlotFace(p, i).nodes.of < face + 1
    <3>1. Outer(SlotFace(p, i)) /\ SlotFace(p, i).nodes.of < face
      BY <1>7, <2>1 DEF SlotsOut
    <3>2. SlotFace(p, i).nodes.of \in Nat
      BY <1>3, <3>1, MeshFacts DEF Outer
    <3> QED
      BY <1>2, <3>1, <3>2
  <2>2. SlotsOut'
    BY <1>2, <1>5, <1>6, <2>1 DEF SlotsOut
  <2>3. SlotsOnce'
    BY <1>5, <1>7 DEF SlotsOnce
  <2> QED
    BY <2>2, <2>3
<1>10. Passed'
  <2>1. ASSUME NEW k \in FacesOf(mesh), k < face + 1, Touches(k)
        PROVE  InInternal(k)' \/ InSlot(k)'
    <3>1. k < face
      BY <1>1, <1>2, <1>3, <2>1, MeshFacts
    <3>2. InInternal(k) \/ InSlot(k)
      BY <1>7, <2>1, <3>1 DEF Passed
    <3>3. (InInternal(k) => InInternal(k)') /\ (InSlot(k) => InSlot(k)')
      BY <1>1, <1>5 DEF InInternal, InSlot
    <3> QED
      BY <3>2, <3>3
  <2> QED
    BY <1>2, <1>6, <2>1 DEF Passed
<1>11. Collecting'
  BY <1>2, <1>8, <1>9, <1>10 DEF Collecting
<1> QED
  BY <1>1, <1>2, <1>4, <1>5, <1>11 DEF IInv, BuiltOK

-----------------------------------------------------------------------------
(***************************************************************************)
(* Laying out the faces.                                                   *)
(***************************************************************************)
\* All faces have been passed; the patches are still to come.
LEMMA CollectedStep ==
  ASSUME IInv, Collected
  PROVE  IInv'
<1>1. /\ mesh' = mesh /\ zone' = zone /\ internal' = internal /\ patches' = patches
      /\ faces' = internal /\ pc = "collect" /\ pc' = "lay" /\ laid' = laid /\ face' = face
      /\ file' = file /\ region' = region /\ summaries' = summaries /\ face \notin FacesOf(mesh)
  BY DEF Collected
<1>2. mesh \in Meshes /\ Valid(mesh) /\ zone \in DOMAIN mesh.cellZones
  BY <1>1, ZoneFacts DEF Building
<1>3. TypeOK' /\ Zones'
  BY <1>1 DEF IInv, TypeOK, Zones, Building
<1>4. internal \in Seq(RFace) /\ HasPatches /\ BuiltOK'
  BY <1>1 DEF IInv, BuiltOK, HasPatches
<1>5. /\ laid = 1 /\ face # 0
      /\ InternalIn /\ InternalOnce /\ SlotsOut /\ SlotsOnce /\ Passed
  BY <1>1 DEF IInv, Collecting
<1>6. \A p, i : Rest(p, i)' <=> Slot(p, i)
  <2>1. PICK N, T : patches \in Seq(Patch(N, T))
    BY <1>4 DEF HasPatches
  <2>2. \A p \in DOMAIN patches : 1 <= p
    BY <2>1
  <2> QED
    BY <1>1, <1>5, <2>2 DEF Rest, Slot
<1>7. \A p, i : SlotFace(p, i)' = SlotFace(p, i)
  BY <1>1 DEF SlotFace
<1>8. /\ FacesOf(mesh)' = FacesOf(mesh)
      /\ \A i : Touches(i)' <=> Touches(i)
      /\ \A i : (Inside(i)' <=> Inside(i)) /\ (Outer(i)' <=> Outer(i))
  BY <1>1, SameMesh
<1>9. LaidOut'
  <2>1. \A i \in DOMAIN internal : i <= Len(internal) /\ Inside(internal[i])
    BY <1>4, <1>5 DEF InternalIn
  <2>2. Len(internal) <= Len(internal)
    BY <1>4
  <2> QED
    BY <1>1, <1>5, <1>8, <2>1, <2>2 DEF LaidOut, InternalOnce
<1>10. RestOut' /\ RestOnce'
  BY <1>5, <1>6, <1>7, <1>8 DEF RestOut, RestOnce, SlotsOut, SlotsOnce
<1>11. RestApart'
  <2>1. \A g, h : Inside(g) /\ Outer(h) => g.nodes.of # h.nodes.of
    BY DEF Inside, Outer
  <2> QED
    BY <1>1, <1>5, <1>6, <1>7, <2>1 DEF RestApart, SlotsOut, InternalIn
<1>12. Kept'
  <2>1. ASSUME NEW f \in FacesOf(mesh), Touches(f)
        PROVE  InFaces(f)' \/ InRest(f)'
    <3>1. f < face
      BY <1>1, <1>2, <1>5, MeshFacts DEF IInv, TypeOK
    <3>2. InInternal(f) \/ InSlot(f)
      BY <1>5, <2>1, <3>1 DEF Passed
    <3>3. (InInternal(f) => InFaces(f)') /\ (InSlot(f) => InRest(f)')
      BY <1>1, <1>6, <1>7 DEF InInternal, InFaces, InSlot, InRest
    <3> QED
      BY <3>2, <3>3
  <2> QED
    BY <1>8, <2>1 DEF Kept
<1>13. Laying' /\ Collecting' /\ Writing'
  BY <1>1, <1>5, <1>9, <1>10, <1>11, <1>12 DEF Laying, Collecting, Writing
<1> QED
  BY <1>3, <1>4, <1>13 DEF IInv

\* The faces of one more patch.
LEMMA LayStep ==
  ASSUME IInv, Lay
  PROVE  IInv'
<1>1. /\ mesh' = mesh /\ zone' = zone /\ internal' = internal
      /\ laid \in DOMAIN patches /\ patches' = [patches EXCEPT ![laid].start = Len(faces) + 1]
      /\ faces' = faces \o patches[laid].faces /\ laid' = laid + 1
      /\ pc = "lay" /\ pc' = pc /\ face' = face /\ file' = file
      /\ region' = region /\ summaries' = summaries
  BY DEF Lay, StartHere
<1>2. TypeOK' /\ Zones'
  BY <1>1 DEF IInv, TypeOK, Zones, Building
<1>3. /\ internal \in Seq(RFace) /\ faces \in Seq(RFace) /\ HasPatches
      /\ \E S : summaries \in Seq(S)
  BY DEF IInv, BuiltOK
<1>4. laid # 0 /\ laid \in Nat /\ LaidOut /\ RestOut /\ RestOnce /\ RestApart /\ Kept
  BY <1>1 DEF IInv, TypeOK, Laying
<1>5. PICK N, T : patches \in Seq(Patch(N, T))
  BY <1>3 DEF HasPatches
<1>6. patches[laid] \in Patch(N, T) /\ patches[laid].faces \in Seq(RFace)
  <2>1. patches[laid] \in Patch(N, T)
    BY <1>1, <1>5, EntryIn
  <2> QED
    BY <2>1 DEF Patch
<1>7. /\ DOMAIN patches' = DOMAIN patches
      /\ \A p \in DOMAIN patches : patches'[p].faces = patches[p].faces
      /\ HasPatches'
  <2>1. PICK new : new = [patches[laid] EXCEPT !.start = Len(faces) + 1]
    OBVIOUS
  <2>2. patches' = [patches EXCEPT ![laid] = new]
    BY <1>1, <2>1
  <2>3. new \in Patch(N, T) /\ new.faces = patches[laid].faces
    <3>1. Len(faces) + 1 \in Nat
      BY <1>3
    <3> QED
      BY <1>6, <2>1, <3>1 DEF Patch
  <2>4. patches' \in Seq(Patch(N, T))
    <3>1. laid \in DOMAIN patches
      BY <1>1
    <3>2. [patches EXCEPT ![laid] = new] \in Seq(Patch(N, T))
      BY <1>5, <2>3, <3>1, ReplacedIn
    <3> QED
      BY <2>2, <3>2
  <2>5. HasPatches'
    BY <2>4 DEF HasPatches
  <2> QED
    BY <1>1, <2>2, <2>3, <2>5
<1>8. \A p, i : Slot(p, i) => SlotFace(p, i)' = SlotFace(p, i)
  BY <1>7 DEF Slot, SlotFace
<1>9. /\ \A p, i : Rest(p, i)' <=> Rest(p, i) /\ p # laid
      /\ \A i \in DOMAIN patches[laid].faces : Rest(laid, i)
  <2>1. \A p, i : Slot(p, i)' <=> Slot(p, i)
    BY <1>7 DEF Slot
  <2>2. \A p \in DOMAIN patches : laid + 1 <= p <=> laid <= p /\ p # laid
    BY <1>4, <1>5
  <2>3. \A i \in DOMAIN patches[laid].faces : Rest(laid, i)
    BY <1>1, <1>4 DEF Rest, Slot
  <2> QED
    BY <1>1, <2>1, <2>2, <2>3 DEF Rest, Slot
<1>10. /\ FacesOf(mesh)' = FacesOf(mesh)
       /\ \A i : Touches(i)' <=> Touches(i)
       /\ \A i : (Inside(i)' <=> Inside(i)) /\ (Outer(i)' <=> Outer(i))
  BY <1>1, SameMesh
\* A face that is laid out is an old one, or one of the patch.
<1>11. /\ faces' \in Seq(RFace)
       /\ Len(faces) \in Nat /\ Len(faces) <= Len(faces')
       /\ \A i \in DOMAIN faces : i \in DOMAIN faces' /\ faces'[i] = faces[i] /\ i <= Len(faces)
       /\ \A j \in DOMAIN patches[laid].faces :
            /\ Len(faces) + j \in DOMAIN faces'
            /\ faces'[Len(faces) + j] = SlotFace(laid, j)
       /\ \A i \in DOMAIN faces' :
            \/ i \in DOMAIN faces
            \/ \E j \in DOMAIN patches[laid].faces : i = Len(faces) + j
  <2>1. PICK more : more = patches[laid].faces
    OBVIOUS
  <2>2. faces \in Seq(RFace) /\ more \in Seq(RFace) /\ faces' = faces \o more
    BY <1>1, <1>3, <1>6, <2>1
  <2>3. /\ faces \o more \in Seq(RFace)
        /\ Len(faces) \in Nat /\ Len(faces) <= Len(faces \o more)
        /\ \A i \in DOMAIN faces : /\ i \in DOMAIN (faces \o more) /\ (faces \o more)[i] = faces[i]
                                  /\ i <= Len(faces)
        /\ \A j \in DOMAIN more : /\ Len(faces) + j \in DOMAIN (faces \o more)
                                 /\ (faces \o more)[Len(faces) + j] = more[j]
        /\ \A i \in DOMAIN (faces \o more) :
             i \in DOMAIN faces \/ \E j \in DOMAIN more : i = Len(faces) + j
    BY <2>2, ConcatFacts
  <2>4. \A j : SlotFace(laid, j) = more[j]
    BY <2>1 DEF SlotFace
  <2> QED
    BY <2>1, <2>2, <2>3, <2>4
<1>12. \A j \in DOMAIN patches[laid].faces : j \in Nat /\ 1 <= j
  BY <1>6
<1>13. \A i \in DOMAIN faces' :
         \/ i \in DOMAIN faces /\ faces'[i] = faces[i]
         \/ \E j \in DOMAIN patches[laid].faces :
              /\ i = Len(faces) + j /\ faces'[i] = SlotFace(laid, j) /\ Rest(laid, j)
  BY <1>9, <1>11
<1>14. LaidOut'
  <2>1. Len(internal) <= Len(faces')
    BY <1>3, <1>4, <1>11 DEF LaidOut
  <2>2. ASSUME NEW i \in DOMAIN faces'
        PROVE  IF i <= Len(internal) THEN Inside(faces'[i]) ELSE Outer(faces'[i])
    <3>1. CASE i \in DOMAIN faces
      BY <1>4, <1>11, <3>1 DEF LaidOut
    <3>2. CASE i \notin DOMAIN faces
      <4>1. PICK j \in DOMAIN patches[laid].faces :
              i = Len(faces) + j /\ faces'[i] = SlotFace(laid, j) /\ Rest(laid, j)
        BY <1>13, <3>2
      <4>2. ~(i <= Len(internal))
        BY <1>3, <1>4, <1>11, <1>12, <4>1 DEF LaidOut
      <4>3. Outer(faces'[i])
        BY <1>4, <4>1 DEF RestOut
      <4> QED
        BY <4>2, <4>3
    <3> QED
      BY <3>1, <3>2
  <2>3. ASSUME NEW i \in DOMAIN faces', NEW k \in DOMAIN faces',
               faces'[i].nodes.of = faces'[k].nodes.of
        PROVE  i = k
    <3>1. CASE i \in DOMAIN faces /\ k \in DOMAIN faces
      BY <1>4, <1>11, <2>3, <3>1 DEF LaidOut
    <3>2. CASE i \in DOMAIN faces /\ k \notin DOMAIN faces
      BY <1>4, <1>11, <1>13, <2>3, <3>2 DEF RestApart
    <3>3. CASE i \notin DOMAIN faces /\ k \in DOMAIN faces
      BY <1>4, <1>11, <1>13, <2>3, <3>3 DEF RestApart
    <3>4. CASE i \notin DOMAIN faces /\ k \notin DOMAIN faces
      BY <1>4, <1>13, <2>3, <3>4 DEF RestOnce
    <3> QED
      BY <3>1, <3>2, <3>3, <3>4
  <2> QED
    BY <1>1, <1>10, <2>1, <2>2, <2>3 DEF LaidOut
<1>15. RestOut' /\ RestOnce'
  BY <1>4, <1>8, <1>9, <1>10 DEF RestOut, RestOnce, Rest
<1>16. RestApart'
  <2>1. ASSUME NEW p, NEW i, NEW n \in DOMAIN faces', Rest(p, i), p # laid
        PROVE  SlotFace(p, i).nodes.of # faces'[n].nodes.of
    <3>1. CASE n \in DOMAIN faces
      BY <1>4, <1>11, <2>1, <3>1 DEF RestApart
    <3>2. CASE n \notin DOMAIN faces
      BY <1>4, <1>13, <2>1, <3>2 DEF RestOnce
    <3> QED
      BY <3>1, <3>2
  <2> QED
    BY <1>8, <1>9, <2>1 DEF RestApart, Rest
<1>17. Kept'
  <2>1. ASSUME NEW f \in FacesOf(mesh), Touches(f)
        PROVE  InFaces(f)' \/ InRest(f)'
    <3>1. InFaces(f) => InFaces(f)'
      BY <1>11 DEF InFaces
    <3>2. ASSUME NEW p, NEW i, Rest(p, i), SlotFace(p, i).nodes.of = f
          PROVE  InFaces(f)' \/ InRest(f)'
      <4>1. CASE p = laid
        BY <1>11, <3>2, <4>1 DEF InFaces, Rest, Slot
      <4>2. CASE p # laid
        BY <1>8, <1>9, <3>2, <4>2 DEF InRest, Rest
      <4> QED
        BY <4>1, <4>2
    <3> QED
      BY <1>4, <2>1, <3>1, <3>2 DEF Kept, InRest
  <2> QED
    BY <1>10, <2>1 DEF Kept
<1>18. Laying' /\ Collecting' /\ Writing'
  BY <1>1, <1>4, <1>14, <1>15, <1>16, <1>17 DEF Laying, Collecting, Writing
<1>19. BuiltOK'
  BY <1>1, <1>3, <1>7, <1>11 DEF BuiltOK
<1> QED
  BY <1>2, <1>18, <1>19 DEF IInv

LEMMA LaidStep ==
  ASSUME IInv, Laid
  PROVE  IInv'
<1>1. /\ mesh' = mesh /\ zone' = zone /\ internal' = internal /\ patches' = patches
      /\ faces' = faces /\ laid' = laid /\ laid \notin DOMAIN patches
      /\ pc = "lay" /\ pc' = "write" /\ face' = face /\ file' = file
      /\ region' = region /\ summaries' = summaries
  BY DEF Laid, building
<1>2. TypeOK' /\ Zones'
  BY <1>1 DEF IInv, TypeOK, Zones, Building
<1>3. HasPatches /\ BuiltOK'
  BY <1>1 DEF IInv, BuiltOK, HasPatches
<1>4. laid # 0 /\ laid \in Nat /\ LaidOut /\ Kept
  BY <1>1 DEF IInv, TypeOK, Laying
<1>5. \A p, i : ~Rest(p, i)
  <2>1. PICK N, T : patches \in Seq(Patch(N, T))
    BY <1>3 DEF HasPatches
  <2>2. ASSUME NEW p \in DOMAIN patches
        PROVE  ~(laid <= p)
    <3>1. DOMAIN patches = 1 .. Len(patches) /\ Len(patches) \in Nat
      BY <2>1
    <3> QED
      BY <1>1, <1>4, <3>1
  <2> QED
    BY <2>2 DEF Rest, Slot
<1>6. /\ FacesOf(mesh)' = FacesOf(mesh)
      /\ \A i : Touches(i)' <=> Touches(i)
      /\ \A i : (Inside(i)' <=> Inside(i)) /\ (Outer(i)' <=> Outer(i))
  BY <1>1, SameMesh
<1>7. LaidOut'
  BY <1>1, <1>4, <1>6 DEF LaidOut
<1>8. \A f \in FacesOf(mesh)' : Touches(f)' => InFaces(f)'
  BY <1>1, <1>4, <1>5, <1>6 DEF Kept, InRest, InFaces
<1>9. Laying' /\ Collecting' /\ Writing'
  BY <1>1, <1>7, <1>8 DEF Laying, Collecting, Writing
<1> QED
  BY <1>2, <1>3, <1>9 DEF IInv

-----------------------------------------------------------------------------
(***************************************************************************)
(* The checks before the first region, the files, and the region after.    *)
(***************************************************************************)
LEMMA InitStep == SplitInit => IInv
<1> SUFFICES ASSUME SplitInit PROVE IInv
  OBVIOUS
<1>1. TypeOK
  BY DEF SplitInit, TypeOK
<1>2. BuiltOK
  <2>1. patches \in Seq(Patch({}, {})) /\ summaries \in Seq({})
    BY DEF SplitInit
  <2> QED
    BY <2>1 DEF SplitInit, BuiltOK, HasPatches
<1>3. Zones
  BY DEF SplitInit, Zones, Building
<1>4. Collecting /\ Laying /\ Writing
  BY DEF SplitInit, Collecting, Laying, Writing
<1> QED
  BY <1>1, <1>2, <1>3, <1>4 DEF IInv

\* A split that has stopped keeps what it had built.
LEMMA StoppedStep ==
  ASSUME IInv, mesh' \in Meshes, pc' \in {"failed", "done"}, UNCHANGED building,
         DOMAIN region' = DOMAIN region, \E S : summaries' \in Seq(S)
  PROVE  IInv'
<1>1. TypeOK' /\ BuiltOK'
  BY DEF IInv, TypeOK, BuiltOK, HasPatches, building
<1>2. Zones' /\ Collecting' /\ Laying' /\ Writing'
  BY DEF IInv, Zones, Building, Collecting, Laying, Writing
<1> QED
  BY <1>1, <1>2 DEF IInv

LEMMA BeginStep ==
  ASSUME IInv, Begin
  PROVE  IInv'
<1>1. mesh' \in Meshes /\ summaries' = <<>> /\ region' = region
  BY DEF Begin, Begins
<1>2. CASE Splits(mesh') /\ Starts(1)
  <2>1. /\ Collecting' /\ Laying' /\ Writing'
        /\ internal' \in Seq(RFace) /\ faces' \in Seq(RFace) /\ HasPatches'
        /\ pc' = "collect" /\ zone' = 1 /\ face' \in Nat /\ laid' \in Nat /\ file' \in Nat
    BY <1>1, <1>2, StartFacts
  <2>2. summaries' \in Seq({}) /\ Len(summaries') = 0
    BY <1>1
  <2>3. 1 \in DOMAIN mesh'.cellZones
    <3>1. mesh'.cellZones \in Seq([name : Words, cells : Seq(Nat)]) /\ mesh'.cellZones # <<>>
      BY <1>1, <1>2 DEF Meshes, Splits
    <3> QED
      BY <3>1
  <2>4. Zones'
    BY <1>1, <1>2, <2>1, <2>2, <2>3 DEF IInv, Zones, Building
  <2>5. TypeOK' /\ BuiltOK'
    BY <1>1, <2>1, <2>2 DEF TypeOK, BuiltOK
  <2> QED
    BY <2>1, <2>4, <2>5 DEF IInv
<1>3. CASE pc' = "failed" /\ UNCHANGED building
  <2>1. summaries' \in Seq({})
    BY <1>1
  <2> QED
    BY <1>1, <1>3, <2>1, StoppedStep
<1> QED
  BY <1>2, <1>3 DEF Begin, Begins

\* One file more or less of the region that is written.
LEMMA FileStep ==
  ASSUME IInv, WriteFile \/ LoseEnd
  PROVE  IInv'
<1>1. /\ mesh' = mesh /\ pc' = pc /\ zone' = zone /\ face' = face /\ internal' = internal
      /\ patches' = patches /\ faces' = faces /\ laid' = laid /\ summaries' = summaries
      /\ pc = "write" /\ file' = file + 1 /\ DOMAIN region' = DOMAIN region
  BY DEF WriteFile, LoseEnd, Writes
<1>2. TypeOK' /\ BuiltOK' /\ Zones'
  BY <1>1 DEF IInv, TypeOK, BuiltOK, HasPatches, Zones, Building
<1>3. Collecting' /\ Laying'
  BY <1>1 DEF Collecting, Laying
<1>4. /\ FacesOf(mesh)' = FacesOf(mesh)
      /\ \A i : Touches(i)' <=> Touches(i)
      /\ \A i : (Inside(i)' <=> Inside(i)) /\ (Outer(i)' <=> Outer(i))
  BY <1>1, SameMesh
<1>5. LaidOut /\ \A f \in FacesOf(mesh) : Touches(f) => InFaces(f)
  BY <1>1 DEF IInv, Writing
<1>6. Writing'
  BY <1>1, <1>4, <1>5 DEF Writing, LaidOut, InFaces
<1> QED
  BY <1>2, <1>3, <1>6 DEF IInv

LEMMA StopSteps ==
  ASSUME IInv, CannotRead \/ WriteFails
  PROVE  IInv'
<1>1. /\ mesh' = mesh /\ pc' = "failed" /\ UNCHANGED building
      /\ summaries' = <<>> /\ DOMAIN region' = DOMAIN region
  BY DEF CannotRead, WriteFails, Writes
<1>2. mesh' \in Meshes /\ summaries' \in Seq({})
  BY <1>1 DEF IInv, TypeOK
<1> QED
  BY <1>1, <1>2, StoppedStep

LEMMA WrittenStep ==
  ASSUME IInv, Written
  PROVE  IInv'
<1>1. /\ mesh' = mesh /\ region' = region /\ summaries' = Append(summaries, Summary)
      /\ pc = "write"
  BY DEF Written
<1>2. mesh' \in Meshes /\ zone \in Nat
  BY <1>1 DEF IInv, TypeOK
<1>3. PICK S : summaries \in Seq(S)
  BY DEF IInv, BuiltOK
<1>4. PICK M : M = S \cup {Summary}
  OBVIOUS
<1>5. summaries' \in Seq(M) /\ Len(summaries') = Len(summaries) + 1
  <2>1. summaries \in Seq(M) /\ Summary \in M
    BY <1>3, <1>4, WiderSeq
  <2> QED
    BY <1>1, <2>1, AppendFacts
<1>6. CASE zone < Len(mesh.cellZones) /\ Starts(zone + 1)
  <2>1. PICK z \in Nat : z = zone + 1
    BY <1>2
  <2>2. /\ Collecting' /\ Laying' /\ Writing'
        /\ internal' \in Seq(RFace) /\ faces' \in Seq(RFace) /\ HasPatches'
        /\ pc' = "collect" /\ zone' = z /\ face' \in Nat /\ laid' \in Nat /\ file' \in Nat
    BY <1>2, <1>6, <2>1, StartFacts
  <2>3. z \in DOMAIN mesh.cellZones
    <3>1. mesh.cellZones \in Seq([name : Words, cells : Seq(Nat)])
      BY <1>1, <1>2 DEF Meshes
    <3>2. DOMAIN mesh.cellZones = 1 .. Len(mesh.cellZones) /\ Len(mesh.cellZones) \in Nat
      BY <3>1
    <3> QED
      BY <1>2, <1>6, <2>1, <3>2
  <2>4. Zones'
    BY <1>1, <1>5, <2>1, <2>2, <2>3 DEF IInv, Zones, Building
  <2>5. TypeOK' /\ BuiltOK'
    BY <1>2, <1>5, <2>2 DEF TypeOK, BuiltOK
  <2> QED
    BY <2>2, <2>4, <2>5 DEF IInv
<1>7. CASE pc' = "done" /\ UNCHANGED building
  BY <1>1, <1>2, <1>5, <1>7, StoppedStep
<1> QED
  BY <1>6, <1>7 DEF Written

LEMMA NextStep == IInv /\ [SplitNext]_<<splitVars, faults>> => IInv'
<1> SUFFICES ASSUME IInv, [SplitNext]_<<splitVars, faults>> PROVE IInv'
  OBVIOUS
<1>1. CASE Begin
  BY <1>1, BeginStep
<1>2. CASE CannotRead \/ WriteFails
  BY <1>2, StopSteps
<1>3. CASE \E f \in FacesOf(mesh) : KeepInternal(f) \/ KeepOwned(f) \/ KeepReversed(f) \/ PassBy(f)
  BY <1>3, KeepInternalStep, KeepOwnedStep, KeepReversedStep, PassByStep
<1>4. CASE Collected \/ Lay \/ Laid
  BY <1>4, CollectedStep, LayStep, LaidStep
<1>5. CASE WriteFile \/ LoseEnd
  BY <1>5, FileStep
<1>6. CASE Written
  BY <1>6, WrittenStep
<1>7. CASE Elsewhere \/ UNCHANGED <<splitVars, faults>>
  <2>1. /\ mesh' = mesh /\ pc' = pc /\ zone' = zone /\ face' = face /\ internal' = internal
        /\ patches' = patches /\ faces' = faces /\ laid' = laid /\ file' = file
        /\ region' = region /\ summaries' = summaries
    BY <1>7 DEF Elsewhere, splitVars, building
  <2>2. TypeOK' /\ BuiltOK' /\ Zones'
    BY <2>1 DEF IInv, TypeOK, BuiltOK, HasPatches, Zones, Building
  <2>3. /\ FacesOf(mesh)' = FacesOf(mesh)
        /\ \A i : Touches(i)' <=> Touches(i)
        /\ \A i : (Inside(i)' <=> Inside(i)) /\ (Outer(i)' <=> Outer(i))
    BY <2>1, SameMesh
  <2>4. /\ \A p, i : (Slot(p, i)' <=> Slot(p, i)) /\ SlotFace(p, i)' = SlotFace(p, i)
        /\ \A p, i : Rest(p, i)' <=> Rest(p, i)
        /\ \A f : (InFaces(f)' <=> InFaces(f)) /\ (InInternal(f)' <=> InInternal(f))
    BY <2>1 DEF Slot, SlotFace, Rest, InFaces, InInternal
  <2>5. \A f : (InSlot(f)' <=> InSlot(f)) /\ (InRest(f)' <=> InRest(f))
    BY <2>4 DEF InSlot, InRest
  <2>6. Collecting'
    BY <2>1, <2>3, <2>4, <2>5
    DEF IInv, Collecting, InternalIn, InternalOnce, SlotsOut, SlotsOnce, Passed
  <2>7. LaidOut <=> LaidOut'
    BY <2>1, <2>3 DEF LaidOut
  <2>8. Laying'
    BY <2>1, <2>3, <2>4, <2>5, <2>7 DEF IInv, Laying, RestOut, RestOnce, RestApart, Kept
  <2>9. Writing'
    BY <2>1, <2>3, <2>4, <2>7 DEF IInv, Writing
  <2> QED
    BY <2>2, <2>6, <2>8, <2>9 DEF IInv
<1> QED
  BY <1>1, <1>2, <1>3, <1>4, <1>5, <1>6, <1>7 DEF SplitNext, SplitStep
-----------------------------------------------------------------------------
(***************************************************************************)
(* The invariant holds of every split of every mesh.                       *)
(***************************************************************************)
THEOREM Invariance == SplitSpec => []IInv
<1>1. SplitInit => IInv
  BY InitStep
<1>2. IInv /\ [SplitNext]_<<splitVars, faults>> => IInv'
  BY NextStep
<1> QED
  BY <1>1, <1>2, PTL DEF SplitSpec, SplitNext

\* The mesh that is split is one that was read, and the positions are numbers.
THEOREM TypeCorrect == SplitSpec => []TypeOK
<1>1. IInv => TypeOK
  BY DEF IInv
<1> QED
  BY <1>1, Invariance, PTL

(***************************************************************************)
(* Whatever the zones, the patches and the faults: before a region is      *)
(* written it has every face of its cells once, and each is turned out of  *)
(* its cell.  (regions.rs, build_region_mesh)                              *)
(***************************************************************************)
THEOREM FacesAreConserved == SplitSpec => []Conserved
<1>1. IInv => Conserved
  <2> SUFFICES ASSUME IInv, pc = "write" PROVE
        /\ {faces[i].nodes.of : i \in DOMAIN faces} = {f \in FacesOf(mesh) : Touches(f)}
        /\ \A i, j \in DOMAIN faces : faces[i].nodes.of = faces[j].nodes.of => i = j
        /\ \A i \in DOMAIN faces : Turned(i)
    BY DEF Conserved
  <2>1. LaidOut /\ \A f \in FacesOf(mesh) : Touches(f) => InFaces(f)
    BY DEF IInv, Writing
  <2>2. \A i \in DOMAIN faces : faces[i].nodes.of \in FacesOf(mesh) /\ Touches(faces[i].nodes.of)
    BY <2>1 DEF LaidOut, Inside, Outer, Touches
  <2>3. {faces[i].nodes.of : i \in DOMAIN faces} = {f \in FacesOf(mesh) : Touches(f)}
    BY <2>1, <2>2 DEF InFaces
  <2>4. \A i, j \in DOMAIN faces : faces[i].nodes.of = faces[j].nodes.of => i = j
    BY <2>1 DEF LaidOut
  <2>5. ASSUME NEW i \in DOMAIN faces
        PROVE  Turned(i)
    <3>1. CASE i <= Len(internal)
      <4>1. Inside(faces[i])
        BY <2>1, <3>1 DEF LaidOut
      <4> QED
        BY <3>1, <4>1 DEF Inside, IsLocal, Turned
    <3>2. CASE ~(i <= Len(internal))
      <4>1. Outer(faces[i])
        BY <2>1, <3>2 DEF LaidOut
      <4> QED
        BY <3>2, <4>1 DEF Outer, IsLocal, Turned
    <3> QED
      BY <3>1, <3>2
  <2> QED
    BY <2>3, <2>4, <2>5
<1> QED
  BY <1>1, Invariance, PTL

(***************************************************************************)
(* No region is written over another, as their directories differ even     *)
(* for a file system without case.  (regions.rs,                           *)
(* unique_region_output_names)                                             *)
(***************************************************************************)
THEOREM RegionsAreApart == SplitSpec => OwnRegion
<1> DEFINE Apart == \A z \in DOMAIN summaries :
             zone # z => region'[Directory(z)] = region[Directory(z)]
<1>1. IInv /\ [SplitNext]_<<splitVars, faults>> => [Apart]_splitVars
  <2> SUFFICES ASSUME IInv, SplitNext, NEW z \in DOMAIN summaries, zone # z
               PROVE  region'[Directory(z)] = region[Directory(z)]
    BY DEF splitVars
  <2>1. CASE region' = region
    BY <2>1
  <2>2. CASE pc = "write" /\ \E c : Writes(c)
    <3>1. /\ mesh \in Meshes /\ zone \in DOMAIN mesh.cellZones /\ ~NamesCollide(mesh)
      BY <2>2, ZoneFacts DEF Building
    <3>2. Len(summaries) + 1 = zone /\ DOMAIN region = {Folded[n] : n \in Words}
      BY <2>2 DEF IInv, Zones, Building
    <3>3. mesh.cellZones \in Seq([name : Words, cells : Seq(Nat)])
      BY <3>1 DEF Meshes
    <3>4. z \in DOMAIN mesh.cellZones
      <4>1. PICK S : summaries \in Seq(S)
        BY DEF IInv, BuiltOK
      <4>2. DOMAIN summaries = 1 .. Len(summaries) /\ Len(summaries) \in Nat
        BY <4>1
      <4>3. DOMAIN mesh.cellZones = 1 .. Len(mesh.cellZones) /\ Len(mesh.cellZones) \in Nat
        BY <3>3
      <4> QED
        BY <3>1, <3>2, <4>2, <4>3
    <3>5. Directory(z) # Directory(zone)
      BY <3>1, <3>4 DEF NamesCollide, Same, Directory
    <3>6. Directory(z) \in DOMAIN region
      <4> DEFINE R == [name : Words, cells : Seq(Nat)]
      <4>1. mesh.cellZones \in Seq(R)
        BY <3>3
      <4> HIDE DEF R
      <4>2. mesh.cellZones[z] \in R
        BY <3>4, <4>1, EntryIn
      <4>3. mesh.cellZones[z].name \in Words
        BY <4>2 DEF R
      <4> QED
        BY <3>2, <4>3 DEF Directory
    <3>7. PICK c : region' = [region EXCEPT ![Directory(zone)][FileNames[file]] = c]
      BY <2>2 DEF Writes
    <3> QED
      BY <3>5, <3>6, <3>7
  <2> QED
    BY <2>1, <2>2 DEF SplitNext, Elsewhere, splitVars, Begin, Begins, SplitStep, CannotRead, KeepInternal, KeepOwned, KeepReversed,
      PassBy, Next1, Collected, Lay, Laid, WriteFile, LoseEnd, WriteFails, Written
<1> QED
  BY <1>1, Invariance, PTL DEF SplitSpec, SplitNext, OwnRegion

-----------------------------------------------------------------------------
(***************************************************************************)
(* What a region is made of, beyond the conservation of its faces: the     *)
(* names and the order of the faces of its patches, where these are laid   *)
(* out, and what its files have.                                           *)
(***************************************************************************)
Beyond(z, f) == IF mesh.owner[f] \in CellsIn(z) THEN ZonesOf(NeighbourOf(mesh, f))
                ELSE IF ZonesOf(mesh.owner[f]) = {} THEN {z} ELSE ZonesOf(mesh.owner[f])
NameFor(z, f) == PatchFor(z, Beyond(z, f), f).name

\* The faces of a patch have its name, and come in the order of the mesh.
PlacesOf(p) == DOMAIN patches[p].faces
SlotLabel(p, i) == patches[p].faces[i].nodes.of
Named == \A p \in DOMAIN patches : \A i \in PlacesOf(p) : patches[p].name = NameFor(zone, SlotLabel(p, i))
Rising == \A p \in DOMAIN patches : \A i, j \in PlacesOf(p) : i < j => SlotLabel(p, i) < SlotLabel(p, j)
OneName == \A p, q \in DOMAIN patches : patches[p].name = patches[q].name => p = q
Patched == Building => Named /\ Rising /\ OneName

\* The patches before laid stand after the internal faces, none in another.
EndOf(p) == patches[p].start + Len(patches[p].faces)
Standing(p) ==
  /\ Len(internal) < patches[p].start /\ EndOf(p) <= Len(faces) + 1
  /\ \A i \in PlacesOf(p) : faces[patches[p].start + i - 1] = patches[p].faces[i]
LaidPatches == {p \in DOMAIN patches : p < laid}
Placed ==
  pc \in {"lay", "write"} =>
    /\ \A p \in LaidPatches : Standing(p)
    /\ \A p, q \in LaidPatches : p < q => EndOf(p) <= patches[q].start
    /\ \A n \in DOMAIN faces : Len(internal) < n =>
         \E p \in LaidPatches : \E i \in PlacesOf(p) : n = patches[p].start + i - 1
    /\ pc = "write" => LaidPatches = DOMAIN patches

\* A face of the region of zone z, inside it or at its boundary.
In(z, f) == mesh.owner[f] \in CellsIn(z) \/ NeighbourOf(mesh, f) \in CellsIn(z)
Amid(z, f) == mesh.owner[f] \in CellsIn(z) /\ NeighbourOf(mesh, f) \in CellsIn(z)
LocalIn(z, n, c) == n \in DOMAIN mesh.cellZones[z].cells /\ mesh.cellZones[z].cells[n] = c
Sound(z, g) ==
  LET f == g.nodes.of
  IN  /\ f \in FacesOf(mesh) /\ In(z, f)
      /\ g.nodes.reversed <=> mesh.owner[f] \notin CellsIn(z)
      /\ LocalIn(z, g.owner, IF mesh.owner[f] \in CellsIn(z) THEN mesh.owner[f] ELSE mesh.neighbour[f])
      /\ Amid(z, f) => LocalIn(z, g.neighbour, mesh.neighbour[f])

\* The region of zone z, of the faces F, of which n are internal, and the patches B.
HasFaces(z, F, n) ==
  /\ \A i \in DOMAIN F : Sound(z, F[i]) /\ (i <= n <=> Amid(z, F[i].nodes.of))
  /\ \A i, j \in DOMAIN F : F[i].nodes.of = F[j].nodes.of => i = j
  /\ \A f \in FacesOf(mesh) : In(z, f) => \E i \in DOMAIN F : F[i].nodes.of = f
HasRanges(F, n, B) ==
  /\ \A p \in DOMAIN B : n < B[p].start /\ B[p].start + B[p].count - 1 <= Len(F)
  /\ \A p, q \in DOMAIN B : p # q => PatchRange(B[p]) \cap PatchRange(B[q]) = {}
  /\ \A i \in DOMAIN F : n < i => \E p \in DOMAIN B : i \in PatchRange(B[p])
HasNames(z, F, B) ==
  /\ \A p \in DOMAIN B : \A i \in PatchRange(B[p]) : B[p].name = NameFor(z, F[i].nodes.of)
  /\ \A p \in DOMAIN B : \A i, j \in PatchRange(B[p]) : i < j => F[i].nodes.of < F[j].nodes.of
  /\ \A p, q \in DOMAIN B : B[p].name = B[q].name => p = q
BoundaryPatch(N, T) == [name : N, type : T, start : Nat, count : Nat]
IsRegion(z, F, n, B) ==
  /\ F \in Seq(RFace) /\ n \in Nat /\ n <= Len(F)
  /\ \E N, T : B \in Seq(BoundaryPatch(N, T))
  /\ HasFaces(z, F, n) /\ HasRanges(F, n, B) /\ HasNames(z, F, B)

\* A file has its content, or what a lost end left of it.
Filed(z, f, c) == \/ region[Directory(z)][f] = Reads(c)
                  \/ faults # 0 /\ region[Directory(z)][f] \in Torn(f, c)
Filing ==
  /\ pc \in {"collect", "lay"} => file = 1
  /\ pc = "write" => /\ file # 0
                     /\ \A i \in DOMAIN FileNames : i < file => Filed(zone, FileNames[i], Content(FileNames[i]))

\* The files of region z have its faces and patches.
IsFiled(z, F, n, B) ==
  /\ Filed(z, "faces", [i \in DOMAIN F |-> F[i].nodes])
  /\ Filed(z, "owner", [i \in DOMAIN F |-> F[i].owner])
  /\ Filed(z, "neighbour", [i \in 1 .. n |-> F[i].neighbour])
  /\ Filed(z, "boundary", B)

\* What has been reported has been built and filed.
Reported ==
  /\ summaries # <<>> => Splits(mesh)
  /\ \A k \in DOMAIN summaries :
       /\ k \in DOMAIN mesh.cellZones
       /\ summaries[k].cells = Len(mesh.cellZones[k].cells)
       /\ \E F, n : /\ summaries[k].faces = Len(F) /\ summaries[k].internal = n
                    /\ IsRegion(k, F, n, summaries[k].boundary)
                    /\ IsFiled(k, F, n, summaries[k].boundary)
FilesOK == faults \in Nat /\ \A d \in DOMAIN region : DOMAIN region[d] = FileSet
JInv == Patched /\ Placed /\ Filing /\ Reported /\ FilesOK

\* The patch that a face goes to: the one of its name, or a new one.
GoesTo(p, patch, g) ==
  /\ DOMAIN patches' = DOMAIN patches \cup {p}
  /\ patches'[p].name = patch.name
  /\ \A q \in DOMAIN patches : q # p => patches'[q] = patches[q]
  /\ \/ /\ p \in DOMAIN patches /\ patches[p].name = patch.name
        /\ patches[p].faces \in Seq(RFace)
        /\ patches'[p].faces = Append(patches[p].faces, g)
     \/ /\ p \notin DOMAIN patches /\ \A q \in DOMAIN patches : patches[q].name # patch.name
        /\ patches'[p].faces = <<g>>

LEMMA PushGoes ==
  ASSUME HasPatches, NEW patch, NEW g \in RFace, Push(patch, g)
  PROVE  \E p : GoesTo(p, patch, g)
<1>1. PICK N, T : patches \in Seq(Patch(N, T))
  BY DEF HasPatches
<1> DEFINE named == {p \in DOMAIN patches : patches[p].name = patch.name}
           one == IF patch.flip THEN 1 ELSE 0
           e == [name |-> patch.name, type |-> patch.type, start |-> 0,
                 flipped |-> one, faces |-> <<g>>]
<1>2. CASE named = {} /\ patches' = Append(patches, e)
  <2>1. PICK k, S : k = e /\ S = Patch(N, T) \cup {e}
    OBVIOUS
  <2>2. patches \in Seq(S) /\ k \in S /\ patches' = Append(patches, k)
    BY <1>1, <1>2, <2>1, WiderSeq
  <2>3. PICK n : /\ n \notin DOMAIN patches /\ DOMAIN patches' = DOMAIN patches \cup {n}
                 /\ patches'[n] = k /\ \A q \in DOMAIN patches : patches'[q] = patches[q]
    BY <2>2, AppendFacts
  <2>4. k.name = patch.name /\ k.faces = <<g>>
    BY <2>1
  <2> QED
    BY <1>2, <2>3, <2>4 DEF GoesTo
<1>3. CASE \E p \in named : patches' = [patches EXCEPT ![p] = WithFace(patches[p], one, g)]
  <2>1. PICK p \in named : patches' = [patches EXCEPT ![p] = WithFace(patches[p], one, g)]
    BY <1>3
  <2>2. p \in DOMAIN patches /\ patches[p].name = patch.name
    OBVIOUS
  <2>3. patches[p] \in Patch(N, T)
    BY <1>1, <2>2, EntryIn
  <2>4. patches[p].faces \in Seq(RFace)
    BY <2>3 DEF Patch
  <2>5. PICK k : k = WithFace(patches[p], one, g)
    OBVIOUS
  <2>6. k.name = patches[p].name /\ k.faces = Append(patches[p].faces, g)
    BY <2>3, <2>5 DEF WithFace, Patch
  <2>7. /\ DOMAIN patches' = DOMAIN patches /\ patches'[p] = k
        /\ \A q \in DOMAIN patches : q # p => patches'[q] = patches[q]
    BY <2>1, <2>2, <2>5
  <2> QED
    BY <2>2, <2>4, <2>6, <2>7 DEF GoesTo
<1> QED
  BY <1>2, <1>3 DEF Push

\* The name of the patch of a face depends on the mesh alone.
LEMMA SameNames ==
  ASSUME mesh' = mesh
  PROVE  \A z, f : NameFor(z, f)' = NameFor(z, f)
  BY SMT DEF NameFor, Beyond, PatchFor, CellsIn, ZonesOf, NeighbourOf, PatchesAt, LastPatch,
    PatchRange, Listing, FirstZone, PlacesIn, Between, Flipped

LEMMA PushKeepsNames ==
  ASSUME IInv, NEW f, Collects(f), Next1, Patched,
         NEW patch, NEW g \in RFace, Push(patch, g), g.nodes.of = f, patch.name = NameFor(zone, f)
  PROVE  Patched'
<1>1. /\ mesh' = mesh /\ zone' = zone /\ pc = "collect" /\ f = face /\ f \in FacesOf(mesh)
  BY DEF Collects, Next1
<1>2. mesh \in Meshes /\ Valid(mesh) /\ zone \in DOMAIN mesh.cellZones
  BY <1>1, ZoneFacts DEF Building
<1>3. Named /\ Rising /\ OneName
  BY <1>1 DEF Patched, Building
<1>4. HasPatches /\ face \in Nat
  BY DEF IInv, BuiltOK, TypeOK
<1>5. PICK p : GoesTo(p, patch, g)
  BY <1>4, PushGoes
<1>6. \A z, k : NameFor(z, k)' = NameFor(z, k)
  BY <1>1, SameNames
<1>7. \A q \in DOMAIN patches : \A i \in PlacesOf(q) :
        SlotLabel(q, i) < f /\ SlotLabel(q, i) \in Nat
  <2>1. SlotsOut
    BY <1>1 DEF IInv, Collecting
  <2>2. ASSUME NEW q \in DOMAIN patches, NEW i \in PlacesOf(q)
        PROVE  SlotLabel(q, i) < f /\ SlotLabel(q, i) \in FacesOf(mesh)
    BY <1>1, <2>1 DEF SlotsOut, Slot, SlotFace, PlacesOf, SlotLabel, Outer
  <2> QED
    BY <1>2, <2>2, MeshFacts
<1>8. /\ DOMAIN patches' = DOMAIN patches \cup {p} /\ patches'[p].name = NameFor(zone, f)
      /\ \A q \in DOMAIN patches : q # p => patches'[q] = patches[q]
  BY <1>5 DEF GoesTo
\* The faces of the patch are those it had, and the new one after them.
<1>9. PICK k : /\ PlacesOf(p)' = (IF p \in DOMAIN patches THEN PlacesOf(p) ELSE {}) \cup {k}
               /\ SlotLabel(p, k)' = f
               /\ p \in DOMAIN patches =>
                    \A i \in PlacesOf(p) : SlotLabel(p, i)' = SlotLabel(p, i) /\ i < k
               /\ k \in Nat
               /\ p \in DOMAIN patches => patches[p].name = NameFor(zone, f)
               /\ p \notin DOMAIN patches => \A q \in DOMAIN patches : patches[q].name # NameFor(zone, f)
  <2>1. CASE p \in DOMAIN patches /\ patches[p].name = patch.name
               /\ patches[p].faces \in Seq(RFace) /\ patches'[p].faces = Append(patches[p].faces, g)
    <3>1. PICK s : s = patches[p].faces
      OBVIOUS
    <3>2. /\ s \in Seq(RFace) /\ Len(s) + 1 \in Nat /\ \A i \in DOMAIN s : i < Len(s) + 1
          /\ patches'[p].faces = Append(s, g)
      BY <2>1, <3>1
    <3>3. /\ DOMAIN patches'[p].faces = DOMAIN s \cup {Len(s) + 1}
          /\ patches'[p].faces[Len(s) + 1] = g
          /\ \A i \in DOMAIN s : patches'[p].faces[i] = s[i]
      BY <3>2, AppendFacts
    <3> WITNESS Len(s) + 1
    <3> QED
      BY <2>1, <3>1, <3>2, <3>3 DEF PlacesOf, SlotLabel
  <2>2. CASE p \notin DOMAIN patches /\ (\A q \in DOMAIN patches : patches[q].name # patch.name)
             /\ patches'[p].faces = <<g>>
    <3>1. DOMAIN patches'[p].faces = {1} /\ patches'[p].faces[1] = g
      BY <2>2
    <3> WITNESS 1
    <3> QED
      BY <2>2, <3>1 DEF PlacesOf, SlotLabel
  <2> QED
    BY <1>5, <2>1, <2>2 DEF GoesTo
<1>10. \A q \in DOMAIN patches : q # p =>
         /\ PlacesOf(q)' = PlacesOf(q) /\ patches'[q].name = patches[q].name
         /\ \A i : SlotLabel(q, i)' = SlotLabel(q, i)
  BY <1>8 DEF PlacesOf, SlotLabel
<1>11. Named'
  <2>1. ASSUME NEW q \in DOMAIN patches', NEW i \in PlacesOf(q)'
        PROVE  patches'[q].name = NameFor(zone, SlotLabel(q, i)')
    <3>1. CASE q # p
      BY <1>3, <1>8, <1>10, <3>1 DEF Named
    <3>2. CASE q = p
      BY <1>3, <1>8, <1>9, <3>2 DEF Named
    <3> QED
      BY <3>1, <3>2
  <2> QED
    BY <1>1, <1>6, <2>1 DEF Named
<1>12. Rising'
  <2>1. ASSUME NEW q \in DOMAIN patches', NEW i \in PlacesOf(q)', NEW j \in PlacesOf(q)', i < j
        PROVE  SlotLabel(q, i)' < SlotLabel(q, j)'
    <3>1. CASE q # p
      BY <1>3, <1>8, <1>10, <2>1, <3>1 DEF Rising
    <3>2. CASE q = p /\ p \in DOMAIN patches
      <4>1. PlacesOf(p) \subseteq Nat
        <5>1. PICK N, T : patches \in Seq(Patch(N, T))
          BY <1>4 DEF HasPatches
        <5>2. patches[p] \in Patch(N, T)
          BY <3>2, <5>1, EntryIn
        <5>3. patches[p].faces \in Seq(RFace)
          BY <5>2 DEF Patch
        <5> QED
          BY <5>3 DEF PlacesOf
      <4>2. i # k
        BY <1>9, <2>1, <3>2, <4>1
      <4>3. i \in PlacesOf(p) /\ SlotLabel(p, i)' = SlotLabel(p, i)
        BY <1>9, <3>2, <4>2
      <4>4. CASE j = k
        BY <1>7, <1>9, <3>2, <4>3, <4>4
      <4>5. CASE j # k
        <5>1. j \in PlacesOf(p) /\ SlotLabel(p, j)' = SlotLabel(p, j)
          BY <1>9, <3>2, <4>5
        <5> QED
          BY <1>3, <2>1, <3>2, <4>3, <5>1 DEF Rising
      <4> QED
        BY <4>4, <4>5
    <3>3. CASE q = p /\ p \notin DOMAIN patches
      BY <1>9, <2>1, <3>3
    <3> QED
      BY <3>1, <3>2, <3>3
  <2> QED
    BY <2>1 DEF Rising
<1>13. OneName'
  BY <1>3, <1>8, <1>9, <1>10 DEF OneName
<1> QED
  BY <1>11, <1>12, <1>13 DEF Patched

\* A step that leaves the names and the faces of the patches.
LEMMA PatchedFrame ==
  ASSUME Patched, mesh' = mesh, zone' = zone, Building' => Building,
         DOMAIN patches' = DOMAIN patches,
         \A p \in DOMAIN patches : patches'[p].name = patches[p].name
                                   /\ patches'[p].faces = patches[p].faces
  PROVE  Patched'
<1>1. \A z, k : NameFor(z, k)' = NameFor(z, k)
  BY SameNames
<1>2. \A p \in DOMAIN patches : PlacesOf(p)' = PlacesOf(p) /\ \A i : SlotLabel(p, i)' = SlotLabel(p, i)
  BY DEF PlacesOf, SlotLabel
<1> QED
  BY <1>1, <1>2 DEF Patched, Named, Rising, OneName

\* A region begins without patches, and a split that has stopped has none to keep.
LEMMA NothingPatched ==
  ASSUME patches' = <<>> \/ ~Building'
  PROVE  Patched'
  BY DEF Patched, Named, Rising, OneName

LEMMA KeepsNames ==
  ASSUME IInv, Patched, NEW f, KeepOwned(f) \/ KeepReversed(f)
  PROVE  Patched'
<1>1. Collects(f) /\ Next1 /\ f \in FacesOf(mesh) /\ Building
  BY DEF KeepOwned, KeepReversed, Collects, Building
<1>2. mesh \in Meshes /\ Valid(mesh) /\ zone \in DOMAIN mesh.cellZones
  BY <1>1, ZoneFacts
<1>3. f \in Nat
  BY <1>1, <1>2, MeshFacts
<1>4. CASE KeepOwned(f)
  <2>1. PICK g, patch : /\ g = RegionFace(Nodes(f, FALSE), Local(zone, mesh.owner[f]), NoCell)
                        /\ patch = PatchFor(zone, ZonesOf(NeighbourOf(mesh, f)), f)
    OBVIOUS
  <2>2. Push(patch, g) /\ OwnerIn(f)
    BY <1>4, <2>1 DEF KeepOwned
  <2>3. IsLocal(Local(zone, mesh.owner[f]), mesh.owner[f])
    BY <1>2, <2>2, MeshFacts DEF OwnerIn
  <2>4. Local(zone, mesh.owner[f]) \in Nat
    BY <1>2, <2>3, MeshFacts
  <2>5. g = [nodes |-> [of |-> f, reversed |-> FALSE], owner |-> Local(zone, mesh.owner[f]), neighbour |-> 0]
    BY <2>1 DEF RegionFace, Nodes, NoCell
  <2>6. g \in RFace /\ g.nodes.of = f
    BY <1>3, <2>4, <2>5 DEF RFace
  <2>7. patch.name = NameFor(zone, f)
    BY <2>1, <2>2 DEF NameFor, Beyond, OwnerIn
  <2> QED
    BY <1>1, <2>2, <2>6, <2>7, PushKeepsNames
<1>5. CASE KeepReversed(f)
  <2>1. PICK g, patch : /\ g = RegionFace(Nodes(f, TRUE), Local(zone, mesh.neighbour[f]), NoCell)
                        /\ patch = PatchFor(zone,
                             IF ZonesOf(mesh.owner[f]) = {} THEN {zone} ELSE ZonesOf(mesh.owner[f]), f)
    OBVIOUS
  <2>2. Push(patch, g) /\ ~OwnerIn(f) /\ NeighbourIn(f)
    BY <1>5, <2>1 DEF KeepReversed
  <2>3. mesh.neighbour[f] \in CellsIn(zone)
    BY <1>2, <2>2, MeshFacts DEF NeighbourIn
  <2>4. Local(zone, mesh.neighbour[f]) \in Nat
    BY <1>2, <2>3, MeshFacts
  <2>5. g = [nodes |-> [of |-> f, reversed |-> TRUE], owner |-> Local(zone, mesh.neighbour[f]), neighbour |-> 0]
    BY <2>1 DEF RegionFace, Nodes, NoCell
  <2>6. g \in RFace /\ g.nodes.of = f
    BY <1>3, <2>4, <2>5 DEF RFace
  <2>7. patch.name = NameFor(zone, f)
    BY <2>1, <2>2 DEF NameFor, Beyond, OwnerIn
  <2> QED
    BY <1>1, <2>2, <2>6, <2>7, PushKeepsNames
<1> QED
  BY <1>4, <1>5

\* What Lay does to the patches and the faces.
LayFacts ==
  /\ DOMAIN patches' = DOMAIN patches /\ laid \in DOMAIN patches
  /\ patches'[laid].name = patches[laid].name /\ patches'[laid].type = patches[laid].type
  /\ patches'[laid].faces = patches[laid].faces
  /\ patches'[laid].start = Len(faces) + 1
  /\ \A p \in DOMAIN patches : p # laid => patches'[p] = patches[p]

LEMMA LayKeeps ==
  ASSUME IInv, Lay
  PROVE  LayFacts
<1>1. PICK N, T : patches \in Seq(Patch(N, T))
  BY DEF IInv, BuiltOK, HasPatches
<1>2. laid \in DOMAIN patches /\ patches' = [patches EXCEPT ![laid].start = Len(faces) + 1]
  BY DEF Lay, StartHere
<1>3. patches[laid] \in Patch(N, T)
  BY <1>1, <1>2, EntryIn
<1>4. PICK new : new = [patches[laid] EXCEPT !.start = Len(faces) + 1]
  OBVIOUS
<1>5. new.name = patches[laid].name /\ new.type = patches[laid].type /\ new.faces = patches[laid].faces
      /\ new.start = Len(faces) + 1
  BY <1>3, <1>4 DEF Patch
<1>6. patches' = [patches EXCEPT ![laid] = new]
  BY <1>2, <1>4
<1> QED
  BY <1>2, <1>5, <1>6 DEF LayFacts

LEMMA PatchedStep ==
  ASSUME IInv, Patched, [SplitNext]_<<splitVars, faults>>
  PROVE  Patched'
<1>1. CASE Begin
  BY <1>1, NothingPatched DEF Begin, Begins, Starts, Building
<1>2. CASE CannotRead \/ WriteFails
  BY <1>2, NothingPatched DEF CannotRead, WriteFails, Building
<1>3. CASE \E f \in FacesOf(mesh) : KeepOwned(f) \/ KeepReversed(f)
  BY <1>3, KeepsNames
<1>4. CASE \E f \in FacesOf(mesh) : KeepInternal(f) \/ PassBy(f)
  <2>1. mesh' = mesh /\ zone' = zone /\ pc' = pc /\ patches' = patches
    BY <1>4 DEF KeepInternal, PassBy, Next1
  <2> QED
    BY <2>1, PatchedFrame DEF Building
<1>5. CASE Collected \/ Laid \/ WriteFile \/ LoseEnd
  <2>1. mesh' = mesh /\ zone' = zone /\ patches' = patches /\ Building
    BY <1>5 DEF Collected, Laid, WriteFile, LoseEnd, building, Building
  <2> QED
    BY <2>1, PatchedFrame
<1>6. CASE Lay
  <2>1. mesh' = mesh /\ zone' = zone /\ Building
    BY <1>6 DEF Lay, Building
  <2> QED
    BY <1>6, <2>1, LayKeeps, PatchedFrame DEF LayFacts
<1>7. CASE Written
  BY <1>7, NothingPatched DEF Written, Starts, Building
<1>8. CASE Elsewhere \/ UNCHANGED <<splitVars, faults>>
  <2>1. mesh' = mesh /\ zone' = zone /\ pc' = pc /\ patches' = patches
    BY <1>8 DEF Elsewhere, splitVars, building
  <2> QED
    BY <2>1, PatchedFrame DEF Building
<1> QED
  BY <1>1, <1>2, <1>3, <1>4, <1>5, <1>6, <1>7, <1>8 DEF SplitNext, SplitStep

-----------------------------------------------------------------------------
(***************************************************************************)
(* Where the patches stand.                                                *)
(***************************************************************************)
LEMMA PlacedFrame ==
  ASSUME Placed, pc \in {"lay", "write"}, pc' = pc \/ (pc = "lay" /\ laid \notin DOMAIN patches),
         IInv, internal' = internal, patches' = patches, faces' = faces, laid' = laid
  PROVE  Placed'
<1>1. /\ \A p \in LaidPatches : Standing(p)
      /\ \A p, q \in LaidPatches : p < q => EndOf(p) <= patches[q].start
      /\ \A n \in DOMAIN faces : Len(internal) < n =>
           \E p \in LaidPatches : \E i \in PlacesOf(p) : n = patches[p].start + i - 1
      /\ pc = "write" => LaidPatches = DOMAIN patches
  BY DEF Placed
<1>2. LaidPatches' = LaidPatches /\ \A p : /\ Standing(p)' <=> Standing(p)
                                           /\ EndOf(p)' = EndOf(p) /\ PlacesOf(p)' = PlacesOf(p)
  BY DEF LaidPatches, Standing, EndOf, PlacesOf
<1>3. pc = "lay" /\ laid \notin DOMAIN patches => LaidPatches = DOMAIN patches
  <2> SUFFICES ASSUME pc = "lay", laid \notin DOMAIN patches PROVE LaidPatches = DOMAIN patches
    OBVIOUS
  <2>1. laid \in Nat /\ laid # 0
    BY DEF IInv, TypeOK, Laying
  <2>2. PICK N, T : patches \in Seq(Patch(N, T))
    BY DEF IInv, BuiltOK, HasPatches
  <2>3. DOMAIN patches = 1 .. Len(patches) /\ Len(patches) \in Nat
    BY <2>2
  <2> QED
    BY <2>1, <2>3 DEF LaidPatches
<1> QED
  BY <1>1, <1>2, <1>3 DEF Placed

LEMMA LayPlaces ==
  ASSUME IInv, Placed, Lay
  PROVE  Placed'
<1>1. LayFacts
  BY LayKeeps
<1>0. PICK l : l = laid
  OBVIOUS
<1>2. /\ DOMAIN patches' = DOMAIN patches /\ l \in DOMAIN patches
      /\ patches'[l].faces = patches[l].faces
      /\ patches'[l].start = Len(faces) + 1
      /\ \A p \in DOMAIN patches : p # l => patches'[p] = patches[p]
  BY <1>0, <1>1 DEF LayFacts
<1>3. /\ internal' = internal /\ faces' = faces \o patches[l].faces
      /\ laid' = l + 1 /\ pc = "lay" /\ pc' = pc
  BY <1>0 DEF Lay
<1>4. /\ internal \in Seq(RFace) /\ faces \in Seq(RFace)
      /\ Len(internal) \in Nat /\ Len(faces) \in Nat /\ Len(internal) <= Len(faces) /\ l \in Nat
  BY <1>0, <1>3 DEF IInv, BuiltOK, Laying, LaidOut, TypeOK
<1>5. PICK N, T : patches \in Seq(Patch(N, T))
  BY DEF IInv, BuiltOK, HasPatches
<1>6. \A p \in DOMAIN patches : /\ p \in Nat /\ patches[p].faces \in Seq(RFace) /\ patches[p].start \in Nat
                                /\ Len(patches[p].faces) \in Nat
                                /\ PlacesOf(p) = 1 .. Len(patches[p].faces)
  <2>1. \A p \in DOMAIN patches : p \in Nat /\ patches[p] \in Patch(N, T)
    BY <1>5, EntryIn
  <2>2. \A p \in DOMAIN patches : patches[p].faces \in Seq(RFace) /\ patches[p].start \in Nat
    BY <2>1 DEF Patch
  <2> QED
    BY <2>1, <2>2 DEF PlacesOf
<1>7. PICK t : t = patches[l].faces /\ t \in Seq(RFace) /\ Len(t) \in Nat
  BY <1>2, <1>6
<1>8. /\ faces' \in Seq(RFace) /\ Len(faces') = Len(faces) + Len(t)
      /\ \A i \in DOMAIN faces : faces'[i] = faces[i]
      /\ \A j \in DOMAIN t : faces'[Len(faces) + j] = t[j]
      /\ \A i \in DOMAIN faces' : i \in DOMAIN faces \/ \E j \in DOMAIN t : i = Len(faces) + j
  <2>1. faces' = faces \o t
    BY <1>3, <1>7
  <2>2. Len(faces') = Len(faces) + Len(t)
    BY <1>4, <1>7, <2>1, ConcatProperties
  <2>3. faces \in Seq(RFace) /\ t \in Seq(RFace)
    BY <1>4, <1>7
  <2>4. /\ (faces \o t) \in Seq(RFace)
        /\ \A i \in DOMAIN faces : (faces \o t)[i] = faces[i]
        /\ \A j \in DOMAIN t : (faces \o t)[Len(faces) + j] = t[j]
        /\ \A i \in DOMAIN (faces \o t) : i \in DOMAIN faces \/ \E j \in DOMAIN t : i = Len(faces) + j
    BY <2>3, ConcatFacts
  <2> QED
    BY <2>1, <2>2, <2>4
<1>9. /\ LaidPatches' = LaidPatches \cup {l} /\ l \notin LaidPatches
      /\ \A p \in DOMAIN patches : PlacesOf(p)' = PlacesOf(p)
      /\ \A p \in LaidPatches : EndOf(p)' = EndOf(p) /\ patches'[p] = patches[p]
      /\ EndOf(l)' = Len(faces) + 1 + Len(t)
  <2>1. LaidPatches' = LaidPatches \cup {l} /\ l \notin LaidPatches
    BY <1>0, <1>2, <1>3, <1>4, <1>6 DEF LaidPatches
  <2>2. \A p \in LaidPatches : p \in DOMAIN patches /\ p # l
    BY <2>1 DEF LaidPatches
  <2>3. \A p \in DOMAIN patches : PlacesOf(p)' = PlacesOf(p)
    BY <1>2 DEF PlacesOf
  <2>4. EndOf(l)' = Len(faces) + 1 + Len(t)
    <3>1. EndOf(l)' = patches'[l].start + Len(patches'[l].faces)
      BY DEF EndOf
    <3> QED
      BY <1>2, <1>7, <3>1
  <2>5. \A p \in LaidPatches : EndOf(p)' = EndOf(p) /\ patches'[p] = patches[p]
    BY <1>2, <2>2 DEF EndOf
  <2> QED
    BY <2>1, <2>3, <2>4, <2>5
<1>10. /\ \A p \in LaidPatches : p \in DOMAIN patches /\ Standing(p)
       /\ \A p, q \in LaidPatches : p < q => EndOf(p) <= patches[q].start
       /\ \A n \in DOMAIN faces : Len(internal) < n =>
            \E p \in LaidPatches : \E i \in PlacesOf(p) : n = patches[p].start + i - 1
  BY <1>3 DEF Placed, LaidPatches
<1>11. \A p \in LaidPatches : EndOf(p) <= Len(faces) + 1 /\ EndOf(p) \in Nat
  BY <1>6, <1>10 DEF Standing, EndOf
<1>12. ASSUME NEW p \in LaidPatches
       PROVE  Standing(p)'
  <2>1. /\ Len(internal) < patches[p].start /\ EndOf(p) <= Len(faces) + 1
        /\ \A i \in PlacesOf(p) : faces[patches[p].start + i - 1] = patches[p].faces[i]
    BY <1>10 DEF Standing
  <2>2. EndOf(p)' <= Len(faces') + 1
    BY <1>4, <1>7, <1>8, <1>9, <1>11
  <2>3. ASSUME NEW i \in PlacesOf(p)
        PROVE  faces'[patches[p].start + i - 1] = patches[p].faces[i]
    <3>1. i \in 1 .. Len(patches[p].faces)
      BY <1>6, <1>10
    <3>2. patches[p].start + i - 1 \in 1 .. Len(faces)
      BY <1>4, <1>6, <1>10, <2>1, <3>1 DEF EndOf
    <3>3. patches[p].start + i - 1 \in DOMAIN faces
      BY <1>4, <3>2
    <3> QED
      BY <1>8, <2>1, <3>3
  <2>4. PlacesOf(p)' = PlacesOf(p) /\ patches'[p] = patches[p]
    BY <1>9, <1>10
  <2> QED
    BY <1>3, <2>1, <2>2, <2>3, <2>4 DEF Standing
<1>13. Standing(l)'
  <2>1. Len(internal) < Len(faces) + 1 /\ EndOf(l)' <= Len(faces') + 1
    <3>1. EndOf(l)' = Len(faces) + 1 + Len(t)
      BY <1>9
    <3>2. Len(faces') = Len(faces) + Len(t)
      BY <1>8
    <3>3. /\ Len(internal) \in Nat /\ Len(faces) \in Nat /\ Len(internal) <= Len(faces)
          /\ Len(t) \in Nat
      BY <1>4, <1>7
    <3>4. Len(internal) < Len(faces) + 1
      BY <3>3
    <3>5. Len(faces) + 1 + Len(t) <= Len(faces) + Len(t) + 1
      BY <3>3
    <3> QED
      BY <3>1, <3>2, <3>4, <3>5
  <2>2. ASSUME NEW i \in PlacesOf(l)
        PROVE  faces'[Len(faces) + 1 + i - 1] = patches[l].faces[i]
    <3>1. i \in DOMAIN t /\ i \in Nat
      BY <1>2, <1>6, <1>7 DEF PlacesOf
    <3>2. Len(faces) + 1 + i - 1 = Len(faces) + i
      BY <1>4, <3>1
    <3> QED
      BY <1>7, <1>8, <3>1, <3>2
  <2>3. PlacesOf(l)' = PlacesOf(l)
    BY <1>2, <1>9
  <2>4. Standing(l)' <=>
          /\ Len(internal') < patches'[l].start /\ EndOf(l)' <= Len(faces') + 1
          /\ \A i \in PlacesOf(l)' : faces'[patches'[l].start + i - 1] = patches'[l].faces[i]
    BY <1>3 DEF Standing, PlacesOf, EndOf
  <2> QED
    BY <1>2, <1>3, <2>1, <2>2, <2>3 DEF Standing
<1>14. ASSUME NEW p \in LaidPatches', NEW q \in LaidPatches', p < q
       PROVE  EndOf(p)' <= patches'[q].start
  <2>1. p # l
    BY <1>0, <1>4, <1>6, <1>9, <1>10, <1>14 DEF LaidPatches
  <2>2. p \in LaidPatches
    BY <1>9, <2>1
  <2>3. CASE q = l
    BY <1>2, <1>9, <1>11, <2>2, <2>3
  <2>4. CASE q # l
    BY <1>9, <1>10, <1>14, <2>2, <2>4
  <2> QED
    BY <2>3, <2>4
<1>15. ASSUME NEW n \in DOMAIN faces', Len(internal) < n
       PROVE  \E p \in LaidPatches' : \E i \in PlacesOf(p)' : n = patches'[p].start + i - 1
  <2>1. CASE n \in DOMAIN faces
    <3>1. PICK p \in LaidPatches : \E i \in PlacesOf(p) : n = patches[p].start + i - 1
      BY <1>10, <1>15, <2>1
    <3> QED
      BY <1>9, <1>10, <3>1
  <2>2. CASE \E j \in DOMAIN t : n = Len(faces) + j
    <3>1. PICK j \in DOMAIN t : n = Len(faces) + j
      BY <2>2
    <3>2. j \in PlacesOf(l)' /\ l \in LaidPatches'
      BY <1>2, <1>7, <1>9 DEF PlacesOf
    <3>3. n = patches'[l].start + j - 1
      BY <1>2, <1>4, <1>7, <3>1
    <3> QED
      BY <3>2, <3>3
  <2> QED
    BY <1>8, <2>1, <2>2
<1>16. \A p \in LaidPatches' : Standing(p)'
  BY <1>9, <1>12, <1>13
<1> QED
  BY <1>3, <1>14, <1>15, <1>16 DEF Placed

LEMMA CollectedPlaces ==
  ASSUME IInv, Collected
  PROVE  Placed'
<1>1. laid' = 1 /\ faces' = internal /\ internal' = internal /\ patches' = patches /\ pc' = "lay"
  BY DEF IInv, Collecting, Collected
<1>2. internal \in Seq(RFace)
  BY DEF IInv, BuiltOK
<1>3. PICK N, T : patches \in Seq(Patch(N, T))
  BY DEF IInv, BuiltOK, HasPatches
<1>4. LaidPatches' = {}
  BY <1>1, <1>3 DEF LaidPatches
<1>5. \A n \in DOMAIN internal : ~(Len(internal) < n)
  BY <1>2
<1> QED
  BY <1>1, <1>4, <1>5 DEF Placed

LEMMA PlacedStep ==
  ASSUME IInv, Placed, [SplitNext]_<<splitVars, faults>>
  PROVE  Placed'
<1>1. CASE pc' \notin {"lay", "write"}
  BY <1>1 DEF Placed
<1>2. CASE Collected
  BY <1>2, CollectedPlaces
<1>3. CASE Lay
  BY <1>3, LayPlaces
<1>4. CASE Laid \/ WriteFile \/ LoseEnd
  <2>1. /\ internal' = internal /\ patches' = patches /\ faces' = faces /\ laid' = laid
        /\ pc \in {"lay", "write"} /\ (pc' = pc \/ (pc = "lay" /\ laid \notin DOMAIN patches))
    BY <1>4 DEF Laid, WriteFile, LoseEnd, building
  <2> QED
    BY <2>1, PlacedFrame
<1>5. CASE (Elsewhere \/ UNCHANGED <<splitVars, faults>>) /\ pc \in {"lay", "write"}
  <2>1. internal' = internal /\ patches' = patches /\ faces' = faces /\ laid' = laid /\ pc' = pc
    BY <1>5 DEF Elsewhere, splitVars, building
  <2> QED
    BY <1>5, <2>1, PlacedFrame
<1>6. CASE pc' \in {"lay", "write"}
  <2>1. ~Begin /\ ~CannotRead /\ ~WriteFails /\ ~Written
    BY <1>6 DEF Begin, Begins, Starts, CannotRead, WriteFails, Written
  <2>2. \A f : ~(KeepInternal(f) \/ KeepOwned(f) \/ KeepReversed(f) \/ PassBy(f))
    BY <1>6 DEF KeepInternal, KeepOwned, KeepReversed, PassBy, Collects, Next1
  <2>3. Elsewhere \/ UNCHANGED <<splitVars, faults>> => pc' = pc
    BY DEF Elsewhere, splitVars
  <2> QED
    BY <1>2, <1>3, <1>4, <1>5, <1>6, <2>1, <2>2, <2>3 DEF SplitNext, SplitStep
<1> QED
  BY <1>1, <1>6

-----------------------------------------------------------------------------
(***************************************************************************)
(* A region that is written is one.                                        *)
(***************************************************************************)
LEMMA NumbersOf ==
  ASSUME IInv
  PROVE  /\ faces \in Seq(RFace) /\ internal \in Seq(RFace)
         /\ Len(faces) \in Nat /\ Len(internal) \in Nat
         /\ DOMAIN faces = 1 .. Len(faces) /\ DOMAIN internal = 1 .. Len(internal)
         /\ \A p \in DOMAIN patches : /\ p \in Nat /\ patches[p].start \in Nat
                                      /\ Len(patches[p].faces) \in Nat
                                      /\ PlacesOf(p) = 1 .. Len(patches[p].faces)
<1>1. faces \in Seq(RFace) /\ internal \in Seq(RFace)
  BY DEF IInv, BuiltOK
<1>2. PICK N, T : patches \in Seq(Patch(N, T))
  BY DEF IInv, BuiltOK, HasPatches
<1>3. \A p \in DOMAIN patches : p \in Nat /\ patches[p] \in Patch(N, T)
  BY <1>2, EntryIn
<1>4. \A p \in DOMAIN patches : patches[p].faces \in Seq(RFace) /\ patches[p].start \in Nat
  BY <1>3 DEF Patch
<1> QED
  BY <1>1, <1>3, <1>4 DEF PlacesOf

LEMMA BoundaryFacts ==
  ASSUME IInv, NEW B, B = Content("boundary")
  PROVE  /\ DOMAIN B = DOMAIN patches
         /\ \A p \in DOMAIN patches :
              /\ B[p].name = patches[p].name /\ B[p].start = patches[p].start
              /\ B[p].count = Len(patches[p].faces)
         /\ \E N, T : B \in Seq(BoundaryPatch(N, T))
<1> DEFINE c(p) == [name |-> patches[p].name, type |-> patches[p].type,
                    start |-> patches[p].start, count |-> Len(patches[p].faces)]
<1>1. B = [p \in DOMAIN patches |-> c(p)]
  BY DEF Content
<1>2. PICK N, T : patches \in Seq(Patch(N, T))
  BY DEF IInv, BuiltOK, HasPatches
<1>3. \A p \in DOMAIN patches : patches[p] \in Patch(N, T)
  BY <1>2, EntryIn
<1>4. \A p \in DOMAIN patches : /\ patches[p].name \in N /\ patches[p].type \in T
                                /\ patches[p].start \in Nat /\ Len(patches[p].faces) \in Nat
  <2>1. \A p \in DOMAIN patches : patches[p].name \in N /\ patches[p].type \in T
    BY <1>3 DEF Patch
  <2> QED
    BY <2>1, NumbersOf
<1>5. \A p \in DOMAIN patches : c(p) \in BoundaryPatch(N, T)
  BY <1>4 DEF BoundaryPatch
<1>6. \A p \in DOMAIN patches : B[p] = c(p)
  BY <1>1
<1>7. DOMAIN patches = 1 .. Len(patches) /\ Len(patches) \in Nat
  BY <1>2
<1> HIDE DEF c
<1>8. B \in Seq(BoundaryPatch(N, T))
  <2>1. B = [p \in 1 .. Len(patches) |-> c(p)]
    BY <1>1, <1>7
  <2> QED
    BY <1>5, <1>7, <2>1
<1>9. \A p \in DOMAIN patches :
        /\ B[p].name = patches[p].name /\ B[p].start = patches[p].start
        /\ B[p].count = Len(patches[p].faces)
  <2>1. ASSUME NEW p \in DOMAIN patches
        PROVE  /\ B[p].name = patches[p].name /\ B[p].start = patches[p].start
               /\ B[p].count = Len(patches[p].faces)
    <3>1. PICK r, k : r = B[p] /\ k = Len(patches[p].faces)
      OBVIOUS
    <3>2. r = [name |-> patches[p].name, type |-> patches[p].type, start |-> patches[p].start, count |-> k]
      BY <1>6, <3>1 DEF c
    <3>3. r.name = patches[p].name /\ r.start = patches[p].start /\ r.count = k
      BY <3>2
    <3> QED
      BY <3>1, <3>3
  <2> QED
    BY <2>1
<1> QED
  BY <1>1, <1>8, <1>9

\* The faces that are laid out, for the zone that is built.
LEMMA WrittenFaces ==
  ASSUME IInv, pc = "write"
  PROVE  HasFaces(zone, faces, Len(internal))
<1>1. LaidOut /\ \A f \in FacesOf(mesh) : Touches(f) => InFaces(f)
  BY DEF IInv, Writing
<1>2. mesh \in Meshes /\ Valid(mesh) /\ zone \in DOMAIN mesh.cellZones
  BY ZoneFacts DEF Building
<1>3. ASSUME NEW i \in DOMAIN faces
      PROVE  Sound(zone, faces[i]) /\ (i <= Len(internal) <=> Amid(zone, faces[i].nodes.of))
  <2>1. CASE i <= Len(internal)
    <3>1. Inside(faces[i])
      BY <1>1, <2>1 DEF LaidOut
    <3> QED
      BY <2>1, <3>1 DEF Inside, Sound, Amid, In, LocalIn, IsLocal, OwnerIn, NeighbourIn
  <2>2. CASE ~(i <= Len(internal))
    <3>1. Outer(faces[i])
      BY <1>1, <2>2 DEF LaidOut
    <3> QED
      BY <2>2, <3>1 DEF Outer, Touches, Sound, Amid, In, LocalIn, IsLocal, OwnerIn, NeighbourIn
  <2> QED
    BY <2>1, <2>2
<1>4. \A i, j \in DOMAIN faces : faces[i].nodes.of = faces[j].nodes.of => i = j
  BY <1>1 DEF LaidOut
<1>5. \A f \in FacesOf(mesh) : In(zone, f) => \E i \in DOMAIN faces : faces[i].nodes.of = f
  BY <1>1 DEF In, Touches, OwnerIn, NeighbourIn, InFaces
<1> QED
  BY <1>3, <1>4, <1>5 DEF HasFaces

LEMMA WrittenRegion ==
  ASSUME IInv, Patched, Placed, pc = "write"
  PROVE  IsRegion(zone, faces, Len(internal), Content("boundary"))
<1>1. PICK B : B = Content("boundary")
  OBVIOUS
<1>2. /\ DOMAIN B = DOMAIN patches
      /\ \A p \in DOMAIN patches :
           /\ B[p].name = patches[p].name /\ B[p].start = patches[p].start
           /\ B[p].count = Len(patches[p].faces)
      /\ \E N, T : B \in Seq(BoundaryPatch(N, T))
  BY <1>1, BoundaryFacts
<1>3. /\ faces \in Seq(RFace) /\ internal \in Seq(RFace)
      /\ Len(faces) \in Nat /\ Len(internal) \in Nat /\ DOMAIN faces = 1 .. Len(faces)
      /\ \A p \in DOMAIN patches : /\ p \in Nat /\ patches[p].start \in Nat
                                   /\ Len(patches[p].faces) \in Nat
                                   /\ PlacesOf(p) = 1 .. Len(patches[p].faces)
  BY NumbersOf
<1>4. Len(internal) <= Len(faces)
  BY DEF IInv, Writing, LaidOut
<1>5. HasFaces(zone, faces, Len(internal))
  BY WrittenFaces
<1>6. /\ \A p \in DOMAIN patches : Standing(p)
      /\ \A p, q \in DOMAIN patches : p < q => EndOf(p) <= patches[q].start
      /\ \A k \in DOMAIN faces : Len(internal) < k =>
           \E p \in DOMAIN patches : \E i \in PlacesOf(p) : k = patches[p].start + i - 1
  <2>1. LaidPatches = DOMAIN patches
    BY DEF Placed
  <2> QED
    BY <2>1 DEF Placed
<1>7. Named /\ Rising /\ OneName
  BY DEF Patched, Building
<1>8. \A p \in DOMAIN patches : PatchRange(B[p]) = patches[p].start .. patches[p].start + Len(patches[p].faces) - 1
  BY <1>2 DEF PatchRange
<1>9. HasRanges(faces, Len(internal), B)
  <2>1. ASSUME NEW p \in DOMAIN B
        PROVE  Len(internal) < B[p].start /\ B[p].start + B[p].count - 1 <= Len(faces)
    <3>1. Len(internal) < patches[p].start /\ patches[p].start + Len(patches[p].faces) <= Len(faces) + 1
      BY <1>2, <1>6 DEF Standing, EndOf
    <3> QED
      BY <1>2, <1>3, <3>1
  <2>2. ASSUME NEW p \in DOMAIN B, NEW q \in DOMAIN B, p # q, NEW i \in PatchRange(B[p]), i \in PatchRange(B[q])
        PROVE  FALSE
    <3>1. i \in patches[p].start .. patches[p].start + Len(patches[p].faces) - 1
          /\ i \in patches[q].start .. patches[q].start + Len(patches[q].faces) - 1
      BY <1>2, <1>8, <2>2
    <3>2. p < q \/ q < p
      BY <1>2, <1>3, <2>2
    <3>3. /\ p < q => patches[p].start + Len(patches[p].faces) <= patches[q].start
          /\ q < p => patches[q].start + Len(patches[q].faces) <= patches[p].start
      BY <1>2, <1>6 DEF EndOf
    <3> QED
      BY <1>2, <1>3, <3>1, <3>2, <3>3
  <2>3. ASSUME NEW k \in DOMAIN faces, Len(internal) < k
        PROVE  \E p \in DOMAIN B : k \in PatchRange(B[p])
    <3>1. PICK p \in DOMAIN patches : \E i \in PlacesOf(p) : k = patches[p].start + i - 1
      BY <1>6, <2>3
    <3>2. k \in patches[p].start .. patches[p].start + Len(patches[p].faces) - 1
      BY <1>3, <3>1
    <3> QED
      BY <1>2, <1>8, <3>2
  <2> QED
    BY <2>1, <2>2, <2>3 DEF HasRanges
\* A place of a patch, counted from its first.
<1>10. ASSUME NEW p \in DOMAIN patches, NEW i \in PatchRange(B[p])
       PROVE  /\ i - patches[p].start + 1 \in PlacesOf(p)
              /\ faces[i].nodes.of = SlotLabel(p, i - patches[p].start + 1)
  <2>1. i \in patches[p].start .. patches[p].start + Len(patches[p].faces) - 1
    BY <1>8
  <2>2. PICK k : k = i - patches[p].start + 1
    OBVIOUS
  <2>3. k \in PlacesOf(p) /\ patches[p].start + k - 1 = i
    BY <1>3, <2>1, <2>2
  <2>4. faces[patches[p].start + k - 1] = patches[p].faces[k]
    BY <1>6, <2>3 DEF Standing
  <2> QED
    BY <2>2, <2>3, <2>4 DEF SlotLabel
<1>11. HasNames(zone, faces, B)
  <2>1. ASSUME NEW p \in DOMAIN B, NEW i \in PatchRange(B[p])
        PROVE  B[p].name = NameFor(zone, faces[i].nodes.of)
    BY <1>2, <1>7, <1>10 DEF Named
  <2>2. ASSUME NEW p \in DOMAIN B, NEW i \in PatchRange(B[p]), NEW j \in PatchRange(B[p]), i < j
        PROVE  faces[i].nodes.of < faces[j].nodes.of
    <3>1. i \in Int /\ j \in Int /\ patches[p].start \in Nat
      <4>1. i \in patches[p].start .. patches[p].start + Len(patches[p].faces) - 1
            /\ j \in patches[p].start .. patches[p].start + Len(patches[p].faces) - 1
        BY <1>2, <1>8
      <4> QED
        BY <1>2, <1>3, <4>1
    <3>2. i - patches[p].start + 1 < j - patches[p].start + 1
      BY <2>2, <3>1
    <3> QED
      BY <1>2, <1>7, <1>10, <3>2 DEF Rising
  <2>3. \A p, q \in DOMAIN B : B[p].name = B[q].name => p = q
    BY <1>2, <1>7 DEF OneName
  <2> QED
    BY <2>1, <2>2, <2>3 DEF HasNames
<1> QED
  BY <1>1, <1>2, <1>3, <1>4, <1>5, <1>9, <1>11 DEF IsRegion

-----------------------------------------------------------------------------
(***************************************************************************)
(* The files.                                                              *)
(***************************************************************************)
LEMMA NamesOfFiles ==
  /\ DOMAIN FileNames = 1 .. 7
  /\ FileNames[2] = "faces" /\ FileNames[3] = "owner" /\ FileNames[4] = "neighbour"
  /\ FileNames[5] = "boundary"
  /\ \A i, j \in DOMAIN FileNames : FileNames[i] = FileNames[j] => i = j
  /\ \A i \in DOMAIN FileNames : FileNames[i] \in FileSet
  BY DEF FileNames, FileSet

\* The directories of zones are known, and the one that is written is not one of those reported.
LEMMA DirectoriesKnown ==
  ASSUME IInv, NEW z \in DOMAIN mesh.cellZones
  PROVE  Directory(z) \in DOMAIN region
<1>1. mesh.cellZones \in Seq([name : Words, cells : Seq(Nat)])
  BY DEF IInv, TypeOK, Meshes
<1> DEFINE R == [name : Words, cells : Seq(Nat)]
<1>2. mesh.cellZones \in Seq(R)
  BY <1>1
<1> HIDE DEF R
<1>3. mesh.cellZones[z] \in R
  BY <1>2, EntryIn
<1>4. mesh.cellZones[z].name \in Words
  BY <1>3 DEF R
<1> QED
  BY <1>4 DEF IInv, Zones, Directory

LEMMA DirectoriesApart ==
  ASSUME IInv, Building, NEW z \in DOMAIN summaries
  PROVE  z \in DOMAIN mesh.cellZones /\ z # zone /\ Directory(z) # Directory(zone)
<1>1. /\ mesh \in Meshes /\ zone \in DOMAIN mesh.cellZones /\ ~NamesCollide(mesh)
  BY ZoneFacts
<1>2. Len(summaries) + 1 = zone
  BY DEF IInv, Zones
<1>3. mesh.cellZones \in Seq([name : Words, cells : Seq(Nat)])
  BY <1>1 DEF Meshes
<1>4. z \in DOMAIN mesh.cellZones /\ z # zone
  <2>1. PICK S : summaries \in Seq(S)
    BY DEF IInv, BuiltOK
  <2>2. DOMAIN summaries = 1 .. Len(summaries) /\ Len(summaries) \in Nat
    BY <2>1
  <2>3. DOMAIN mesh.cellZones = 1 .. Len(mesh.cellZones) /\ Len(mesh.cellZones) \in Nat
    BY <1>3
  <2> QED
    BY <1>1, <1>2, <2>2, <2>3
<1> QED
  BY <1>1, <1>4 DEF NamesCollide, Same, Directory

LEMMA FiledStays ==
  ASSUME mesh' = mesh, faults # 0 => faults' # 0,
         NEW z, NEW f, NEW c, region'[Directory(z)][f] = region[Directory(z)][f], Filed(z, f, c)
  PROVE  Filed(z, f, c)'
  BY DEF Filed, Directory

\* What the content of a file depends on.
LEMMA SameContent ==
  ASSUME faces' = faces, internal' = internal, patches' = patches
  PROVE  \A f : Content(f)' = Content(f)
  BY DEF Content

LEMMA FilesStep ==
  ASSUME IInv, FilesOK, [SplitNext]_<<splitVars, faults>>
  PROVE  FilesOK' /\ (faults # 0 => faults' # 0)
<1>1. faults \in Nat /\ \A d \in DOMAIN region : DOMAIN region[d] = FileSet
  BY DEF FilesOK
<1>2. faults' = faults \/ faults' = faults + 1
  BY DEF Begin, Begins, SplitNext, SplitStep, CannotRead, KeepInternal, KeepOwned, KeepReversed, PassBy,
    Next1, Collected, Lay, Laid, WriteFile, LoseEnd, WriteFails, Written, Elsewhere, Fault
<1>3. region' = region \/ \E c : Writes(c)
  BY DEF Begin, Begins, SplitNext, SplitStep, CannotRead, KeepInternal, KeepOwned, KeepReversed, PassBy,
    Next1, Collected, Lay, Laid, WriteFile, LoseEnd, WriteFails, Written, Elsewhere, splitVars
<1>4. \A d \in DOMAIN region' : DOMAIN region'[d] = FileSet
  <2>1. CASE region' = region
    BY <1>1, <2>1
  <2>2. CASE \E c : Writes(c)
    BY <1>1, <2>2 DEF Writes
  <2> QED
    BY <1>3, <2>1, <2>2
<1> QED
  BY <1>1, <1>2, <1>4 DEF FilesOK

\* One file is written, whole or torn.
LEMMA FileFiled ==
  ASSUME IInv, JInv, WriteFile \/ LoseEnd
  PROVE  Filing'
<1>1. /\ pc = "write" /\ pc' = pc /\ file \in DOMAIN FileNames /\ file' = file + 1
      /\ mesh' = mesh /\ zone' = zone
      /\ faces' = faces /\ internal' = internal /\ patches' = patches
      /\ faults \in Nat /\ (faults' = faults \/ faults' = faults + 1)
  BY DEF WriteFile, LoseEnd, Fault, JInv, FilesOK
<1>2. PICK k, z : k = file /\ z = zone
  OBVIOUS
<1>3. PICK c : /\ Writes(c)
               /\ c = Reads(Content(FileNames[file]))
                  \/ (faults' # 0 /\ c \in Torn(FileNames[file], Content(FileNames[file])))
  BY <1>1 DEF WriteFile, LoseEnd, Fault
<1>4. Directory(z) \in DOMAIN region
  <2>1. z \in DOMAIN mesh.cellZones
    BY <1>1, <1>2, ZoneFacts DEF Building
  <2> QED
    BY <2>1, DirectoriesKnown
<1>5. DOMAIN region[Directory(z)] = FileSet /\ FileNames[k] \in FileSet
  BY <1>1, <1>2, <1>4, NamesOfFiles DEF JInv, FilesOK
<1>6. /\ region'[Directory(z)][FileNames[k]] = c
      /\ \A f : f # FileNames[k] => region'[Directory(z)][f] = region[Directory(z)][f]
  <2>1. region' = [region EXCEPT ![Directory(z)][FileNames[k]] = c]
    BY <1>2, <1>3 DEF Writes
  <2>2. region'[Directory(z)] = [region[Directory(z)] EXCEPT ![FileNames[k]] = c]
    BY <1>4, <2>1
  <2> QED
    BY <1>5, <2>2
<1>7. ASSUME NEW i \in DOMAIN FileNames, i < k + 1
      PROVE  Filed(z, FileNames[i], Content(FileNames[i]))'
  <2>1. Content(FileNames[i])' = Content(FileNames[i])
    BY <1>1, SameContent
  <2>2. CASE i = k
    BY <1>1, <1>2, <1>3, <1>6, <2>1, <2>2 DEF Filed, Directory
  <2>3. CASE i # k
    <3>1. i < file /\ FileNames[i] # FileNames[k]
      BY <1>1, <1>2, <1>7, <2>3, NamesOfFiles
    <3>2. Filed(z, FileNames[i], Content(FileNames[i]))
      BY <1>1, <1>2, <3>1 DEF JInv, Filing
    <3> QED
      BY <1>1, <1>6, <2>1, <3>1, <3>2 DEF Filed, Directory
  <2> QED
    BY <2>2, <2>3
<1> QED
  BY <1>1, <1>2, <1>7, NamesOfFiles DEF Filing

LEMMA FilingStep ==
  ASSUME IInv, JInv, [SplitNext]_<<splitVars, faults>>
  PROVE  Filing'
<1>1. CASE pc' \notin {"collect", "lay", "write"}
  BY <1>1 DEF Filing
<1>2. CASE Begin \/ Written
  <2>1. pc' \in {"failed", "done"} \/ (pc' = "collect" /\ file' = 1)
    BY <1>2 DEF Begin, Begins, Written, Starts
  <2> QED
    BY <2>1 DEF Filing
<1>3. CASE CannotRead \/ WriteFails
  BY <1>3 DEF CannotRead, WriteFails, Filing
<1>4. CASE \/ \E f \in FacesOf(mesh) : KeepInternal(f) \/ KeepOwned(f) \/ KeepReversed(f) \/ PassBy(f)
           \/ Collected \/ Lay
  <2>1. pc \in {"collect", "lay"} /\ pc' \in {"collect", "lay"} /\ file' = file
    BY <1>4 DEF KeepInternal, KeepOwned, KeepReversed, PassBy, Collects, Next1, Collected, Lay
  <2> QED
    BY <2>1 DEF JInv, Filing
<1>5. CASE Laid
  <2>1. pc = "lay" /\ pc' = "write" /\ file' = file
    BY <1>5 DEF Laid, building
  <2>2. file' = 1
    BY <2>1 DEF JInv, Filing
  <2> QED
    BY <2>1, <2>2, NamesOfFiles DEF Filing
<1>6. CASE WriteFile \/ LoseEnd
  BY <1>6, FileFiled
<1>7. CASE Elsewhere \/ UNCHANGED <<splitVars, faults>>
  <2>1. /\ pc' = pc /\ file' = file /\ mesh' = mesh /\ zone' = zone /\ region' = region
        /\ faces' = faces /\ internal' = internal /\ patches' = patches
    BY <1>7 DEF Elsewhere, splitVars, building
  <2>2. faults # 0 => faults' # 0
    BY FilesStep DEF JInv
  <2>3. Filing
    BY DEF JInv
  <2>4. \A i : Content(FileNames[i])' = Content(FileNames[i])
    BY <2>1, SameContent
  <2>5. \A i : Filed(zone, FileNames[i], Content(FileNames[i])) => Filed(zone, FileNames[i], Content(FileNames[i]))'
    BY <2>1, <2>2, <2>4 DEF Filed, Directory
  <2> QED
    BY <2>1, <2>3, <2>5 DEF Filing
<1> QED
  BY <1>2, <1>3, <1>4, <1>5, <1>6, <1>7 DEF SplitNext, SplitStep

-----------------------------------------------------------------------------
(***************************************************************************)
(* What has been reported stays so.                                        *)
(***************************************************************************)
LEMMA SameRegions ==
  ASSUME mesh' = mesh
  PROVE  \A z, F, n, B : IsRegion(z, F, n, B)' <=> IsRegion(z, F, n, B)
<1>1. \A z, f : NameFor(z, f)' = NameFor(z, f)
  BY SameNames
<1>2. \A z, F, B : HasNames(z, F, B)' <=> HasNames(z, F, B)
  BY <1>1 DEF HasNames
<1>3. \A z, F, n : HasFaces(z, F, n)' <=> HasFaces(z, F, n)
  BY DEF HasFaces, Sound, In, Amid, LocalIn, CellsIn, NeighbourOf, FacesOf
<1>4. \A F, n, B : HasRanges(F, n, B)' <=> HasRanges(F, n, B)
  OBVIOUS
<1> QED
  BY <1>2, <1>3, <1>4 DEF IsRegion

LEMMA IsFiledStays ==
  ASSUME mesh' = mesh, faults # 0 => faults' # 0, NEW z,
         \A f : region'[Directory(z)][f] = region[Directory(z)][f]
  PROVE  \A F, n, B : IsFiled(z, F, n, B) => IsFiled(z, F, n, B)'
  BY FiledStays DEF IsFiled

LEMMA ReportedFrame ==
  ASSUME Reported, mesh' = mesh, summaries' = summaries, faults # 0 => faults' # 0,
         \A z \in DOMAIN summaries : region'[Directory(z)] = region[Directory(z)]
  PROVE  Reported'
<1>1. ASSUME NEW k \in DOMAIN summaries
      PROVE  \E F, n : /\ summaries[k].faces = Len(F) /\ summaries[k].internal = n
                       /\ IsRegion(k, F, n, summaries[k].boundary)'
                       /\ IsFiled(k, F, n, summaries[k].boundary)'
  <2>1. PICK B, s : B = summaries[k].boundary /\ s = summaries[k]
    OBVIOUS
  <2>2. PICK F, n : /\ s.faces = Len(F) /\ s.internal = n
                    /\ IsRegion(k, F, n, B) /\ IsFiled(k, F, n, B)
    BY <2>1 DEF Reported
  <2>3. IsRegion(k, F, n, B)'
    BY <2>2, SameRegions
  <2>4. \A f : region'[Directory(k)][f] = region[Directory(k)][f]
    OBVIOUS
  <2>5. IsFiled(k, F, n, B)'
    BY <2>2, <2>4, IsFiledStays
  <2>6. summaries'[k].boundary = B
    BY <2>1
  <2>7. IsRegion(k, F, n, summaries[k].boundary)' /\ IsFiled(k, F, n, summaries[k].boundary)'
    BY <2>3, <2>5, <2>6 DEF IsRegion, IsFiled, Filed, HasNames, HasRanges
  <2> QED
    BY <2>1, <2>2, <2>7
<1>2. Splits(mesh)' <=> Splits(mesh)
  BY DEF Splits, Valid, NamesCollide, CellsCollide, Same, Labels, FacesOf
<1> QED
  BY <1>1, <1>2 DEF Reported

\* The region that is written is filed when there is no file left.
LEMMA WrittenFiled ==
  ASSUME IInv, JInv, Written
  PROVE  /\ IsRegion(zone, faces, Len(internal), Content("boundary"))
         /\ IsFiled(zone, faces, Len(internal), Content("boundary"))
<1>1. pc = "write" /\ file \notin DOMAIN FileNames
  BY DEF Written
<1>2. Patched /\ Placed /\ Filing /\ file \in Nat
  BY DEF JInv, IInv, TypeOK
<1>3. \A i \in DOMAIN FileNames : Filed(zone, FileNames[i], Content(FileNames[i]))
  <2>1. file # 0
    BY <1>1, <1>2 DEF Filing
  <2>2. \A i \in DOMAIN FileNames : i < file
    BY <1>1, <1>2, <2>1, NamesOfFiles
  <2> QED
    BY <1>1, <1>2, <2>2 DEF Filing
<1>4. /\ Filed(zone, "faces", Content("faces")) /\ Filed(zone, "owner", Content("owner"))
      /\ Filed(zone, "neighbour", Content("neighbour")) /\ Filed(zone, "boundary", Content("boundary"))
  <2>1. 2 \in DOMAIN FileNames /\ 3 \in DOMAIN FileNames /\ 4 \in DOMAIN FileNames /\ 5 \in DOMAIN FileNames
    BY NamesOfFiles
  <2> QED
    BY <1>3, <2>1, NamesOfFiles
<1>5. /\ Content("faces") = [i \in DOMAIN faces |-> faces[i].nodes]
      /\ Content("owner") = [i \in DOMAIN faces |-> faces[i].owner]
      /\ Content("neighbour") = [i \in DOMAIN internal |-> faces[i].neighbour]
  BY DEF Content
<1>6. DOMAIN internal = 1 .. Len(internal)
  BY NumbersOf
<1>7. IsFiled(zone, faces, Len(internal), Content("boundary"))
  BY <1>4, <1>5, <1>6 DEF IsFiled
<1> QED
  BY <1>1, <1>2, <1>7, WrittenRegion

LEMMA WrittenReports ==
  ASSUME IInv, JInv, Written
  PROVE  Reported'
<1>1. /\ mesh' = mesh /\ region' = region /\ faults' = faults /\ pc = "write"
      /\ summaries' = Append(summaries, Summary)
  BY DEF Written
<1>2. PICK z, F, n, B, e : /\ z = zone /\ F = faces /\ n = Len(internal) /\ B = Content("boundary")
                           /\ e = Summary
  OBVIOUS
<1>3. IsRegion(z, F, n, B) /\ IsFiled(z, F, n, B)
  BY <1>2, WrittenFiled
<1>4. IsRegion(z, F, n, B)' /\ IsFiled(z, F, n, B)'
  BY <1>1, <1>3, SameRegions, IsFiledStays
<1>5. /\ e.faces = Len(F) /\ e.internal = n /\ e.boundary = B
      /\ e.cells = Len(mesh.cellZones[z].cells)
  BY <1>2 DEF Summary
<1>6. Splits(mesh) /\ z \in DOMAIN mesh.cellZones /\ Len(summaries) + 1 = z
  BY <1>1, <1>2 DEF IInv, Zones, Building
<1>7. PICK S : summaries \in Seq(S)
  BY DEF IInv, BuiltOK
<1>8. PICK M : M = S \cup {e}
  OBVIOUS
<1>9. /\ DOMAIN summaries' = DOMAIN summaries \cup {z}
      /\ summaries'[z] = e /\ \A k \in DOMAIN summaries : summaries'[k] = summaries[k]
  <2>1. summaries \in Seq(M) /\ e \in M /\ summaries' = Append(summaries, e)
    BY <1>1, <1>2, <1>7, <1>8, WiderSeq
  <2> QED
    BY <1>6, <2>1, AppendFacts
<1>10. Splits(mesh)'
  BY <1>1, <1>6 DEF Splits, Valid, NamesCollide, CellsCollide, Same, Labels, FacesOf
<1>11. ASSUME NEW k \in DOMAIN summaries'
       PROVE  /\ k \in DOMAIN mesh.cellZones
              /\ summaries'[k].cells = Len(mesh.cellZones[k].cells)
              /\ \E G, m : /\ summaries'[k].faces = Len(G) /\ summaries'[k].internal = m
                           /\ IsRegion(k, G, m, summaries[k].boundary)'
                           /\ IsFiled(k, G, m, summaries[k].boundary)'
  <2>1. CASE k = z
    <3>1. summaries'[k] = e
      BY <1>9, <2>1
    <3>2. IsRegion(k, F, n, summaries[k].boundary)' /\ IsFiled(k, F, n, summaries[k].boundary)'
      BY <1>4, <1>5, <2>1, <3>1 DEF IsRegion, IsFiled, Filed, HasNames, HasRanges
    <3> QED
      BY <1>5, <1>6, <2>1, <3>1, <3>2
  <2>2. CASE k \in DOMAIN summaries
    <3>1. PICK C, s : s = summaries[k] /\ C = s.boundary
      OBVIOUS
    <3>2. PICK G, m : /\ s.faces = Len(G) /\ s.internal = m
                      /\ IsRegion(k, G, m, C) /\ IsFiled(k, G, m, C)
      BY <2>2, <3>1 DEF JInv, Reported
    <3>3. IsRegion(k, G, m, C)' /\ IsFiled(k, G, m, C)'
      BY <1>1, <3>2, SameRegions, IsFiledStays
    <3>4. summaries'[k] = s
      BY <1>9, <2>2, <3>1
    <3>5. summaries'[k].boundary = C
      BY <3>1, <3>4
    <3>6. IsRegion(k, G, m, summaries[k].boundary)' /\ IsFiled(k, G, m, summaries[k].boundary)'
      BY <3>3, <3>5 DEF IsRegion, IsFiled, Filed, HasNames, HasRanges
    <3>7. k \in DOMAIN mesh.cellZones /\ s.cells = Len(mesh.cellZones[k].cells)
      BY <2>2, <3>1 DEF JInv, Reported
    <3> QED
      BY <3>2, <3>4, <3>6, <3>7
  <2> QED
    BY <1>9, <2>1, <2>2
<1> QED
  BY <1>1, <1>10, <1>11 DEF Reported

LEMMA ReportedStep ==
  ASSUME IInv, JInv, [SplitNext]_<<splitVars, faults>>
  PROVE  Reported'
<1>1. CASE Begin \/ CannotRead \/ WriteFails
  <2>1. summaries' = <<>>
    BY <1>1 DEF Begin, Begins, CannotRead, WriteFails
  <2> QED
    BY <2>1 DEF Reported
<1>2. CASE Written
  BY <1>2, WrittenReports
<1>3. CASE WriteFile \/ LoseEnd
  <2>1. mesh' = mesh /\ summaries' = summaries /\ Building /\ \E c : Writes(c)
    BY <1>3 DEF WriteFile, LoseEnd, Building
  <2>2. \A z \in DOMAIN summaries : region'[Directory(z)] = region[Directory(z)]
    <3>1. \A z \in DOMAIN summaries : Directory(z) # Directory(zone) /\ Directory(z) \in DOMAIN region
      BY <2>1, DirectoriesApart, DirectoriesKnown
    <3> QED
      BY <2>1, <3>1 DEF Writes
  <2> QED
    BY <2>1, <2>2, FilesStep, ReportedFrame DEF JInv
<1>4. CASE \/ \E f \in FacesOf(mesh) : KeepInternal(f) \/ KeepOwned(f) \/ KeepReversed(f) \/ PassBy(f)
           \/ Collected \/ Lay \/ Laid \/ Elsewhere \/ UNCHANGED <<splitVars, faults>>
  <2>1. mesh' = mesh /\ summaries' = summaries /\ region' = region
    BY <1>4 DEF KeepInternal, KeepOwned, KeepReversed, PassBy, Next1, Collected, Lay, Laid, Elsewhere, splitVars
  <2> QED
    BY <2>1, FilesStep, ReportedFrame DEF JInv
<1> QED
  BY <1>1, <1>2, <1>3, <1>4 DEF SplitNext, SplitStep

(***************************************************************************)
(* Whatever the mesh and the writes that fail: JInv is invariant, so that  *)
(* what has been reported is a region, and its files are those of it or    *)
(* what a lost end left of them.  (regions.rs, build_region_mesh,          *)
(* write_region_mesh)                                                      *)
(***************************************************************************)
THEOREM RegionsInvariance == SplitSpec => []JInv
<1>1. SplitInit => JInv
  <2> SUFFICES ASSUME SplitInit PROVE JInv
    OBVIOUS
  <2>1. Patched /\ Placed /\ Filing /\ Reported
    BY DEF SplitInit, Patched, Placed, Filing, Reported, Building
  <2>2. FilesOK
    BY DEF SplitInit, FilesOK, NoFiles
  <2> QED
    BY <2>1, <2>2 DEF JInv
<1>2. IInv /\ JInv /\ [SplitNext]_<<splitVars, faults>> => JInv'
  BY PatchedStep, PlacedStep, FilingStep, ReportedStep, FilesStep DEF JInv
<1> QED
  BY <1>1, <1>2, Invariance, PTL DEF SplitSpec, SplitNext

-----------------------------------------------------------------------------
(***************************************************************************)
(* Cells and their places in a zone.                                       *)
(***************************************************************************)
LEMMA CellFacts ==
  ASSUME mesh \in Meshes, Splits(mesh), NEW z \in DOMAIN mesh.cellZones
  PROVE  /\ mesh.cellZones[z].cells \in Seq(Nat)
         /\ \A n, k, c : LocalIn(z, n, c) /\ LocalIn(z, k, c) => n = k
         /\ \A c \in CellsIn(z) : c \in Labels(mesh) /\ ZonesOf(c) = {z}
         /\ NoCell \notin CellsIn(z)
         /\ \A f : NeighbourOf(mesh, f) \in CellsIn(z) =>
              f \in DOMAIN mesh.neighbour /\ NeighbourOf(mesh, f) = mesh.neighbour[f]
<1>1. /\ mesh.owner \in Seq(Nat) /\ mesh.neighbour \in Seq(Nat)
      /\ mesh.cellZones \in Seq([name : Words, cells : Seq(Nat)])
  BY DEF Meshes
<1>2. mesh.cellZones[z].cells \in Seq(Nat)
  <2> DEFINE R == [name : Words, cells : Seq(Nat)]
  <2>1. mesh.cellZones \in Seq(R)
    BY <1>1
  <2> HIDE DEF R
  <2>2. mesh.cellZones[z] \in R
    BY <2>1, EntryIn
  <2> QED
    BY <2>2 DEF R
<1>3. Valid(mesh) /\ ~CellsCollide(mesh)
  BY DEF Splits
<1>4. \A c \in CellsIn(z) : c \in Labels(mesh) /\ c # 0
  <2>1. PICK n \in 0 .. Len(mesh.owner) :
          /\ Labels(mesh) = 1 .. n
          /\ \A i \in DOMAIN mesh.cellZones[z].cells : mesh.cellZones[z].cells[i] \in 1 .. n
    BY <1>3 DEF Valid
  <2> QED
    BY <1>1, <2>1 DEF CellsIn
<1>5. \A n, k, c : LocalIn(z, n, c) /\ LocalIn(z, k, c) => n = k
  BY <1>3 DEF CellsCollide, LocalIn
<1>6. ASSUME NEW c \in CellsIn(z)
      PROVE  ZonesOf(c) = {z}
  <2>1. ASSUME NEW y \in DOMAIN mesh.cellZones, c \in CellsIn(y)
        PROVE  y = z
    <3>1. PICK i \in DOMAIN mesh.cellZones[z].cells : mesh.cellZones[z].cells[i] = c
      BY DEF CellsIn
    <3>2. PICK j \in DOMAIN mesh.cellZones[y].cells : mesh.cellZones[y].cells[j] = c
      BY <2>1 DEF CellsIn
    <3> QED
      BY <1>3, <3>1, <3>2 DEF CellsCollide
  <2> QED
    BY <2>1 DEF ZonesOf
<1> QED
  BY <1>2, <1>4, <1>5, <1>6 DEF NoCell, NeighbourOf

\* An internal face of the mesh is in no patch of it.
LEMMA FaceFacts ==
  ASSUME mesh \in Meshes, Valid(mesh)
  PROVE  /\ mesh.owner \in Seq(Nat) /\ mesh.neighbour \in Seq(Nat)
         /\ FacesOf(mesh) = 1 .. Len(mesh.owner) /\ Len(mesh.owner) \in Nat
         /\ \A f \in DOMAIN mesh.neighbour : f \in FacesOf(mesh) /\ PatchesAt(f) = {}
<1>1. /\ mesh.owner \in Seq(Nat) /\ mesh.neighbour \in Seq(Nat)
      /\ mesh.patches \in Seq([name : Words, type : STRING, start : Nat, count : Nat])
  BY DEF Meshes
<1>2. /\ Len(mesh.neighbour) <= Len(mesh.owner)
      /\ \A p \in DOMAIN mesh.patches : Len(mesh.neighbour) < mesh.patches[p].start
  BY DEF Valid
<1>3. /\ Len(mesh.owner) \in Nat /\ Len(mesh.neighbour) \in Nat
      /\ FacesOf(mesh) = 1 .. Len(mesh.owner) /\ DOMAIN mesh.neighbour = 1 .. Len(mesh.neighbour)
  BY <1>1 DEF FacesOf
<1>4. \A p \in DOMAIN mesh.patches : mesh.patches[p].start \in Nat /\ mesh.patches[p].count \in Nat
  <2> DEFINE R == [name : Words, type : STRING, start : Nat, count : Nat]
  <2>1. mesh.patches \in Seq(R)
    BY <1>1
  <2> HIDE DEF R
  <2>2. \A p \in DOMAIN mesh.patches : mesh.patches[p] \in R
    BY <2>1, EntryIn
  <2> QED
    BY <2>2 DEF R
<1>5. ASSUME NEW f \in DOMAIN mesh.neighbour
      PROVE  f \in FacesOf(mesh) /\ PatchesAt(f) = {}
  <2>1. f \in 1 .. Len(mesh.neighbour)
    BY <1>3
  <2>2. \A p \in DOMAIN mesh.patches :
          f \notin mesh.patches[p].start .. mesh.patches[p].start + mesh.patches[p].count - 1
    BY <1>2, <1>3, <1>4, <2>1
  <2> QED
    BY <1>2, <1>3, <2>1, <2>2 DEF PatchesAt, PatchRange
<1> QED
  BY <1>1, <1>3, <1>5

(***************************************************************************)
(* A region that has been reported, and its files when each can be read.   *)
(***************************************************************************)
ReadsAs(z, F, n, B) ==
  /\ B = summaries[z].boundary /\ IsRegion(z, F, n, B)
  /\ summaries[z].faces = Len(F) /\ summaries[z].internal = n
  /\ summaries[z].cells = Len(mesh.cellZones[z].cells)
  /\ FileOf(z, "faces") = [i \in DOMAIN F |-> F[i].nodes]
  /\ FileOf(z, "owner") = [i \in DOMAIN F |-> F[i].owner]
  /\ FileOf(z, "neighbour") = [i \in 1 .. n |-> F[i].neighbour]
  /\ \E k \in 0 .. Len(B) : FileOf(z, "boundary") = SubSeq(B, 1, k)
  /\ faults = 0 => FileOf(z, "boundary") = B

LEMMA FileRead ==
  ASSUME NEW z, NEW f, NEW c, Filed(z, f, c), region[Directory(z)][f].readable
  PROVE  /\ f \notin ZoneLike => FileOf(z, f) = c
         /\ \/ FileOf(z, f) = c
            \/ faults # 0 /\ \E k \in 0 .. Len(c) : FileOf(z, f) = SubSeq(c, 1, k)
<1>1. PICK r : r = region[Directory(z)][f]
  OBVIOUS
<1>2. CASE r = Reads(c)
  BY <1>1, <1>2 DEF Reads, FileOf
<1>3. CASE faults # 0 /\ r \in Torn(f, c)
  <2>1. r # Unreadable
    BY <1>1 DEF Unreadable
  <2>2. f \in ZoneLike /\ \E k \in 0 .. Len(c) : r = Reads(SubSeq(c, 1, k))
    BY <1>3, <2>1 DEF Torn
  <2> QED
    BY <1>1, <1>3, <2>2 DEF Reads, FileOf
<1> QED
  BY <1>1, <1>2, <1>3 DEF Filed

LEMMA WholeReads ==
  ASSUME JInv, NEW z \in DOMAIN summaries, Whole(z)
  PROVE  /\ Splits(mesh) /\ z \in DOMAIN mesh.cellZones
         /\ \E F, n, B : ReadsAs(z, F, n, B)
<1>1. summaries # <<>>
  OBVIOUS
<1>2. Splits(mesh) /\ z \in DOMAIN mesh.cellZones
  BY <1>1 DEF JInv, Reported
<1>3. PICK B, s : s = summaries[z] /\ B = s.boundary
  OBVIOUS
<1>4. PICK F, n : /\ s.faces = Len(F) /\ s.internal = n
                  /\ IsRegion(z, F, n, B) /\ IsFiled(z, F, n, B)
                  /\ s.cells = Len(mesh.cellZones[z].cells)
  BY <1>3 DEF JInv, Reported
<1>5. /\ region[Directory(z)]["faces"].readable /\ region[Directory(z)]["owner"].readable
      /\ region[Directory(z)]["neighbour"].readable /\ region[Directory(z)]["boundary"].readable
  <2>1. "faces" \in FileSet /\ "owner" \in FileSet /\ "neighbour" \in FileSet /\ "boundary" \in FileSet
    BY DEF FileNames, FileSet
  <2> QED
    BY <2>1 DEF Whole
<1>6. /\ FileOf(z, "faces") = [i \in DOMAIN F |-> F[i].nodes]
      /\ FileOf(z, "owner") = [i \in DOMAIN F |-> F[i].owner]
      /\ FileOf(z, "neighbour") = [i \in 1 .. n |-> F[i].neighbour]
  <2>1. "faces" \notin ZoneLike /\ "owner" \notin ZoneLike /\ "neighbour" \notin ZoneLike
    BY DEF ZoneLike
  <2> QED
    BY <1>4, <1>5, <2>1, FileRead DEF IsFiled
<1>7. /\ \E k \in 0 .. Len(B) : FileOf(z, "boundary") = SubSeq(B, 1, k)
      /\ faults = 0 => FileOf(z, "boundary") = B
  <2>1. \/ FileOf(z, "boundary") = B
        \/ faults # 0 /\ \E k \in 0 .. Len(B) : FileOf(z, "boundary") = SubSeq(B, 1, k)
    BY <1>4, <1>5, FileRead DEF IsFiled
  <2>2. PICK N, T : B \in Seq(BoundaryPatch(N, T))
    BY <1>4 DEF IsRegion
  <2>3. B = SubSeq(B, 1, Len(B)) /\ Len(B) \in 0 .. Len(B)
    BY <2>2, SubSeqFull
  <2> QED
    BY <2>1, <2>3
<1>8. ReadsAs(z, F, n, B)
  BY <1>3, <1>4, <1>6, <1>7 DEF ReadsAs
<1> QED
  BY <1>2, <1>8

-----------------------------------------------------------------------------
(***************************************************************************)
(* Reading a region back.                                                  *)
(***************************************************************************)
LEMMA FacesRead ==
  ASSUME NEW z, NEW F, NEW n, NEW B, ReadsAs(z, F, n, B), NEW m, m = AsMesh(z)
  PROVE  /\ Len(F) \in Nat /\ n \in Nat /\ n <= Len(F) /\ DOMAIN F = 1 .. Len(F)
         /\ \A i \in DOMAIN F : F[i].nodes.of \in Nat /\ F[i].owner \in Nat /\ F[i].neighbour \in Nat
         /\ DOMAIN m.owner = 1 .. Len(F) /\ Len(m.owner) = Len(F)
         /\ \A i \in 1 .. Len(F) : m.owner[i] = F[i].owner
         /\ DOMAIN m.neighbour = 1 .. n /\ Len(m.neighbour) = n
         /\ \A i \in 1 .. n : m.neighbour[i] = F[i].neighbour
         /\ Len(FileOf(z, "faces")) = Len(F)
         /\ m.patches = FileOf(z, "boundary") /\ m.cellZones = <<>> /\ m.faceZones = <<>>
<1>1. F \in Seq(RFace) /\ n \in Nat /\ n <= Len(F)
  BY DEF ReadsAs, IsRegion
<1>2. Len(F) \in Nat /\ DOMAIN F = 1 .. Len(F)
  BY <1>1
<1>3. \A i \in DOMAIN F : F[i] \in RFace
  BY <1>1, EntryIn
<1>4. \A i \in DOMAIN F : F[i].nodes.of \in Nat /\ F[i].owner \in Nat /\ F[i].neighbour \in Nat
  BY <1>3 DEF RFace
<1>5. /\ m.owner = FileOf(z, "owner") /\ m.neighbour = FileOf(z, "neighbour")
      /\ m.patches = FileOf(z, "boundary") /\ m.cellZones = <<>> /\ m.faceZones = <<>>
  BY DEF AsMesh
<1>6. /\ m.owner = [i \in 1 .. Len(F) |-> F[i].owner]
      /\ m.neighbour = [i \in 1 .. n |-> F[i].neighbour]
      /\ FileOf(z, "faces") = [i \in 1 .. Len(F) |-> F[i].nodes]
  BY <1>2, <1>5 DEF ReadsAs
<1>7. /\ m.owner \in Seq(Nat) /\ m.neighbour \in Seq(Nat)
  <2> DEFINE o(i) == F[i].owner
             k(i) == F[i].neighbour
  <2>1. \A i \in 1 .. Len(F) : o(i) \in Nat /\ k(i) \in Nat
    BY <1>2, <1>4
  <2>2. \A i \in 1 .. n : k(i) \in Nat
    BY <1>1, <1>2, <2>1
  <2>3. m.owner = [i \in 1 .. Len(F) |-> o(i)] /\ m.neighbour = [i \in 1 .. n |-> k(i)]
    BY <1>6
  <2> HIDE DEF o, k
  <2>4. m.owner \in [1 .. Len(F) -> Nat]
    BY <2>1, <2>3
  <2>5. m.neighbour \in [1 .. n -> Nat]
    BY <2>2, <2>3
  <2> QED
    BY <1>1, <1>2, <2>4, <2>5, SeqOf
<1>8. /\ DOMAIN m.owner = 1 .. Len(F) /\ DOMAIN m.neighbour = 1 .. n
      /\ \A i \in 1 .. Len(F) : m.owner[i] = F[i].owner
      /\ \A i \in 1 .. n : m.neighbour[i] = F[i].neighbour
  BY <1>6
<1>9. Len(m.owner) = Len(F) /\ Len(m.neighbour) = n
  BY <1>1, <1>2, <1>7, <1>8
<1>10. Len(FileOf(z, "faces")) = Len(F)
  <2> DEFINE N == [of : Nat, reversed : BOOLEAN]
  <2>1. \A i \in DOMAIN F : F[i].nodes \in N
    BY <1>3 DEF RFace
  <2> HIDE DEF N
  <2>2. FileOf(z, "faces") \in Seq(N) /\ DOMAIN FileOf(z, "faces") = 1 .. Len(F)
    BY <1>2, <1>6, <2>1
  <2> QED
    BY <1>2, <2>2
<1> QED
  BY <1>1, <1>2, <1>4, <1>5, <1>8, <1>9, <1>10

\* The patches that are read are the first of those that were written.
LEMMA PatchesRead ==
  ASSUME NEW z, NEW F, NEW n, NEW B, ReadsAs(z, F, n, B), NEW P, P = FileOf(z, "boundary")
  PROVE  /\ Len(P) \in Nat /\ Len(P) <= Len(B) /\ P = SubSeq(B, 1, Len(P))
         /\ \A p \in DOMAIN P : p \in DOMAIN B /\ P[p] = B[p]
<1>1. PICK N, T : B \in Seq(BoundaryPatch(N, T))
  BY DEF ReadsAs, IsRegion
<1>2. PICK k \in 0 .. Len(B) : P = SubSeq(B, 1, k)
  BY DEF ReadsAs
<1>3. PICK S : S = BoundaryPatch(N, T) /\ B \in Seq(S)
  BY <1>1
<1>4. Len(B) \in Nat /\ DOMAIN B = 1 .. Len(B) /\ \A i \in 1 .. k : B[i] \in S
  <2>1. Len(B) \in Nat /\ DOMAIN B = 1 .. Len(B)
    BY <1>3
  <2>2. \A i \in 1 .. k : i \in DOMAIN B
    BY <1>2, <2>1
  <2> QED
    BY <1>3, <2>1, <2>2, EntryIn
<1>5. /\ P \in Seq(S) /\ Len(P) = IF 1 <= k THEN k - 1 + 1 ELSE 0
      /\ \A i \in 1 .. k - 1 + 1 : P[i] = B[1 + i - 1]
  <2>1. k \in Int /\ 1 \in Int
    BY <1>4
  <2> QED
    BY <1>2, <1>4, <2>1, SubSeqProperties
<1>6. Len(P) = k
  BY <1>4, <1>5
<1>7. DOMAIN P = 1 .. k
  BY <1>5, <1>6
<1>8. \A p \in 1 .. k : p \in DOMAIN B /\ P[p] = B[p]
  BY <1>4, <1>5
<1> QED
  BY <1>2, <1>4, <1>6, <1>7, <1>8

\* Every cell of the zone has a face of the region at its place, and no other place has one.
LEMMA LabelsRead ==
  ASSUME mesh \in Meshes, Splits(mesh), NEW z \in DOMAIN mesh.cellZones,
         NEW F, NEW n, NEW B, ReadsAs(z, F, n, B), NEW m, m = AsMesh(z)
  PROVE  Labels(m) = 1 .. Len(mesh.cellZones[z].cells)
<1>1. PICK cells : cells = mesh.cellZones[z].cells
  OBVIOUS
<1>2. cells \in Seq(Nat) /\ DOMAIN cells = 1 .. Len(cells)
  BY <1>1, CellFacts
<1>3. /\ Len(F) \in Nat /\ n \in Nat /\ n <= Len(F) /\ DOMAIN F = 1 .. Len(F)
      /\ DOMAIN m.owner = 1 .. Len(F) /\ \A i \in 1 .. Len(F) : m.owner[i] = F[i].owner
      /\ DOMAIN m.neighbour = 1 .. n /\ \A i \in 1 .. n : m.neighbour[i] = F[i].neighbour
  BY FacesRead
<1>4. Valid(mesh)
  BY DEF Splits
<1>5. /\ \A i \in DOMAIN F : Sound(z, F[i]) /\ (i <= n <=> Amid(z, F[i].nodes.of))
      /\ \A f \in FacesOf(mesh) : In(z, f) => \E i \in DOMAIN F : F[i].nodes.of = f
  BY DEF ReadsAs, IsRegion, HasFaces
<1>6. \A i \in DOMAIN F : /\ F[i].owner \in DOMAIN cells
                          /\ i <= n => F[i].neighbour \in DOMAIN cells
  BY <1>1, <1>5 DEF Sound, LocalIn
<1>7. Labels(m) \subseteq DOMAIN cells
  <2>1. \A i \in 1 .. n : i \in DOMAIN F /\ i <= n
    BY <1>3
  <2> QED
    BY <1>3, <1>6, <2>1 DEF Labels
<1>8. ASSUME NEW l \in DOMAIN cells
      PROVE  l \in Labels(m)
  <2>1. PICK c : c = cells[l] /\ LocalIn(z, l, c) /\ c \in CellsIn(z)
    BY <1>1 DEF LocalIn, CellsIn
  <2>2. c \in Labels(mesh)
    BY <2>1, CellFacts
  <2>3. PICK f : f \in FacesOf(mesh) /\ (mesh.owner[f] = c \/ (f \in DOMAIN mesh.neighbour /\ mesh.neighbour[f] = c))
    BY <1>4, <2>2, FaceFacts DEF Labels, FacesOf
  <2>4. In(z, f)
    BY <2>1, <2>3 DEF In, NeighbourOf
  <2>5. PICK i \in DOMAIN F : F[i].nodes.of = f
    BY <1>5, <2>3, <2>4
  <2>6. Sound(z, F[i]) /\ (i <= n <=> Amid(z, f))
    BY <1>5, <2>5
  <2>7. \A k : LocalIn(z, k, c) => k = l
    BY <2>1, CellFacts
  <2>8. CASE mesh.owner[f] = c
    <3>1. LocalIn(z, F[i].owner, c)
      BY <2>1, <2>5, <2>6, <2>8 DEF Sound
    <3> QED
      BY <1>3, <2>7, <3>1 DEF Labels
  <2>9. CASE mesh.owner[f] # c
    <3>1. f \in DOMAIN mesh.neighbour /\ mesh.neighbour[f] = c /\ NeighbourOf(mesh, f) = c
      BY <2>3, <2>9 DEF NeighbourOf
    <3>2. CASE mesh.owner[f] \in CellsIn(z)
      <4>1. Amid(z, f)
        BY <2>1, <3>1, <3>2 DEF Amid
      <4>2. LocalIn(z, F[i].neighbour, c) /\ i \in 1 .. n
        BY <1>3, <2>5, <2>6, <3>1, <4>1 DEF Sound
      <4> QED
        BY <1>3, <2>7, <4>2 DEF Labels
    <3>3. CASE mesh.owner[f] \notin CellsIn(z)
      <4>1. LocalIn(z, F[i].owner, c)
        BY <2>5, <2>6, <3>1, <3>3 DEF Sound
      <4> QED
        BY <1>3, <2>7, <4>1 DEF Labels
    <3> QED
      BY <3>2, <3>3
  <2> QED
    BY <2>8, <2>9
<1> QED
  BY <1>1, <1>2, <1>7, <1>8

LEMMA UpTo ==
  ASSUME NEW n \in Nat
  PROVE  IsFiniteSet(1 .. n) /\ Cardinality(1 .. n) = n
<1>1. 1 \in Int /\ n \in Int
  OBVIOUS
<1>2. IsFiniteSet(1 .. n) /\ Cardinality(1 .. n) = IF 1 > n THEN 0 ELSE n - 1 + 1
  BY <1>1, FS_Interval
<1>3. (IF 1 > n THEN 0 ELSE n - 1 + 1) = n
  OBVIOUS
<1> QED
  BY <1>2, <1>3

\* Two faces for each cell make as many faces as cells, as each face has two sides.
LEMMA EnoughFaces ==
  ASSUME mesh \in Meshes, Splits(mesh), NEW z \in DOMAIN mesh.cellZones,
         NEW F, NEW n, NEW B, ReadsAs(z, F, n, B), TwoFacesEach(z)
  PROVE  Len(mesh.cellZones[z].cells) <= Len(F)
<1>1. PICK cells : cells = mesh.cellZones[z].cells
  OBVIOUS
<1>2. cells \in Seq(Nat) /\ DOMAIN cells = 1 .. Len(cells) /\ Len(cells) \in Nat
  BY <1>1, CellFacts
<1>3. Len(F) \in Nat /\ DOMAIN F = 1 .. Len(F)
  <2>1. PICK m : m = AsMesh(z)
    OBVIOUS
  <2> QED
    BY <2>1, FacesRead
<1> DEFINE Has(c, f) == c \in {mesh.owner[f], NeighbourOf(mesh, f)}
           At(l, s, i) == /\ Has(cells[l], F[i].nodes.of)
                          /\ s \in {1, 2}
<1>4. ASSUME NEW l \in DOMAIN cells
      PROVE  \E i, j \in DOMAIN F : i # j /\ Has(cells[l], F[i].nodes.of) /\ Has(cells[l], F[j].nodes.of)
  <2>1. cells[l] \in CellsIn(z)
    BY <1>1 DEF CellsIn
  <2>2. PICK f, g \in FacesOf(mesh) : f # g /\ Has(cells[l], f) /\ Has(cells[l], g)
    BY <2>1 DEF TwoFacesEach
  <2>3. In(z, f) /\ In(z, g)
    BY <2>1, <2>2 DEF In
  <2>4. \A h \in FacesOf(mesh) : In(z, h) => \E i \in DOMAIN F : F[i].nodes.of = h
    BY DEF ReadsAs, IsRegion, HasFaces
  <2> QED
    BY <2>2, <2>3, <2>4
<1>5. PICK first, second \in [DOMAIN cells -> DOMAIN F] : \A l \in DOMAIN cells :
        /\ first[l] # second[l]
        /\ Has(cells[l], F[first[l]].nodes.of) /\ Has(cells[l], F[second[l]].nodes.of)
  <2> DEFINE P(l, i, j) == /\ i # j /\ Has(cells[l], F[i].nodes.of) /\ Has(cells[l], F[j].nodes.of)
             a == [l \in DOMAIN cells |-> CHOOSE i \in DOMAIN F : \E j \in DOMAIN F : P(l, i, j)]
             b == [l \in DOMAIN cells |-> CHOOSE j \in DOMAIN F : P(l, a[l], j)]
  <2>1. \A l \in DOMAIN cells : \E i \in DOMAIN F : \E j \in DOMAIN F : P(l, i, j)
    BY <1>4
  <2> HIDE DEF P
  <2>2. \A l \in DOMAIN cells : a[l] \in DOMAIN F /\ \E j \in DOMAIN F : P(l, a[l], j)
    BY <2>1
  <2>3. \A l \in DOMAIN cells : b[l] \in DOMAIN F /\ P(l, a[l], b[l])
    BY <2>2
  <2>4. a \in [DOMAIN cells -> DOMAIN F] /\ b \in [DOMAIN cells -> DOMAIN F]
    BY <2>2, <2>3
  <2> HIDE DEF a, b
  <2>5. \A l \in DOMAIN cells : /\ a[l] # b[l] /\ Has(cells[l], F[a[l]].nodes.of)
                                /\ Has(cells[l], F[b[l]].nodes.of)
    BY <2>3 DEF P
  <2> QED
    BY <2>4, <2>5
<1>6. PICK S, T, sides : sides = {1, 2} /\ S = (1 .. Len(cells)) \X sides /\ T = (1 .. Len(F)) \X sides
  OBVIOUS
<1> DEFINE face_(l, k) == IF k = 1 THEN first[l] ELSE second[l]
           side(l, i) == IF cells[l] = mesh.owner[F[i].nodes.of] THEN 1 ELSE 2
           h == [x \in S |-> <<face_(x[1], x[2]), side(x[1], face_(x[1], x[2]))>>]
<1>7. \A l \in DOMAIN cells : \A k \in sides : /\ face_(l, k) \in DOMAIN F
                                               /\ Has(cells[l], F[face_(l, k)].nodes.of)
  BY <1>5
<1>8. \A x \in S : x[1] \in DOMAIN cells /\ x[2] \in sides /\ x = <<x[1], x[2]>>
  BY <1>2, <1>6
<1>9. \A l, k \in DOMAIN cells : cells[l] = cells[k] => l = k
  BY <1>1, CellFacts DEF LocalIn
\* The cell on a side of a face.
<1>10. ASSUME NEW l \in DOMAIN cells, NEW k \in DOMAIN cells, NEW i,
              Has(cells[l], F[i].nodes.of), Has(cells[k], F[i].nodes.of), side(l, i) = side(k, i)
       PROVE  l = k
  <2>1. cells[l] = cells[k]
    BY <1>10
  <2> QED
    BY <1>9, <2>1
<1>11. \A l \in DOMAIN cells : \A j, k \in sides : face_(l, j) = face_(l, k) => j = k
  BY <1>5, <1>6
<1>12. h \in [S -> T]
  <2>1. \A l, i : side(l, i) \in sides
    BY <1>6
  <2> HIDE DEF face_, side
  <2> QED
    BY <1>3, <1>6, <1>7, <1>8, <2>1
<1> HIDE DEF face_, side
<1>13. ASSUME NEW x \in S, NEW y \in S, h[x] = h[y]
       PROVE  x = y
  <2>1. /\ face_(x[1], x[2]) = face_(y[1], y[2])
        /\ side(x[1], face_(x[1], x[2])) = side(y[1], face_(y[1], y[2]))
    BY <1>13
  <2>2. PICK i : i = face_(x[1], x[2])
    OBVIOUS
  <2>3. Has(cells[x[1]], F[i].nodes.of) /\ Has(cells[y[1]], F[i].nodes.of) /\ side(x[1], i) = side(y[1], i)
    BY <1>7, <1>8, <2>1, <2>2
  <2>4. x[1] = y[1]
    BY <1>8, <1>10, <2>3
  <2>5. x[2] = y[2]
    BY <1>8, <1>11, <2>1, <2>4
  <2> QED
    BY <1>8, <2>4, <2>5
<1> HIDE DEF h
<1>14. h \in Injection(S, T)
  BY <1>12, <1>13 DEF Injection, IsInjective
<1>15. /\ IsFiniteSet(S) /\ Cardinality(S) = Len(cells) * 2
       /\ IsFiniteSet(T) /\ Cardinality(T) = Len(F) * 2
  <2>1. IsFiniteSet(sides) /\ Cardinality(sides) = 2
    <3>1. sides = 1 .. 2
      BY <1>6
    <3> QED
      BY <3>1, UpTo
  <2>2. PICK C, G : C = 1 .. Len(cells) /\ G = 1 .. Len(F)
    OBVIOUS
  <2>3. /\ IsFiniteSet(C) /\ Cardinality(C) = Len(cells)
        /\ IsFiniteSet(G) /\ Cardinality(G) = Len(F)
    BY <1>2, <1>3, <2>2, UpTo
  <2>4. /\ IsFiniteSet(C \X sides) /\ Cardinality(C \X sides) = Cardinality(C) * Cardinality(sides)
        /\ IsFiniteSet(G \X sides) /\ Cardinality(G \X sides) = Cardinality(G) * Cardinality(sides)
    BY <2>1, <2>3, FS_Product
  <2> QED
    BY <1>6, <2>1, <2>2, <2>3, <2>4
<1>16. Len(cells) * 2 <= Len(F) * 2
  BY <1>14, <1>15, FS_Injection
<1> QED
  BY <1>1, <1>2, <1>3, <1>16

LEMMA RegionReadsBack ==
  ASSUME IInv, JInv, NEW z \in DOMAIN summaries, Whole(z), NEW m, m = AsMesh(z)
  PROVE  /\ TwoFacesEach(z) => Valid(m)
         /\ OnePatchEach(m)
         /\ Len(FileOf(z, "faces")) = Len(m.owner)
         /\ Len(m.owner) = summaries[z].faces
         /\ Len(m.neighbour) = summaries[z].internal
         /\ Labels(m) = 1 .. summaries[z].cells
         /\ Len(m.patches) <= Len(summaries[z].boundary)
         /\ m.patches = SubSeq(summaries[z].boundary, 1, Len(m.patches))
         /\ faults = 0 => m.patches = summaries[z].boundary
         /\ OwnerFirst(mesh) /\ Ascending(z) => OwnerFirst(m)
<1>1. Splits(mesh) /\ z \in DOMAIN mesh.cellZones /\ mesh \in Meshes
  BY WholeReads DEF IInv, TypeOK
<1>2. PICK F, n, B : ReadsAs(z, F, n, B)
  BY WholeReads
<1>3. /\ Len(F) \in Nat /\ n \in Nat /\ n <= Len(F) /\ DOMAIN F = 1 .. Len(F)
      /\ DOMAIN m.owner = 1 .. Len(F) /\ Len(m.owner) = Len(F)
      /\ \A i \in 1 .. Len(F) : m.owner[i] = F[i].owner
      /\ DOMAIN m.neighbour = 1 .. n /\ Len(m.neighbour) = n
      /\ \A i \in 1 .. n : m.neighbour[i] = F[i].neighbour
      /\ Len(FileOf(z, "faces")) = Len(F)
      /\ m.patches = FileOf(z, "boundary") /\ m.cellZones = <<>> /\ m.faceZones = <<>>
  BY <1>2, FacesRead
<1>4. /\ Len(m.patches) \in Nat /\ Len(m.patches) <= Len(B) /\ m.patches = SubSeq(B, 1, Len(m.patches))
      /\ \A p \in DOMAIN m.patches : p \in DOMAIN B /\ m.patches[p] = B[p]
  <2>1. PICK P : P = FileOf(z, "boundary")
    OBVIOUS
  <2> QED
    BY <1>2, <1>3, <2>1, PatchesRead
<1>5. PICK cells : cells = mesh.cellZones[z].cells
  OBVIOUS
<1>6. cells \in Seq(Nat) /\ DOMAIN cells = 1 .. Len(cells) /\ Len(cells) \in Nat
  BY <1>1, <1>5, CellFacts
<1>7. Labels(m) = 1 .. Len(cells)
  BY <1>1, <1>2, <1>5, LabelsRead
<1>8. /\ B = summaries[z].boundary /\ summaries[z].faces = Len(F) /\ summaries[z].internal = n
      /\ summaries[z].cells = Len(cells) /\ (faults = 0 => m.patches = B)
  BY <1>2, <1>3, <1>5 DEF ReadsAs
<1>9. HasFaces(z, F, n) /\ HasRanges(F, n, B)
  BY <1>2 DEF ReadsAs, IsRegion
<1>10. ASSUME TwoFacesEach(z)
       PROVE  Valid(m)
  <2>1. Len(cells) \in 0 .. Len(m.owner)
    BY <1>1, <1>2, <1>3, <1>5, <1>6, <1>10, EnoughFaces
  <2>2. \A p \in DOMAIN m.patches :
          /\ Len(m.neighbour) < m.patches[p].start
          /\ m.patches[p].start + m.patches[p].count - 1 <= Len(m.owner)
    BY <1>3, <1>4, <1>9 DEF HasRanges
  <2>3. Len(m.neighbour) <= Len(m.owner)
    BY <1>3
  <2>4. DOMAIN m.cellZones = {} /\ DOMAIN m.faceZones = {}
    BY <1>3
  <2> QED
    BY <1>7, <2>1, <2>2, <2>3, <2>4 DEF Valid
<1>11. OnePatchEach(m)
  BY <1>4, <1>9 DEF OnePatchEach, HasRanges
<1>12. ASSUME OwnerFirst(mesh), Ascending(z)
       PROVE  OwnerFirst(m)
  <2> SUFFICES ASSUME NEW i \in 1 .. n PROVE m.owner[i] < m.neighbour[i]
    BY <1>3 DEF OwnerFirst
  <2>1. i \in DOMAIN F /\ i <= n /\ i \in 1 .. Len(F)
    BY <1>3
  <2>2. PICK f : f = F[i].nodes.of
    OBVIOUS
  <2>3. Sound(z, F[i]) /\ Amid(z, f)
    BY <1>9, <2>1, <2>2 DEF HasFaces
  <2>4. f \in DOMAIN mesh.neighbour /\ mesh.owner[f] < mesh.neighbour[f]
    BY <1>1, <1>12, <2>3, CellFacts DEF Amid, OwnerFirst
  <2>5. PICK a, b : a = F[i].owner /\ b = F[i].neighbour
    OBVIOUS
  <2>6. /\ a \in DOMAIN cells /\ cells[a] = mesh.owner[f]
        /\ b \in DOMAIN cells /\ cells[b] = mesh.neighbour[f]
    BY <1>5, <2>2, <2>3, <2>5 DEF Sound, Amid, LocalIn
  <2>7. \A j, k \in DOMAIN cells : j < k => cells[j] < cells[k]
    BY <1>5, <1>12 DEF Ascending
  <2>8. a < b
    <3>1. a \in Nat /\ b \in Nat /\ cells[a] \in Nat /\ cells[b] \in Nat /\ cells[a] < cells[b]
      BY <1>6, <2>4, <2>6
    <3>2. b < a => cells[b] < cells[a]
      BY <2>6, <2>7
    <3> QED
      BY <3>1, <3>2
  <2> QED
    BY <1>3, <2>1, <2>5, <2>8
<1> QED
  BY <1>3, <1>4, <1>7, <1>8, <1>10, <1>11, <1>12

(***************************************************************************)
(* Whatever the mesh and the faults: the files of a region that has been   *)
(* reported read back as what was reported, unless one of them is refused. *)
(* (regions.rs, PolyMesh::read; poly_mesh.rs, PolyMesh::read)              *)
(***************************************************************************)
THEOREM RegionsReadBack == SplitSpec => []ReadBack
<1>1. IInv /\ JInv => ReadBack
  <2> SUFFICES ASSUME IInv, JInv, NEW z \in DOMAIN summaries, Whole(z)
               PROVE  LET m == AsMesh(z)
                          n == Len(m.patches)
                      IN  /\ TwoFacesEach(z) => Valid(m)
                          /\ OnePatchEach(m)
                          /\ Len(FileOf(z, "faces")) = Len(m.owner)
                          /\ Len(m.owner) = summaries[z].faces
                          /\ Len(m.neighbour) = summaries[z].internal
                          /\ Labels(m) = 1 .. summaries[z].cells
                          /\ n <= Len(summaries[z].boundary) /\ m.patches = SubSeq(summaries[z].boundary, 1, n)
                          /\ faults = 0 => m.patches = summaries[z].boundary
                          /\ OwnerFirst(mesh) /\ Ascending(z) => OwnerFirst(m)
    BY DEF ReadBack
  <2> QED
    BY RegionReadsBack
<1> QED
  BY <1>1, Invariance, RegionsInvariance, PTL

-----------------------------------------------------------------------------
(***************************************************************************)
(* Two regions, and the faces between them.                                *)
(***************************************************************************)
Joins(f, z, y) ==
  /\ f \in DOMAIN mesh.neighbour
  /\ \/ mesh.owner[f] \in CellsIn(z) /\ mesh.neighbour[f] \in CellsIn(y)
     \/ mesh.owner[f] \in CellsIn(y) /\ mesh.neighbour[f] \in CellsIn(z)
GivenName(f) == mesh.faceZones[FirstZone(f)].name

LEMMA JoinedFaces ==
  ASSUME mesh \in Meshes, Splits(mesh),
         NEW z \in DOMAIN mesh.cellZones, NEW y \in DOMAIN mesh.cellZones, z # y
  PROVE  /\ \A f : In(z, f) /\ OtherCell(z, f) \in CellsIn(y) => Joins(f, z, y)
         /\ \A f : Joins(f, z, y) =>
              /\ f \in FacesOf(mesh) /\ In(z, f) /\ ~Amid(z, f) /\ OtherCell(z, f) \in CellsIn(y)
              /\ mesh.owner[f] \in CellsIn(z) <=> mesh.owner[f] \notin CellsIn(y)
              /\ NameFor(z, f) = IF Listing(f) # {} THEN GivenName(f) ELSE Between(z, {y})
<1>1. /\ \A c \in CellsIn(z) : c \notin CellsIn(y) /\ ZonesOf(c) = {z}
      /\ \A c \in CellsIn(y) : c \notin CellsIn(z) /\ ZonesOf(c) = {y}
  <2>1. /\ \A c \in CellsIn(z) : ZonesOf(c) = {z}
        /\ \A c \in CellsIn(y) : ZonesOf(c) = {y}
    BY CellFacts
  <2> QED
    BY <2>1
<1>2. \A f : /\ NeighbourOf(mesh, f) \in CellsIn(z) =>
                  f \in DOMAIN mesh.neighbour /\ NeighbourOf(mesh, f) = mesh.neighbour[f]
             /\ NeighbourOf(mesh, f) \in CellsIn(y) =>
                  f \in DOMAIN mesh.neighbour /\ NeighbourOf(mesh, f) = mesh.neighbour[f]
  BY CellFacts
<1>3. ASSUME NEW f, In(z, f), OtherCell(z, f) \in CellsIn(y)
      PROVE  Joins(f, z, y)
  BY <1>2, <1>3 DEF In, OtherCell, Joins
<1>4. ASSUME NEW f, Joins(f, z, y)
      PROVE  /\ f \in FacesOf(mesh) /\ In(z, f) /\ ~Amid(z, f) /\ OtherCell(z, f) \in CellsIn(y)
             /\ mesh.owner[f] \in CellsIn(z) <=> mesh.owner[f] \notin CellsIn(y)
             /\ NameFor(z, f) = IF Listing(f) # {} THEN GivenName(f) ELSE Between(z, {y})
  <2>1. f \in DOMAIN mesh.neighbour /\ NeighbourOf(mesh, f) = mesh.neighbour[f]
    BY <1>4 DEF Joins, NeighbourOf
  <2>2. f \in FacesOf(mesh) /\ PatchesAt(f) = {}
    BY <2>1, FaceFacts DEF Splits
  <2>3. \/ /\ mesh.owner[f] \in CellsIn(z) /\ mesh.neighbour[f] \in CellsIn(y)
           /\ mesh.owner[f] \notin CellsIn(y) /\ mesh.neighbour[f] \notin CellsIn(z)
        \/ /\ mesh.owner[f] \in CellsIn(y) /\ mesh.neighbour[f] \in CellsIn(z)
           /\ mesh.owner[f] \notin CellsIn(z) /\ mesh.neighbour[f] \notin CellsIn(y)
    BY <1>1, <1>4 DEF Joins
  <2>4. In(z, f) /\ ~Amid(z, f) /\ OtherCell(z, f) \in CellsIn(y)
    BY <2>1, <2>3 DEF In, Amid, OtherCell
  <2>5. mesh.owner[f] \in CellsIn(z) <=> mesh.owner[f] \notin CellsIn(y)
    BY <2>3
  <2>6. Beyond(z, f) = {y}
    BY <1>1, <2>1, <2>3 DEF Beyond
  <2>7. NameFor(z, f) = PatchFor(z, {y}, f).name
    BY <2>6 DEF NameFor
  <2>8. CASE Listing(f) # {}
    <3>1. PatchFor(z, {y}, f) = [name |-> GivenName(f), type |-> "patch", flip |-> Flipped(f)]
      BY <2>2, <2>8 DEF PatchFor, GivenName
    <3>2. PatchFor(z, {y}, f).name = GivenName(f)
      BY <3>1
    <3> QED
      BY <2>2, <2>4, <2>5, <2>7, <2>8, <3>2
  <2>9. CASE Listing(f) = {}
    <3>1. PatchFor(z, {y}, f) = [name |-> Between(z, {y}), type |-> "patch", flip |-> FALSE]
      BY <2>2, <2>9 DEF PatchFor
    <3>2. PatchFor(z, {y}, f).name = Between(z, {y})
      BY <3>1
    <3> QED
      BY <2>2, <2>4, <2>5, <2>7, <2>9, <3>2
  <2> QED
    BY <2>8, <2>9
<1> QED
  BY <1>3, <1>4

LEMMA JoinsBoth == ASSUME NEW f, NEW z, NEW y PROVE Joins(f, z, y) <=> Joins(f, y, z)
  BY DEF Joins

LEMMA LeastOf ==
  ASSUME NEW S \in SUBSET Nat, S # {}
  PROVE  \E m \in S : \A k \in S : m <= k
<1> DEFINE Less == {p \in Nat \X Nat : p[1] < p[2]}
<1>1. IsWellFoundedOn(Less, Nat)
  BY NatLessThanWellFounded DEF OpToRel
<1> HIDE DEF Less
<1>2. PICK m \in S : \A k \in S : ~(<<k, m>> \in Less)
  BY <1>1, WFMin, Zenon
<1>3. \A k \in S : ~(k < m)
  BY <1>2 DEF Less
<1> QED
  BY <1>3

\* The name of a face zone that lists a face is given to the mesh.
LEMMA GivenIsGiven ==
  ASSUME mesh \in Meshes, NEW f, Listing(f) # {}
  PROVE  FirstZone(f) \in Listing(f) /\ GivenName(f) \in GivenNames
<1>1. mesh.faceZones \in Seq([name : Words, faces : Seq([face : Nat, flip : BOOLEAN])])
  BY DEF Meshes
<1>2. Listing(f) \subseteq Nat
  BY <1>1 DEF Listing
<1>3. PICK y \in Listing(f) : \A x \in Listing(f) : y <= x
  BY <1>2, LeastOf
<1>4. FirstZone(f) \in Listing(f)
  BY <1>3 DEF FirstZone
<1> QED
  BY <1>4 DEF GivenName, GivenNames, Listing

(***************************************************************************)
(* What the complete files of a region say of the faces to another.        *)
(***************************************************************************)
SideOf(z, y, B) ==
  /\ \A p \in DOMAIN B : \A i \in Facing(z, y, p) :
       /\ i \in Nat /\ LabelAt(z, i) \in Nat
       /\ Joins(LabelAt(z, i), z, y) /\ B[p].name = NameFor(z, LabelAt(z, i))
  /\ \A f : Joins(f, z, y) => \E p \in DOMAIN B : \E i \in Facing(z, y, p) : LabelAt(z, i) = f
  /\ \A p \in DOMAIN B : \A i, j \in Facing(z, y, p) : i < j => LabelAt(z, i) < LabelAt(z, j)
  /\ \A p, q \in DOMAIN B : B[p].name = B[q].name => p = q

LEMMA SideRead ==
  ASSUME IInv, JInv, NEW z \in DOMAIN summaries, NEW y \in DOMAIN mesh.cellZones, z # y,
         Complete(z), NEW B, B = FileOf(z, "boundary")
  PROVE  SideOf(z, y, B)
<1>1. Splits(mesh) /\ z \in DOMAIN mesh.cellZones /\ mesh \in Meshes
  BY WholeReads DEF IInv, TypeOK, Complete
<1>2. B = summaries[z].boundary
  BY DEF Complete
<1>3. PICK F, n : ReadsAs(z, F, n, B)
  <2>1. PICK F, n, C : ReadsAs(z, F, n, C)
    BY WholeReads DEF Complete
  <2>2. C = B
    BY <1>2, <2>1 DEF ReadsAs
  <2> QED
    BY <2>1, <2>2
<1>4. /\ Len(F) \in Nat /\ n \in Nat /\ n <= Len(F) /\ DOMAIN F = 1 .. Len(F)
      /\ \A i \in DOMAIN F : F[i].nodes.of \in Nat
  <2>1. PICK m : m = AsMesh(z)
    OBVIOUS
  <2> QED
    BY <1>3, <2>1, FacesRead
<1>5. HasFaces(z, F, n) /\ HasRanges(F, n, B) /\ HasNames(z, F, B)
  BY <1>3 DEF ReadsAs, IsRegion
<1>6. \A p \in DOMAIN B : B[p].start \in Nat /\ B[p].count \in Nat
  <2>1. PICK N, T : B \in Seq(BoundaryPatch(N, T))
    BY <1>3 DEF ReadsAs, IsRegion
  <2>2. \A p \in DOMAIN B : B[p] \in BoundaryPatch(N, T)
    BY <2>1, EntryIn
  <2> QED
    BY <2>2 DEF BoundaryPatch
<1>7. \A p \in DOMAIN B : \A i \in PatchRange(B[p]) : i \in DOMAIN F /\ n < i /\ i \in Nat
  <2> SUFFICES ASSUME NEW p \in DOMAIN B, NEW i \in PatchRange(B[p])
               PROVE  i \in DOMAIN F /\ n < i /\ i \in Nat
    OBVIOUS
  <2>1. i \in B[p].start .. B[p].start + B[p].count - 1
    BY DEF PatchRange
  <2>2. n < B[p].start /\ B[p].start + B[p].count - 1 <= Len(F)
    BY <1>5 DEF HasRanges
  <2> QED
    BY <1>4, <1>6, <2>1, <2>2
<1>8. \A i \in DOMAIN F : LabelAt(z, i) = F[i].nodes.of
  BY <1>3 DEF ReadsAs, LabelAt
<1>9. \A i \in DOMAIN F : In(z, F[i].nodes.of) /\ (i <= n <=> Amid(z, F[i].nodes.of))
  BY <1>5 DEF HasFaces, Sound
<1>10. \A p : Facing(z, y, p) = {i \in PatchRange(B[p]) : OtherCell(z, LabelAt(z, i)) \in CellsIn(y)}
  BY DEF Facing
<1>11. ASSUME NEW p \in DOMAIN B, NEW i \in Facing(z, y, p)
       PROVE  /\ i \in Nat /\ LabelAt(z, i) \in Nat
              /\ Joins(LabelAt(z, i), z, y) /\ B[p].name = NameFor(z, LabelAt(z, i))
  <2>1. i \in PatchRange(B[p]) /\ OtherCell(z, LabelAt(z, i)) \in CellsIn(y)
    BY <1>10
  <2>2. i \in DOMAIN F /\ i \in Nat
    BY <1>7, <2>1
  <2>3. Joins(LabelAt(z, i), z, y)
    <3>1. PICK f : f = LabelAt(z, i)
      OBVIOUS
    <3>2. In(z, f) /\ OtherCell(z, f) \in CellsIn(y)
      BY <1>8, <1>9, <2>1, <2>2, <3>1
    <3>3. Joins(f, z, y)
      BY <1>1, <3>2, JoinedFaces
    <3> QED
      BY <3>1, <3>3
  <2> QED
    BY <1>4, <1>5, <1>8, <2>1, <2>2, <2>3 DEF HasNames
<1>12. ASSUME NEW f, Joins(f, z, y)
       PROVE  \E p \in DOMAIN B : \E i \in Facing(z, y, p) : LabelAt(z, i) = f
  <2>1. f \in FacesOf(mesh) /\ In(z, f) /\ ~Amid(z, f) /\ OtherCell(z, f) \in CellsIn(y)
    BY <1>1, <1>12, JoinedFaces
  <2>2. PICK i \in DOMAIN F : F[i].nodes.of = f
    BY <1>5, <2>1 DEF HasFaces
  <2>3. n < i
    BY <1>4, <1>9, <2>1, <2>2
  <2>4. PICK p \in DOMAIN B : i \in PatchRange(B[p])
    BY <1>5, <2>3 DEF HasRanges
  <2> QED
    BY <1>8, <1>10, <2>1, <2>2, <2>4
<1>13. ASSUME NEW p \in DOMAIN B, NEW i \in Facing(z, y, p), NEW j \in Facing(z, y, p), i < j
       PROVE  LabelAt(z, i) < LabelAt(z, j)
  <2>1. i \in PatchRange(B[p]) /\ j \in PatchRange(B[p])
    BY <1>10
  <2>2. i \in DOMAIN F /\ j \in DOMAIN F
    BY <1>7, <2>1
  <2> QED
    BY <1>5, <1>8, <1>13, <2>1, <2>2 DEF HasNames
<1>14. \A p, q \in DOMAIN B : B[p].name = B[q].name => p = q
  BY <1>5 DEF HasNames
<1> QED
  BY <1>11, <1>12, <1>13, <1>14 DEF SideOf

\* Two faces between the regions have one name on one side if they have on the other.
LEMMA NamesAgree ==
  ASSUME mesh \in Meshes, Splits(mesh),
         NEW z \in DOMAIN mesh.cellZones, NEW y \in DOMAIN mesh.cellZones, z # y,
         NamesBetween(z, y) \cap GivenNames = {},
         NEW f, NEW g, Joins(f, z, y), Joins(g, z, y), NameFor(z, f) = NameFor(z, g)
  PROVE  NameFor(y, f) = NameFor(y, g)
<1>1. /\ NameFor(z, f) = IF Listing(f) # {} THEN GivenName(f) ELSE Between(z, {y})
      /\ NameFor(z, g) = IF Listing(g) # {} THEN GivenName(g) ELSE Between(z, {y})
      /\ NameFor(y, f) = IF Listing(f) # {} THEN GivenName(f) ELSE Between(y, {z})
      /\ NameFor(y, g) = IF Listing(g) # {} THEN GivenName(g) ELSE Between(y, {z})
  BY JoinedFaces, JoinsBoth
<1>2. /\ Listing(f) # {} => GivenName(f) # Between(z, {y})
      /\ Listing(g) # {} => GivenName(g) # Between(z, {y})
  BY GivenIsGiven DEF NamesBetween
<1> QED
  BY <1>1, <1>2

\* One patch against the other, from either side.
LEMMA OneSide ==
  ASSUME mesh \in Meshes, Splits(mesh),
         NEW z \in DOMAIN mesh.cellZones, NEW y \in DOMAIN mesh.cellZones, z # y,
         NamesBetween(z, y) \cap GivenNames = {},
         NEW B, NEW C, SideOf(z, y, B), SideOf(y, z, C),
         NEW p \in DOMAIN B, NEW q \in DOMAIN C,
         NEW i0 \in Facing(z, y, p), NEW j0 \in Facing(y, z, q), LabelAt(z, i0) = LabelAt(y, j0),
         NEW i \in Facing(z, y, p)
  PROVE  \E j \in Facing(y, z, q) : LabelAt(y, j) = LabelAt(z, i)
<1>1. PICK f, g : f = LabelAt(z, i0) /\ g = LabelAt(z, i)
  OBVIOUS
<1>2. Joins(f, z, y) /\ Joins(g, z, y) /\ NameFor(z, f) = NameFor(z, g)
  BY <1>1 DEF SideOf
<1>3. NameFor(y, f) = NameFor(y, g)
  BY <1>2, NamesAgree
<1>4. PICK k \in DOMAIN C : \E j \in Facing(y, z, k) : LabelAt(y, j) = g
  BY <1>2, JoinsBoth DEF SideOf
<1>5. C[k].name = NameFor(y, g) /\ C[q].name = NameFor(y, f)
  BY <1>1, <1>4 DEF SideOf
<1>6. k = q
  BY <1>3, <1>5 DEF SideOf
<1> QED
  BY <1>1, <1>4, <1>6

LEMMA PatchesMatch ==
  ASSUME IInv, JInv, NEW z \in DOMAIN summaries, NEW y \in DOMAIN summaries, z # y,
         Complete(z), Complete(y), NamesBetween(z, y) \cap GivenNames = {},
         NEW p \in DOMAIN FileOf(z, "boundary"), Facing(z, y, p) # {}
  PROVE  \E q \in DOMAIN FileOf(y, "boundary") : SameFaces(z, y, Facing(z, y, p), Facing(y, z, q))
<1>1. /\ Splits(mesh) /\ mesh \in Meshes
      /\ z \in DOMAIN mesh.cellZones /\ y \in DOMAIN mesh.cellZones
  BY WholeReads DEF IInv, TypeOK, Complete
<1>2. PICK B, C : B = FileOf(z, "boundary") /\ C = FileOf(y, "boundary")
  OBVIOUS
<1>3. SideOf(z, y, B) /\ SideOf(y, z, C)
  BY <1>1, <1>2, SideRead
<1>4. PICK i0 \in Facing(z, y, p) : TRUE
  OBVIOUS
<1>5. Joins(LabelAt(z, i0), y, z)
  BY <1>2, <1>3, JoinsBoth DEF SideOf
<1>6. PICK q \in DOMAIN C : \E j \in Facing(y, z, q) : LabelAt(y, j) = LabelAt(z, i0)
  BY <1>3, <1>5 DEF SideOf
<1>7. PICK j0 \in Facing(y, z, q) : LabelAt(y, j0) = LabelAt(z, i0)
  BY <1>6
<1>8. \A i \in Facing(z, y, p) : \E j \in Facing(y, z, q) : LabelAt(y, j) = LabelAt(z, i)
  BY <1>1, <1>2, <1>3, <1>7, OneSide
<1>9. NamesBetween(y, z) = NamesBetween(z, y)
  BY DEF NamesBetween
<1>10. \A j \in Facing(y, z, q) : \E i \in Facing(z, y, p) : LabelAt(z, i) = LabelAt(y, j)
  BY <1>1, <1>2, <1>3, <1>7, <1>9, OneSide
<1>11. {LabelAt(z, i) : i \in Facing(z, y, p)} = {LabelAt(y, j) : j \in Facing(y, z, q)}
  BY <1>8, <1>10
<1>12. ASSUME NEW h \in Facing(z, y, p), NEW i \in Facing(z, y, p),
              NEW j \in Facing(y, z, q), NEW k \in Facing(y, z, q),
              LabelAt(z, h) = LabelAt(y, j), LabelAt(z, i) = LabelAt(y, k)
       PROVE  h < i <=> j < k
  <2>1. h \in Nat /\ i \in Nat /\ j \in Nat /\ k \in Nat /\ LabelAt(z, h) \in Nat /\ LabelAt(z, i) \in Nat
    BY <1>2, <1>3 DEF SideOf
  <2>2. /\ h < i => LabelAt(z, h) < LabelAt(z, i)
        /\ i < h => LabelAt(z, i) < LabelAt(z, h)
        /\ j < k => LabelAt(y, j) < LabelAt(y, k)
        /\ k < j => LabelAt(y, k) < LabelAt(y, j)
    BY <1>2, <1>3 DEF SideOf
  <2>3. PICK s, t \in Nat : /\ s = LabelAt(z, h) /\ s = LabelAt(y, j)
                            /\ t = LabelAt(z, i) /\ t = LabelAt(y, k)
    BY <1>12, <2>1
  <2>4. /\ h < i => s < t
        /\ i < h => t < s
        /\ j < k => s < t
        /\ k < j => t < s
    BY <2>2, <2>3
  <2>5. h = i => s = t
    BY <2>3
  <2>6. j = k => s = t
    BY <2>3
  <2> QED
    BY <2>1, <2>3, <2>4, <2>5, <2>6
<1> QED
  BY <1>2, <1>11, <1>12 DEF SameFaces

(***************************************************************************)
(* Whatever the mesh: the two sides of an interface between complete       *)
(* regions list the same faces in the same order, unless a name that the   *)
(* split makes for it is that of a patch or a face zone.  (regions.rs,     *)
(* region_patch_for_face)                                                  *)
(***************************************************************************)
THEOREM InterfacesMatch == SplitSpec => []SidesMatch
<1>1. IInv /\ JInv => SidesMatch
  BY PatchesMatch DEF SidesMatch
<1> QED
  BY <1>1, Invariance, RegionsInvariance, PTL

-----------------------------------------------------------------------------
(***************************************************************************)
(* The registry of interfaces.  Sets whose members have the same labels,   *)
(* each once, have as many members.                                        *)
(***************************************************************************)
LEMMA SameCount ==
  ASSUME NEW S, NEW T, IsFiniteSet(T), NEW u, NEW v,
         \A s \in S : \E t \in T : v[t] = u[s],
         \A t \in T : \E s \in S : u[s] = v[t],
         \A r, s \in S : u[r] = u[s] => r = s,
         \A r, t \in T : v[r] = v[t] => r = t
  PROVE  Cardinality(S) = Cardinality(T)
<1> DEFINE h == [t \in T |-> CHOOSE s \in S : u[s] = v[t]]
<1>1. \A t \in T : h[t] \in S /\ u[h[t]] = v[t]
  OBVIOUS
<1>2. h \in [T -> S]
  BY <1>1
<1>3. \A r, t \in T : h[r] = h[t] => r = t
  BY <1>1
<1>4. \A s \in S : \E t \in T : h[t] = s
  BY <1>1
<1> HIDE DEF h
<1>5. h \in Bijection(T, S)
  BY <1>2, <1>3, <1>4 DEF Bijection, Injection, Surjection, IsInjective
<1>6. ExistsBijection(T, S)
  BY <1>5 DEF ExistsBijection
<1> QED
  BY <1>6, FS_Bijection

\* The faces between two regions that the registry counts under a name are those of its patches.
LEMMA EntriesJoin ==
  ASSUME mesh \in Meshes, Splits(mesh), ListedOnce,
         NEW z \in DOMAIN mesh.cellZones, NEW y \in DOMAIN mesh.cellZones, z # y,
         NEW n, n \notin NamesBetween(z, y)
  PROVE  /\ \A e \in EntriesBetween(n, z, y) :
              Joins(Entry(e).face, z, y) /\ NameFor(z, Entry(e).face) = n
         /\ \A f : Joins(f, z, y) /\ NameFor(z, f) = n =>
              \E e \in EntriesBetween(n, z, y) : Entry(e).face = f
<1>1. \A f : Joins(f, z, y) =>
        NameFor(z, f) = IF Listing(f) # {} THEN GivenName(f) ELSE Between(z, {y})
  BY JoinedFaces
<1>2. \A x, i, f : x \in DOMAIN mesh.faceZones /\ i \in PlacesIn(x, f) =>
        <<x, i>> \in Entries /\ Entry(<<x, i>>).face = f
  BY DEF PlacesIn, Entries, Entry
<1>3. ASSUME NEW e \in EntriesBetween(n, z, y)
      PROVE  Joins(Entry(e).face, z, y) /\ NameFor(z, Entry(e).face) = n
  <2>1. PICK f : f = Entry(e).face
    OBVIOUS
  <2>2. e \in Entries /\ mesh.faceZones[e[1]].name = n /\ Joins(f, z, y)
    BY <2>1 DEF EntriesBetween, Joins
  <2>3. e[1] \in DOMAIN mesh.faceZones /\ e[2] \in PlacesIn(e[1], f) /\ e = <<e[1], e[2]>>
    BY <2>1, <2>2 DEF Entries, Entry, PlacesIn
  <2>4. e[1] \in Listing(f)
    BY <2>3 DEF Listing
  <2>5. FirstZone(f) \in Listing(f)
    BY <2>4, GivenIsGiven
  <2>6. PICK i \in PlacesIn(FirstZone(f), f) : TRUE
    BY <2>5 DEF Listing
  <2>7. <<FirstZone(f), i>> \in Entries /\ Entry(<<FirstZone(f), i>>).face = f
    BY <1>2, <2>5 DEF Listing
  <2>8. <<FirstZone(f), i>> = e
    BY <2>1, <2>2, <2>7 DEF ListedOnce
  <2>9. FirstZone(f) = e[1]
    BY <2>8
  <2>10. GivenName(f) = n
    BY <2>2, <2>9 DEF GivenName
  <2> QED
    BY <1>1, <2>1, <2>2, <2>4, <2>10
<1>4. ASSUME NEW f, Joins(f, z, y), NameFor(z, f) = n
      PROVE  \E e \in EntriesBetween(n, z, y) : Entry(e).face = f
  <2>1. Listing(f) # {} /\ GivenName(f) = n
    BY <1>1, <1>4 DEF NamesBetween
  <2>2. FirstZone(f) \in Listing(f)
    BY <2>1, GivenIsGiven
  <2>3. PICK i \in PlacesIn(FirstZone(f), f) : TRUE
    BY <2>2 DEF Listing
  <2>4. PICK e : e = <<FirstZone(f), i>>
    OBVIOUS
  <2>5. e \in Entries /\ Entry(e).face = f /\ mesh.faceZones[e[1]].name = n
    BY <1>2, <2>1, <2>2, <2>4 DEF Listing, GivenName
  <2>6. e \in EntriesBetween(n, z, y)
    BY <1>4, <2>5 DEF EntriesBetween, Joins
  <2> QED
    BY <2>5, <2>6
<1> QED
  BY <1>3, <1>4

LEMMA SideFaces ==
  ASSUME IInv, JInv, NEW z \in DOMAIN summaries, NEW y \in DOMAIN mesh.cellZones, z # y,
         Complete(z), NEW n
  PROVE  /\ IsFiniteSet(Side(n, z, y))
         /\ \A i \in Side(n, z, y) :
              /\ Joins(LabelAt(z, i), z, y) /\ NameFor(z, LabelAt(z, i)) = n
              /\ FaceAt(z, i).reversed <=> mesh.owner[LabelAt(z, i)] \notin CellsIn(z)
         /\ \A i, j \in Side(n, z, y) : LabelAt(z, i) = LabelAt(z, j) => i = j
         /\ \A f : Joins(f, z, y) /\ NameFor(z, f) = n => \E i \in Side(n, z, y) : LabelAt(z, i) = f
<1>1. PICK F, k, C : ReadsAs(z, F, k, C)
  BY WholeReads DEF Complete
<1>2. PICK B : B = FileOf(z, "boundary")
  OBVIOUS
<1>3. SideOf(z, y, B)
  BY <1>2, SideRead
<1>4. FileOf(z, "faces") = [i \in DOMAIN F |-> F[i].nodes]
  BY <1>1 DEF ReadsAs
<1>5. DOMAIN F = 1 .. Len(F) /\ Len(F) \in Nat
  <2>1. PICK m : m = AsMesh(z)
    OBVIOUS
  <2> QED
    BY <1>1, <2>1, FacesRead
<1>6. Side(n, z, y) \subseteq DOMAIN F
  BY <1>4 DEF Side
<1>7. IsFiniteSet(Side(n, z, y))
  <2>1. IsFiniteSet(DOMAIN F)
    BY <1>5, UpTo
  <2> QED
    BY <1>6, <2>1, FS_Subset
<1>8. \A i \in DOMAIN F : /\ LabelAt(z, i) = F[i].nodes.of
                          /\ FaceAt(z, i).of = F[i].nodes.of
                          /\ FaceAt(z, i).reversed = F[i].nodes.reversed
  BY <1>4 DEF LabelAt, FaceAt
<1>9. /\ \A i, j \in DOMAIN F : F[i].nodes.of = F[j].nodes.of => i = j
      /\ \A i \in DOMAIN F : F[i].nodes.reversed <=> mesh.owner[F[i].nodes.of] \notin CellsIn(z)
  BY <1>1 DEF ReadsAs, IsRegion, HasFaces, Sound
<1>10. ASSUME NEW i \in Side(n, z, y)
       PROVE  Joins(LabelAt(z, i), z, y) /\ NameFor(z, LabelAt(z, i)) = n
  <2>1. /\ OtherCell(z, FaceAt(z, i).of) \in CellsIn(y)
        /\ \E q \in DOMAIN B : B[q].name = n /\ i \in PatchRange(B[q])
    BY <1>2 DEF Side
  <2>2. PICK q \in DOMAIN B : B[q].name = n /\ i \in PatchRange(B[q])
    BY <2>1
  <2>3. i \in Facing(z, y, q)
    BY <1>2, <1>6, <1>8, <2>1, <2>2 DEF Facing
  <2> QED
    BY <1>3, <2>2, <2>3 DEF SideOf
<1>11. ASSUME NEW f, Joins(f, z, y), NameFor(z, f) = n
       PROVE  \E i \in Side(n, z, y) : LabelAt(z, i) = f
  <2>1. PICK p \in DOMAIN B : \E i \in Facing(z, y, p) : LabelAt(z, i) = f
    BY <1>3, <1>11 DEF SideOf
  <2>2. PICK i \in Facing(z, y, p) : LabelAt(z, i) = f
    BY <2>1
  <2>3. B[p].name = n
    BY <1>3, <1>11, <2>2 DEF SideOf
  <2>4. i \in PatchRange(B[p]) /\ OtherCell(z, LabelAt(z, i)) \in CellsIn(y)
    BY <1>2, <2>2 DEF Facing
  <2>5. i \in DOMAIN F
    <3>1. p \in DOMAIN C /\ C[p] = B[p]
      <4>1. C = B
        BY <1>1, <1>2 DEF ReadsAs, Complete
      <4> QED
        BY <4>1
    <3>2. HasRanges(F, k, C) /\ k \in Nat
      BY <1>1 DEF ReadsAs, IsRegion
    <3>3. i \in C[p].start .. C[p].start + C[p].count - 1
      BY <2>4, <3>1 DEF PatchRange
    <3>4. k < C[p].start /\ C[p].start + C[p].count - 1 <= Len(F)
      BY <3>1, <3>2 DEF HasRanges
    <3>5. C[p].start \in Nat /\ C[p].count \in Nat
      <4>1. PICK N, T : C \in Seq(BoundaryPatch(N, T))
        BY <1>1 DEF ReadsAs, IsRegion
      <4>2. C[p] \in BoundaryPatch(N, T)
        BY <3>1, <4>1, EntryIn
      <4> QED
        BY <4>2 DEF BoundaryPatch
    <3> QED
      BY <1>5, <3>2, <3>3, <3>4, <3>5
  <2>6. i \in Side(n, z, y)
    <3>1. DOMAIN FileOf(z, "faces") = DOMAIN F
      BY <1>4
    <3>2. OtherCell(z, FaceAt(z, i).of) \in CellsIn(y)
      BY <1>8, <2>4, <2>5
    <3> QED
      BY <1>2, <2>3, <2>4, <2>5, <3>1, <3>2 DEF Side
  <2> QED
    BY <2>2, <2>6
<1>12. \A i \in Side(n, z, y) : FaceAt(z, i).reversed <=> mesh.owner[LabelAt(z, i)] \notin CellsIn(z)
  BY <1>6, <1>8, <1>9
<1>13. \A i, j \in Side(n, z, y) : LabelAt(z, i) = LabelAt(z, j) => i = j
  BY <1>6, <1>8, <1>9
<1> QED
  BY <1>7, <1>10, <1>11, <1>12, <1>13

\* The entries of an interface, and the faces of a side, that are in a set K of faces of the mesh.
EntriesAmong(n, z, y, K) == {e \in EntriesBetween(n, z, y) : Entry(e).face \in K}
SideAmong(n, z, y, K) == {i \in Side(n, z, y) : LabelAt(z, i) \in K}

\* As many entries as faces of a side.
LEMMA SideCounts ==
  ASSUME IInv, JInv, NEW z \in DOMAIN summaries, NEW y \in DOMAIN mesh.cellZones, z # y,
         Complete(z), ListedOnce, NEW n, n \notin NamesBetween(z, y), NEW K
  PROVE  Cardinality(EntriesAmong(n, z, y, K)) = Cardinality(SideAmong(n, z, y, K))
<1>1. Splits(mesh) /\ mesh \in Meshes /\ z \in DOMAIN mesh.cellZones
  BY WholeReads DEF IInv, TypeOK, Complete
<1>2. PICK S, T : /\ S = {e \in EntriesBetween(n, z, y) : Entry(e).face \in K}
                  /\ T = {i \in Side(n, z, y) : LabelAt(z, i) \in K}
  OBVIOUS
<1>3. PICK u, v : u = [e \in S |-> Entry(e).face] /\ v = [i \in T |-> LabelAt(z, i)]
  OBVIOUS
<1>4. IsFiniteSet(T)
  <2>1. IsFiniteSet(Side(n, z, y)) /\ T \subseteq Side(n, z, y)
    BY <1>2, SideFaces
  <2> QED
    BY <2>1, FS_Subset
<1>5. \A s \in S : u[s] \in K /\ Joins(u[s], z, y) /\ NameFor(z, u[s]) = n
  BY <1>1, <1>2, <1>3, EntriesJoin
<1>6. \A t \in T : v[t] \in K /\ Joins(v[t], z, y) /\ NameFor(z, v[t]) = n
  BY <1>2, <1>3, SideFaces
<1>7. \A f \in K : Joins(f, z, y) /\ NameFor(z, f) = n => \E s \in S : u[s] = f
  BY <1>1, <1>2, <1>3, EntriesJoin
<1>8. \A f \in K : Joins(f, z, y) /\ NameFor(z, f) = n => \E t \in T : v[t] = f
  BY <1>2, <1>3, SideFaces
<1>9. \A r, s \in S : u[r] = u[s] => r = s
  BY <1>2, <1>3 DEF ListedOnce, EntriesBetween
<1>10. \A r, t \in T : v[r] = v[t] => r = t
  BY <1>2, <1>3, SideFaces
<1>11. Cardinality(S) = Cardinality(T)
  BY <1>4, <1>5, <1>6, <1>7, <1>8, <1>9, <1>10, SameCount
<1> QED
  BY <1>2, <1>11 DEF EntriesAmong, SideAmong

LEMMA OneRegistry ==
  ASSUME IInv, JInv, NEW a \in DOMAIN summaries, NEW b \in DOMAIN summaries, a # b,
         Complete(a), Complete(b), ListedOnce, FirstByName(a, b),
         NEW n, n \notin NamesBetween(a, b)
  PROVE  LET A == {i \in Side(n, a, b) : ~FaceAt(a, i).reversed}
             B == {i \in Side(n, b, a) : ~FaceAt(b, i).reversed}
         IN  /\ {Cardinality(Side(n, a, b)), Cardinality(Side(n, b, a))} \ {0} = MeshFaces(n, b, a)
             /\ Registered(n, a, b).meshAToB = Cardinality(A)
             /\ Registered(n, a, b).meshAToB = Cardinality(Side(n, b, a) \ B)
<1> SUFFICES ASSUME NEW A, NEW B,
                    A = {i \in Side(n, a, b) : ~FaceAt(a, i).reversed},
                    B = {i \in Side(n, b, a) : ~FaceAt(b, i).reversed}
             PROVE  /\ {Cardinality(Side(n, a, b)), Cardinality(Side(n, b, a))} \ {0} = MeshFaces(n, b, a)
                    /\ Registered(n, a, b).meshAToB = Cardinality(A)
                    /\ Registered(n, a, b).meshAToB = Cardinality(Side(n, b, a) \ B)
  OBVIOUS
<1>1. /\ Splits(mesh) /\ mesh \in Meshes
      /\ a \in DOMAIN mesh.cellZones /\ b \in DOMAIN mesh.cellZones
  BY WholeReads DEF IInv, TypeOK, Complete
<1>2. EntriesBetween(n, b, a) = EntriesBetween(n, a, b) /\ n \notin NamesBetween(b, a)
  BY DEF EntriesBetween, NamesBetween
<1>3. PICK all : all = EntriesBetween(n, a, b)
  OBVIOUS
<1>4. /\ \A i \in Side(n, a, b) : /\ Joins(LabelAt(a, i), a, b)
                                  /\ FaceAt(a, i).reversed <=> mesh.owner[LabelAt(a, i)] \notin CellsIn(a)
      /\ \A i \in Side(n, b, a) : /\ Joins(LabelAt(b, i), b, a)
                                  /\ FaceAt(b, i).reversed <=> mesh.owner[LabelAt(b, i)] \notin CellsIn(b)
  BY <1>1, SideFaces
<1>5. \A f : Joins(f, a, b) => /\ f \in FacesOf(mesh)
                               /\ mesh.owner[f] \in CellsIn(a) <=> mesh.owner[f] \notin CellsIn(b)
  BY <1>1, JoinedFaces
<1>6. \A e \in all : Joins(Entry(e).face, a, b)
  BY <1>3 DEF EntriesBetween, Joins
<1>7. \A K : /\ Cardinality(EntriesAmong(n, a, b, K)) = Cardinality(SideAmong(n, a, b, K))
             /\ Cardinality(EntriesAmong(n, a, b, K)) = Cardinality(SideAmong(n, b, a, K))
  <2>1. \A K : EntriesAmong(n, b, a, K) = EntriesAmong(n, a, b, K)
    BY <1>2 DEF EntriesAmong
  <2>2. \A K : Cardinality(EntriesAmong(n, a, b, K)) = Cardinality(SideAmong(n, a, b, K))
    BY <1>1, SideCounts
  <2>3. \A K : Cardinality(EntriesAmong(n, b, a, K)) = Cardinality(SideAmong(n, b, a, K))
    BY <1>1, <1>2, SideCounts
  <2> QED
    BY <2>1, <2>2, <2>3
\* All of them.
<1>8. Cardinality(all) = Cardinality(Side(n, a, b)) /\ Cardinality(all) = Cardinality(Side(n, b, a))
  <2>1. PICK K : K = FacesOf(mesh)
    OBVIOUS
  <2>2. EntriesAmong(n, a, b, K) = all
    BY <1>3, <1>5, <1>6, <2>1 DEF EntriesAmong
  <2>3. SideAmong(n, a, b, K) = Side(n, a, b) /\ SideAmong(n, b, a, K) = Side(n, b, a)
    BY <1>4, <1>5, <2>1, JoinsBoth DEF SideAmong
  <2> QED
    BY <1>7, <2>2, <2>3
\* Those that the mesh turns out of the first region.
<1>9. /\ Cardinality({e \in all : FromFirst(e, a)}) = Cardinality(A)
      /\ Cardinality({e \in all : FromFirst(e, a)}) = Cardinality(Side(n, b, a) \ B)
  <2>1. PICK K : K = {f \in FacesOf(mesh) : mesh.owner[f] \in CellsIn(a)}
    OBVIOUS
  <2>2. EntriesAmong(n, a, b, K) = {e \in all : FromFirst(e, a)}
    BY <1>3, <1>5, <1>6, <2>1 DEF FromFirst, EntriesAmong
  <2>3. SideAmong(n, a, b, K) = A
    BY <1>4, <1>5, <2>1 DEF SideAmong
  <2>4. SideAmong(n, b, a, K) = Side(n, b, a) \ B
    BY <1>4, <1>5, <2>1, JoinsBoth DEF SideAmong
  <2> QED
    BY <1>7, <2>2, <2>3, <2>4
<1>10. /\ Registered(n, a, b).faces = Cardinality(all)
       /\ Registered(n, b, a).faces = Cardinality(all)
       /\ Registered(n, a, b).meshAToB = Cardinality({e \in all : FromFirst(e, a)})
  BY <1>2, <1>3 DEF Registered
<1>11. MeshFaces(n, b, a) = IF Cardinality(all) = 0 THEN {} ELSE {Cardinality(all)}
  BY <1>10 DEF MeshFaces
<1> QED
  BY <1>8, <1>9, <1>10, <1>11

(***************************************************************************)
(* Whatever the mesh: under a name that the split does not make itself the *)
(* registry counts the faces of either side of an interface and those of   *)
(* each direction.  (docs/user-guide.md:212, Interface Registry;           *)
(* regions.rs, build_interface_registry)                                   *)
(***************************************************************************)
THEOREM RegistryCounts == SplitSpec => []RegistryAgrees
<1>1. IInv /\ JInv => RegistryAgrees
  <2> SUFFICES ASSUME IInv, JInv, NEW a \in DOMAIN summaries, NEW b \in DOMAIN summaries, a # b,
                      Complete(a), Complete(b), ListedOnce, FirstByName(a, b),
                      NEW n \in Words \ NamesBetween(a, b)
               PROVE  LET forward(z) == {i \in Side(n, z, IF z = a THEN b ELSE a) : ~FaceAt(z, i).reversed}
                      IN  /\ {Cardinality(Side(n, a, b)), Cardinality(Side(n, b, a))} \ {0} = MeshFaces(n, b, a)
                          /\ Registered(n, a, b).meshAToB = Cardinality(forward(a))
                          /\ Registered(n, a, b).meshAToB = Cardinality(Side(n, b, a) \ forward(b))
    BY DEF RegistryAgrees
  <2>1. PICK A, B : /\ A = {i \in Side(n, a, b) : ~FaceAt(a, i).reversed}
                    /\ B = {i \in Side(n, b, a) : ~FaceAt(b, i).reversed}
    OBVIOUS
  <2>2. /\ {Cardinality(Side(n, a, b)), Cardinality(Side(n, b, a))} \ {0} = MeshFaces(n, b, a)
        /\ Registered(n, a, b).meshAToB = Cardinality(A)
        /\ Registered(n, a, b).meshAToB = Cardinality(Side(n, b, a) \ B)
    BY <2>1, OneRegistry
  <2> QED
    BY <2>1, <2>2
<1> QED
  BY <1>1, Invariance, RegionsInvariance, PTL

-----------------------------------------------------------------------------
(***************************************************************************)
(* Numbers in ascending order.                                             *)
(***************************************************************************)
LEMMA PlaceFacts ==
  ASSUME NEW S \in SUBSET Int, IsFiniteSet(S)
  PROVE  /\ Cardinality(S) \in Nat
         /\ \A x \in S : Place(S, x) \in 1 .. Cardinality(S)
         /\ \A x, y \in S : x < y => Place(S, x) < Place(S, y)
         /\ \A n \in 1 .. Cardinality(S) : \E x \in S : Place(S, x) = n
<1> DEFINE Before(x) == {y \in S : y < x}
<1>1. Cardinality(S) \in Nat
  BY FS_CardinalityType
<1>2. ASSUME NEW x \in S
      PROVE  IsFiniteSet(Before(x)) /\ Cardinality(Before(x)) \in Nat
  BY FS_Subset, FS_CardinalityType
<1>3. ASSUME NEW x \in S
      PROVE  /\ IsFiniteSet(Before(x) \cup {x})
             /\ Cardinality(Before(x) \cup {x}) = Place(S, x)
             /\ Place(S, x) \in Int
  <2>1. x \notin Before(x)
    OBVIOUS
  <2>2. Place(S, x) = 1 + Cardinality(Before(x))
    BY DEF Place
  <2> HIDE DEF Before
  <2>3. /\ IsFiniteSet(Before(x) \cup {x})
        /\ Cardinality(Before(x) \cup {x}) = Cardinality(Before(x)) + 1
    BY <1>2, <2>1, FS_AddElement
  <2> QED
    BY <1>2, <2>2, <2>3
<1>4. ASSUME NEW x \in S
      PROVE  Place(S, x) \in 1 .. Cardinality(S)
  <2>1. Before(x) \cup {x} \in SUBSET S
    OBVIOUS
  <2>2. Place(S, x) = 1 + Cardinality(Before(x))
    BY DEF Place
  <2> HIDE DEF Before
  <2>3. Cardinality(Before(x) \cup {x}) <= Cardinality(S)
    BY <2>1, FS_Subset
  <2>4. Cardinality(Before(x)) \in Nat
    BY <1>2
  <2>5. Place(S, x) <= Cardinality(S)
    BY <1>3, <2>3
  <2> QED
    BY <1>1, <2>2, <2>4, <2>5
<1>5. ASSUME NEW x \in S, NEW y \in S, x < y
      PROVE  Place(S, x) < Place(S, y)
  <2>1. Before(x) \cup {x} \in SUBSET Before(y)
    <3>1. x \in Int /\ y \in Int /\ \A z \in S : z \in Int
      OBVIOUS
    <3>2. \A z \in Before(x) : z \in Before(y)
      BY <1>5, <3>1
    <3> QED
      BY <1>5, <3>2
  <2>2. Place(S, y) = 1 + Cardinality(Before(y))
    BY DEF Place
  <2> HIDE DEF Before
  <2>3. Cardinality(Before(x) \cup {x}) <= Cardinality(Before(y))
    BY <1>2, <2>1, FS_Subset
  <2>4. Cardinality(Before(y)) \in Nat /\ Place(S, x) \in Int
    BY <1>2, <1>3
  <2>5. Place(S, x) <= Cardinality(Before(y))
    BY <1>3, <2>3
  <2> QED
    BY <2>2, <2>4, <2>5
<1>6. \A n \in 1 .. Cardinality(S) : \E x \in S : Place(S, x) = n
  <2> DEFINE f == [x \in S |-> Place(S, x)]
             T == 1 .. Cardinality(S)
  <2>1. f \in [S -> T]
    BY <1>4
  <2>2. \A x, y \in S : f[x] = f[y] => x = y
    <3>1. SUFFICES ASSUME NEW x \in S, NEW y \in S, x # y PROVE f[x] # f[y]
      OBVIOUS
    <3>2. f[x] = Place(S, x) /\ f[y] = Place(S, y) /\ f[x] \in Int /\ f[y] \in Int
      BY <1>3
    <3>3. CASE x < y
      BY <1>5, <3>2, <3>3
    <3>4. CASE y < x
      BY <1>5, <3>2, <3>4
    <3> QED
      BY <3>1, <3>3, <3>4
  <2>3. f \in Injection(S, T)
    BY <2>1, <2>2 DEF Injection, IsInjective
  <2>4. IsFiniteSet(T) /\ Cardinality(T) = Cardinality(S)
    BY <1>1, FS_Interval
  <2> HIDE DEF T, f
  <2>5. f \in Surjection(S, T)
    BY <2>3, <2>4, FS_Injection
  <2>6. \A n \in T : \E x \in S : f[x] = n
    BY <2>5 DEF Surjection
  <2> QED
    BY <2>6 DEF T, f
<1> QED
  BY <1>1, <1>4, <1>5, <1>6

LEMMA InOrderFacts ==
  ASSUME NEW S \in SUBSET Int, IsFiniteSet(S)
  PROVE  /\ Cardinality(S) \in Nat
         /\ InOrder(S) \in Seq(S)
         /\ Len(InOrder(S)) = Cardinality(S)
         /\ DOMAIN InOrder(S) = 1 .. Cardinality(S)
         /\ \A x \in S : Place(S, x) \in DOMAIN InOrder(S) /\ InOrder(S)[Place(S, x)] = x
         /\ \A n \in DOMAIN InOrder(S) : InOrder(S)[n] \in S /\ Place(S, InOrder(S)[n]) = n
         /\ \A m, n \in DOMAIN InOrder(S) : m < n => InOrder(S)[m] < InOrder(S)[n]
         /\ \A m, n \in DOMAIN InOrder(S) : InOrder(S)[m] = InOrder(S)[n] => m = n
<1> DEFINE s == InOrder(S)
           D == 1 .. Cardinality(S)
<1>1. /\ Cardinality(S) \in Nat
      /\ \A x \in S : Place(S, x) \in D
      /\ \A x, y \in S : x < y => Place(S, x) < Place(S, y)
      /\ \A n \in D : \E x \in S : Place(S, x) = n
  BY PlaceFacts
<1>2. \A n \in D : s[n] = CHOOSE x \in S : Place(S, x) = n
  BY DEF InOrder
<1>3. \A n \in D : s[n] \in S /\ Place(S, s[n]) = n
  <2>1. TAKE n \in D
  <2>2. \E x \in S : Place(S, x) = n
    BY <1>1
  <2>3. (CHOOSE x \in S : Place(S, x) = n) \in S /\ Place(S, CHOOSE x \in S : Place(S, x) = n) = n
    BY <2>2
  <2> QED
    BY <1>2, <2>3
<1>4. DOMAIN s = D /\ s \in [D -> S]
  <2>1. s = [n \in D |-> CHOOSE x \in S : Place(S, x) = n]
    BY DEF InOrder
  <2> HIDE DEF s
  <2> QED
    BY <1>3, <2>1
<1> HIDE DEF s
<1>5. s \in Seq(S) /\ Len(s) = Cardinality(S)
  BY <1>1, <1>4
<1>6. \A m, n \in D : m < n => s[m] < s[n]
  <2>1. SUFFICES ASSUME NEW m \in D, NEW n \in D, m < n PROVE s[m] < s[n]
    OBVIOUS
  <2>2. s[m] \in S /\ s[n] \in S /\ Place(S, s[m]) = m /\ Place(S, s[n]) = n
    BY <1>3
  <2>3. s[n] < s[m] => n < m
    BY <1>1, <2>2
  <2>4. s[n] # s[m]
    BY <2>1, <2>2
  <2>5. s[n] \in Int /\ s[m] \in Int
    BY <2>2
  <2> QED
    BY <2>1, <2>3, <2>4, <2>5
<1>7. ASSUME NEW x \in S
      PROVE  Place(S, x) \in D /\ s[Place(S, x)] = x
  <2>1. Place(S, x) \in D
    BY <1>1
  <2>2. PICK z \in S : z = s[Place(S, x)] /\ Place(S, z) = Place(S, x)
    BY <1>3, <2>1
  <2>3. x \in Int /\ z \in Int /\ Place(S, x) \in Int
    BY <1>1, <2>1
  <2>4. ~(x < z) /\ ~(z < x)
    BY <1>1, <2>2, <2>3
  <2> QED
    BY <2>1, <2>2, <2>3, <2>4
<1>8. \A m, n \in D : s[m] = s[n] => m = n
  BY <1>3
<1> QED
  BY <1>1, <1>3, <1>4, <1>5, <1>6, <1>7, <1>8 DEF s

LEMMA LowestFacts ==
  ASSUME NEW S \in SUBSET Int, S # {}, IsFiniteSet(S)
  PROVE  Lowest(S) \in S /\ \A y \in S : Lowest(S) <= y
<1>1. Cardinality(S) \in Nat /\ Cardinality(S) # 0
  BY FS_EmptySet, FS_CardinalityType
<1> DEFINE s == InOrder(S)
           D == DOMAIN s
<1>2. /\ D = 1 .. Cardinality(S)
      /\ \A n \in D : s[n] \in S
      /\ \A m, n \in D : m < n => s[m] < s[n]
      /\ \A x \in S : \E n \in D : s[n] = x
  BY InOrderFacts
<1> HIDE DEF s, D
<1>3. 1 \in D /\ s[1] \in S
  BY <1>1, <1>2
<1>4. ASSUME NEW y \in S
      PROVE  s[1] <= y
  <2>1. PICK n \in D : s[n] = y
    BY <1>2
  <2>2. n = 1 \/ 1 < n
    BY <1>1, <1>2
  <2>3. y \in Int /\ s[1] \in Int
    BY <1>3
  <2>4. CASE n = 1
    BY <2>1, <2>3, <2>4
  <2>5. CASE 1 < n
    BY <1>2, <1>3, <2>1, <2>3, <2>5
  <2> QED
    BY <2>2, <2>4, <2>5
<1>5. \E x \in S : \A y \in S : x <= y
  BY <1>3, <1>4
<1> QED
  BY <1>5 DEF Lowest

LEMMA HighestFacts ==
  ASSUME NEW S \in SUBSET Int, S # {}, IsFiniteSet(S)
  PROVE  Highest(S) \in S
<1>1. Cardinality(S) \in Nat /\ Cardinality(S) # 0
  BY FS_EmptySet, FS_CardinalityType
<1> DEFINE s == InOrder(S)
           D == DOMAIN s
           m == Cardinality(S)
<1>2. /\ D = 1 .. m
      /\ \A n \in D : s[n] \in S
      /\ \A l, n \in D : l < n => s[l] < s[n]
      /\ \A x \in S : \E n \in D : s[n] = x
  BY InOrderFacts
<1> HIDE DEF s, D, m
<1>3. m \in D /\ s[m] \in S
  BY <1>1, <1>2 DEF m
<1>4. ASSUME NEW y \in S
      PROVE  y <= s[m]
  <2>1. PICK n \in D : s[n] = y
    BY <1>2
  <2>2. n = m \/ n < m
    BY <1>1, <1>2 DEF m
  <2>3. y \in Int /\ s[m] \in Int
    BY <1>3
  <2>4. CASE n = m
    BY <2>1, <2>3, <2>4
  <2>5. CASE n < m
    BY <1>2, <1>3, <2>1, <2>3, <2>5
  <2> QED
    BY <2>2, <2>4, <2>5
<1>5. \E x \in S : \A y \in S : y <= x
  BY <1>3, <1>4
<1> QED
  BY <1>5 DEF Highest

-----------------------------------------------------------------------------
(***************************************************************************)
(* The faces found so far are those of the cells before the next, each     *)
(* once, between the first and the second of those that list it.           *)
(***************************************************************************)
RingType == [key : Keys, sense : {"+", "-"}]
CellType == [rings : Seq(RingType), tag : DOMAIN TagName]
SurfaceType == [key : Keys, tag : DOMAIN TagName]
FaceType == [key : Keys, sense : {"+", "-"}, owner : Nat, neighbour : Nat]

Seen(k) == {c \in CellsWith(k) : c < cell}
FoundRight(g) ==
  /\ g.owner \in Seen(g.key)
  /\ \A d \in Seen(g.key) : g.owner <= d
  /\ IF g.neighbour = NoNeighbour THEN \A d \in Seen(g.key) : d = g.owner
     ELSE /\ g.neighbour \in Seen(g.key) /\ g.neighbour # g.owner
          /\ \A d \in Seen(g.key) : d # g.owner => g.neighbour <= d
  /\ \E i \in DOMAIN import.cells[g.owner].rings :
       import.cells[g.owner].rings[i] = [key |-> g.key, sense |-> g.sense]

ImportOK ==
  /\ import \in Imports
  /\ step \in {"cells", "files", "imported", "failed"}
  /\ cell \in 1 .. Len(import.cells) + 1
  /\ step # "cells" => cell = Len(import.cells) + 1
  /\ output \in Nat
  /\ step # "cells" => output # 0
FoundOK ==
  /\ found \in Seq(FaceType)
  /\ \A i \in DOMAIN found : FoundRight(found[i])
  /\ \A i, j \in DOMAIN found : found[i].key = found[j].key => i = j
  /\ \A c \in DOMAIN import.cells : c < cell => KeysOf(import.cells[c].rings) \subseteq KeysOf(found)

LEMMA ImportTypes ==
  ASSUME import \in Imports
  PROVE  /\ import.cells \in Seq(CellType)
         /\ DOMAIN import.cells = 1 .. Len(import.cells) /\ Len(import.cells) \in Nat
         /\ Surfaces \in Seq(SurfaceType)
         /\ \A c \in DOMAIN import.cells :
              /\ import.cells[c].rings \in Seq(RingType)
              /\ import.cells[c].tag \in DOMAIN TagName
              /\ \A i, j \in DOMAIN import.cells[c].rings :
                   import.cells[c].rings[i].key = import.cells[c].rings[j].key => i = j
<1>1. import \in [cells : Seq(CellType), surfaces : Seq(SurfaceType)]
  BY TopologyAssumption DEF CellType, SurfaceType, RingType
<1>2. import.cells \in Seq(CellType) /\ Surfaces \in Seq(SurfaceType)
  BY <1>1 DEF Surfaces
<1>3. \A c \in DOMAIN import.cells : import.cells[c] \in CellType
  BY <1>2, EntryIn
<1>4. \A c \in DOMAIN import.cells : /\ import.cells[c].rings \in Seq(RingType)
                                     /\ import.cells[c].tag \in DOMAIN TagName
  BY <1>3 DEF CellType
<1>5. \A c \in DOMAIN import.cells : \A i, j \in DOMAIN import.cells[c].rings :
        import.cells[c].rings[i].key = import.cells[c].rings[j].key => i = j
  BY TopologyAssumption
<1> QED
  BY <1>2, <1>4, <1>5

LEMMA SeenGrows ==
  ASSUME ImportOK, cell \in DOMAIN import.cells, cell' = cell + 1, import' = import, NEW k
  PROVE  /\ k \in KeysOf(Rings) => \A d : d \in Seen(k)' <=> d \in Seen(k) \/ d = cell
         /\ k \notin KeysOf(Rings) => Seen(k)' = Seen(k)
         /\ \A d \in Seen(k) : d \in Nat /\ d < cell /\ d # 0
<1>1. DOMAIN import.cells = 1 .. Len(import.cells) /\ Len(import.cells) \in Nat
  BY ImportTypes DEF ImportOK
<1>2. cell \in Nat /\ \A d \in DOMAIN import.cells : d \in Nat /\ d # 0
  BY <1>1
<1>3. CellsWith(k)' = CellsWith(k) /\ CellsWith(k) \subseteq DOMAIN import.cells
  BY DEF CellsWith, KeysOf
<1>4. cell \in CellsWith(k) <=> k \in KeysOf(Rings)
  BY DEF CellsWith, Rings
<1>5. \A d \in DOMAIN import.cells : d < cell + 1 <=> d < cell \/ d = cell
  BY <1>2
<1> QED
  BY <1>2, <1>3, <1>4, <1>5 DEF Seen

\* What a step of build_topology makes of the faces.
LEMMA AddCellFacts ==
  ASSUME ImportOK, found \in Seq(FaceType), AddCell
  PROVE  LET new == {i \in DOMAIN Rings : Rings[i].key \notin KeysOf(found)}
         IN  /\ found' \in Seq(FaceType)
             /\ DOMAIN found \subseteq DOMAIN found'
             /\ \A i \in DOMAIN found : found'[i] = IF Meets(found[i]) THEN [found[i] EXCEPT !.neighbour = cell]
                                                    ELSE found[i]
             /\ \A i \in DOMAIN found' \ DOMAIN found : \E r \in new : found'[i] = Face(Rings[r])
             /\ \A r \in new : \E i \in DOMAIN found' : found'[i] = Face(Rings[r])
             /\ \A i, j \in DOMAIN found' \ DOMAIN found : \A r \in new :
                  found'[i] = Face(Rings[r]) /\ found'[j] = Face(Rings[r]) => i = j
<1> DEFINE new == {i \in DOMAIN Rings : Rings[i].key \notin KeysOf(found)}
           s == InOrder(new)
           old == [i \in DOMAIN found |-> IF Meets(found[i]) THEN [found[i] EXCEPT !.neighbour = cell]
                                          ELSE found[i]]
           more == [n \in DOMAIN s |-> Face(Rings[s[n]])]
<1>1. cell \in DOMAIN import.cells /\ found' = old \o more
  BY DEF AddCell
<1>2. cell \in Nat
  BY ImportTypes DEF ImportOK
<1>3. /\ Rings \in Seq(RingType)
      /\ \A i, j \in DOMAIN Rings : Rings[i].key = Rings[j].key => i = j
  BY <1>1, ImportTypes DEF ImportOK, Rings
<1>4. new \in SUBSET Int /\ IsFiniteSet(new)
  <2>1. DOMAIN Rings = 1 .. Len(Rings) /\ Len(Rings) \in Nat
    BY <1>3
  <2>2. new \in SUBSET (1 .. Len(Rings))
    BY <2>1
  <2>3. IsFiniteSet(1 .. Len(Rings))
    BY <2>1, UpTo
  <2> HIDE DEF new
  <2>4. 1 .. Len(Rings) \subseteq Int
    BY <2>1
  <2> QED
    BY <2>2, <2>3, <2>4, FS_Subset
<1>5. /\ \A n \in DOMAIN s : s[n] \in new
      /\ \A r \in new : \E n \in DOMAIN s : s[n] = r
      /\ \A m, n \in DOMAIN s : s[m] = s[n] => m = n
      /\ DOMAIN s = 1 .. Cardinality(new) /\ Cardinality(new) \in Nat
  <2> HIDE DEF new
  <2> QED
    BY <1>4, InOrderFacts
<1>6. \A r \in new : Rings[r] \in RingType /\ r \in DOMAIN Rings
  BY <1>3, EntryIn
<1>7. \A r \in new : Face(Rings[r]) \in FaceType /\ Face(Rings[r]).key = Rings[r].key
  BY <1>2, <1>6 DEF Face, FaceType, RingType, NoNeighbour
<1> HIDE DEF new, s
<1>8. more \in Seq(FaceType)
  <2>1. \A n \in 1 .. Cardinality(new) : more[n] \in FaceType
    BY <1>5, <1>7
  <2>2. more = [n \in 1 .. Cardinality(new) |-> more[n]]
    BY <1>5
  <2> HIDE DEF more
  <2>3. more \in [1 .. Cardinality(new) -> FaceType]
    BY <2>1, <2>2
  <2> QED
    BY <1>5, <2>3
<1>9. old \in Seq(FaceType) /\ DOMAIN old = DOMAIN found /\ Len(found) = Len(old)
  <2>1. DOMAIN found = 1 .. Len(found) /\ Len(found) \in Nat
    OBVIOUS
  <2>2. \A i \in DOMAIN found : found[i] \in FaceType
    BY EntryIn
  <2>3. \A i \in DOMAIN found : [found[i] EXCEPT !.neighbour = cell] \in FaceType
    BY <1>2, <2>2 DEF FaceType
  <2>4. \A i \in DOMAIN found : old[i] \in FaceType
    BY <2>2, <2>3
  <2>5. DOMAIN old = 1 .. Len(found) /\ old = [i \in 1 .. Len(found) |-> old[i]]
    BY <2>1
  <2> HIDE DEF old
  <2>6. old \in [1 .. Len(found) -> FaceType]
    BY <2>1, <2>4, <2>5
  <2> QED
    BY <2>1, <2>5, <2>6
<1>10. \A n \in DOMAIN more : more[n] = Face(Rings[s[n]]) /\ n \in DOMAIN s
  OBVIOUS
<1>11. DOMAIN more = DOMAIN s
  OBVIOUS
<1>12. \A i \in DOMAIN old : old[i] = IF Meets(found[i]) THEN [found[i] EXCEPT !.neighbour = cell]
                                      ELSE found[i]
  OBVIOUS
<1> HIDE DEF old, more
<1>13. /\ found' \in Seq(FaceType) /\ Len(old) \in Nat
       /\ \A i \in DOMAIN old : i \in DOMAIN found' /\ found'[i] = old[i]
       /\ \A j \in DOMAIN more : Len(old) + j \in DOMAIN found' /\ found'[Len(old) + j] = more[j]
       /\ \A i \in DOMAIN found' : i \in DOMAIN old \/ \E j \in DOMAIN more : i = Len(old) + j
  <2>1. old \in Seq(FaceType) /\ more \in Seq(FaceType)
    BY <1>8, <1>9
  <2>2. /\ old \o more \in Seq(FaceType) /\ Len(old) \in Nat
        /\ \A i \in DOMAIN old : i \in DOMAIN (old \o more) /\ (old \o more)[i] = old[i]
        /\ \A j \in DOMAIN more : /\ Len(old) + j \in DOMAIN (old \o more)
                                   /\ (old \o more)[Len(old) + j] = more[j]
        /\ \A i \in DOMAIN (old \o more) : i \in DOMAIN old \/ \E j \in DOMAIN more : i = Len(old) + j
    BY <2>1, ConcatFacts
  <2> QED
    BY <1>1, <2>2
<1>14. ASSUME NEW i \in DOMAIN found' \ DOMAIN found
       PROVE  \E r \in new : found'[i] = Face(Rings[r])
  <2>1. i \in DOMAIN found' /\ i \notin DOMAIN old
    BY <1>9
  <2>2. PICK j \in DOMAIN more : i = Len(old) + j
    BY <1>13, <2>1, Zenon
  <2>3. found'[i] = Face(Rings[s[j]]) /\ s[j] \in new
    BY <1>5, <1>10, <1>13, <2>2
  <2> QED
    BY <2>3
<1>15. ASSUME NEW r \in new
       PROVE  \E i \in DOMAIN found' : found'[i] = Face(Rings[r])
  <2>1. PICK n \in DOMAIN s : s[n] = r
    BY <1>5
  <2>2. n \in DOMAIN more /\ more[n] = Face(Rings[r])
    BY <1>10, <1>11, <2>1
  <2>3. Len(old) + n \in DOMAIN found' /\ found'[Len(old) + n] = more[n]
    BY <1>13, <2>2
  <2> QED
    BY <2>2, <2>3
<1>16. ASSUME NEW i \in DOMAIN found' \ DOMAIN found, NEW j \in DOMAIN found' \ DOMAIN found, NEW r \in new,
              found'[i] = Face(Rings[r]), found'[j] = Face(Rings[r])
       PROVE  i = j
  <2>1. PICK m \in DOMAIN more : i = Len(old) + m
    BY <1>9, <1>13
  <2>2. PICK n \in DOMAIN more : j = Len(old) + n
    BY <1>9, <1>13
  <2>3. more[m] = Face(Rings[r]) /\ more[n] = Face(Rings[r])
    BY <1>13, <1>16, <2>1, <2>2
  <2>4. Face(Rings[s[m]]).key = Face(Rings[s[n]]).key /\ m \in DOMAIN s /\ n \in DOMAIN s
    BY <1>10, <2>3
  <2>5. Rings[s[m]].key = Rings[s[n]].key
    BY <1>5, <1>7, <2>4
  <2> QED
    BY <1>3, <1>5, <1>6, <2>1, <2>2, <2>4, <2>5
<1> QED
  BY <1>9, <1>12, <1>13, <1>14, <1>15, <1>16 DEF new

LEMMA AddCellStep ==
  ASSUME ImportOK, FoundOK, AddCell
  PROVE  ImportOK' /\ FoundOK'
<1> DEFINE new == {i \in DOMAIN Rings : Rings[i].key \notin KeysOf(found)}
<1>1. /\ step = "cells" /\ cell \in DOMAIN import.cells /\ cell' = cell + 1
      /\ UNCHANGED <<import, step, output>>
  BY DEF AddCell
<1>2. DOMAIN import.cells = 1 .. Len(import.cells) /\ Len(import.cells) \in Nat
  BY ImportTypes DEF ImportOK
<1>3. ImportOK'
  <2>1. cell + 1 \in 1 .. Len(import.cells) + 1
    BY <1>1, <1>2
  <2>2. step' = "cells" /\ import' = import /\ cell' = cell + 1 /\ output' = output
    BY <1>1
  <2> QED
    BY <2>1, <2>2 DEF ImportOK
<1>4. /\ found' \in Seq(FaceType)
      /\ DOMAIN found \subseteq DOMAIN found'
      /\ \A i \in DOMAIN found : found'[i] = IF Meets(found[i]) THEN [found[i] EXCEPT !.neighbour = cell]
                                             ELSE found[i]
      /\ \A i \in DOMAIN found' \ DOMAIN found : \E r \in new : found'[i] = Face(Rings[r])
      /\ \A r \in new : \E i \in DOMAIN found' : found'[i] = Face(Rings[r])
      /\ \A i, j \in DOMAIN found' \ DOMAIN found : \A r \in new :
           found'[i] = Face(Rings[r]) /\ found'[j] = Face(Rings[r]) => i = j
  BY AddCellFacts DEF FoundOK
<1>5. /\ Rings \in Seq(RingType) /\ Rings = import.cells[cell].rings
      /\ \A i, j \in DOMAIN Rings : Rings[i].key = Rings[j].key => i = j
  BY <1>1, ImportTypes DEF ImportOK, Rings
<1>6. cell \in Nat /\ cell # 0
  BY <1>1, <1>2
<1>7. \A i \in DOMAIN found : found[i] \in FaceType
  BY EntryIn DEF FoundOK
<1>8. \A i \in DOMAIN found : /\ found'[i].key = found[i].key /\ found'[i].owner = found[i].owner
                              /\ found'[i].sense = found[i].sense
                              /\ found'[i].neighbour = IF Meets(found[i]) THEN cell ELSE found[i].neighbour
  BY <1>4, <1>7 DEF FaceType
<1>9. \A r \in new : /\ r \in DOMAIN Rings /\ Rings[r] \in RingType /\ Rings[r].key \notin KeysOf(found)
                     /\ Rings[r].key \in KeysOf(Rings)
  BY <1>5, EntryIn DEF KeysOf
<1>10. \A r \in new : /\ Face(Rings[r]).key = Rings[r].key /\ Face(Rings[r]).sense = Rings[r].sense
                      /\ Face(Rings[r]).owner = cell /\ Face(Rings[r]).neighbour = NoNeighbour
  BY DEF Face
<1>11. \A r \in DOMAIN Rings : Rings[r].key \in KeysOf(Rings)
  BY DEF KeysOf
<1>12. \A k : \A d \in Seen(k) : d \in Nat /\ d < cell /\ d # 0
  BY <1>1, SeenGrows
<1>13. ASSUME NEW i \in DOMAIN found
       PROVE  FoundRight(found[i])'
  <2>0. PICK g, h : g = found[i] /\ h = found'[i]
    OBVIOUS
  <2>1. /\ h.key = g.key /\ h.owner = g.owner /\ h.sense = g.sense
        /\ h.neighbour = IF Meets(g) THEN cell ELSE g.neighbour
    BY <1>8, <2>0
  <2>2. /\ g.owner \in Seen(g.key)
        /\ \A d \in Seen(g.key) : g.owner <= d
        /\ IF g.neighbour = NoNeighbour THEN \A d \in Seen(g.key) : d = g.owner
           ELSE /\ g.neighbour \in Seen(g.key) /\ g.neighbour # g.owner
                /\ \A d \in Seen(g.key) : d # g.owner => g.neighbour <= d
        /\ \E r \in DOMAIN import.cells[g.owner].rings :
             import.cells[g.owner].rings[r] = [key |-> g.key, sense |-> g.sense]
    BY <2>0 DEF FoundOK, FoundRight
  <2>3. /\ g.key \in KeysOf(Rings) => \A d : d \in Seen(g.key)' <=> d \in Seen(g.key) \/ d = cell
        /\ g.key \notin KeysOf(Rings) => Seen(g.key)' = Seen(g.key)
    BY <1>1, SeenGrows
  <2>4. \A d \in Seen(g.key) : d \in Nat /\ d < cell /\ d # 0
    BY <1>12
  <2>5. /\ g.owner \in Seen(g.key)'
        /\ \A d \in Seen(g.key)' : g.owner <= d
        /\ IF h.neighbour = NoNeighbour THEN \A d \in Seen(g.key)' : d = g.owner
           ELSE /\ h.neighbour \in Seen(g.key)' /\ h.neighbour # g.owner
                /\ \A d \in Seen(g.key)' : d # g.owner => h.neighbour <= d
    <3>1. CASE g.key \notin KeysOf(Rings)
      <4>1. h.neighbour = g.neighbour
        BY <2>1, <3>1 DEF Meets
      <4> QED
        BY <2>2, <2>3, <3>1, <4>1
    <3>2. CASE g.key \in KeysOf(Rings) /\ g.neighbour = NoNeighbour
      <4>1. h.neighbour = cell /\ cell # NoNeighbour
        BY <1>6, <2>1, <3>2 DEF Meets, NoNeighbour
      <4>2. \A d : d \in Seen(g.key)' <=> d = g.owner \/ d = cell
        BY <2>2, <2>3, <3>2
      <4>3. g.owner \in Nat /\ g.owner < cell
        BY <2>2, <2>4
      <4> QED
        BY <1>6, <4>1, <4>2, <4>3
    <3>3. CASE g.key \in KeysOf(Rings) /\ g.neighbour # NoNeighbour
      <4>1. h.neighbour = g.neighbour
        BY <2>1, <3>3 DEF Meets
      <4>2. g.owner \in Nat /\ g.owner < cell /\ g.neighbour \in Nat /\ g.neighbour < cell
        BY <2>2, <2>4, <3>3
      <4> QED
        BY <1>6, <2>2, <2>3, <3>3, <4>1, <4>2
    <3> QED
      BY <3>1, <3>2, <3>3
  <2>6. import' = import
    BY <1>1
  <2>7. \E r \in DOMAIN import'.cells[h.owner].rings :
          import'.cells[h.owner].rings[r] = [key |-> h.key, sense |-> h.sense]
    BY <2>1, <2>2, <2>6
  <2>8. FoundRight(h)'
    BY <2>1, <2>5, <2>7 DEF FoundRight
  <2> QED
    BY <2>0, <2>8 DEF FoundRight
<1>14. ASSUME NEW i \in DOMAIN found' \ DOMAIN found
       PROVE  FoundRight(found[i])' /\ found'[i].key \notin KeysOf(found)
  <2>0. PICK h : h = found'[i]
    OBVIOUS
  <2>1. PICK r \in new : h = Face(Rings[r])
    BY <1>4, <2>0
  <2>2. /\ h.key = Rings[r].key /\ h.sense = Rings[r].sense
        /\ h.owner = cell /\ h.neighbour = NoNeighbour
    BY <1>10, <2>1
  <2>3. h.key \notin KeysOf(found) /\ h.key \in KeysOf(Rings) /\ r \in DOMAIN Rings /\ Rings[r] \in RingType
    BY <1>9, <2>2
  <2>4. Seen(h.key) = {}
    <3>1. SUFFICES ASSUME NEW d \in Seen(h.key) PROVE FALSE
      OBVIOUS
    <3>2. d \in DOMAIN import.cells /\ h.key \in KeysOf(import.cells[d].rings) /\ d < cell
      BY DEF Seen, CellsWith
    <3> QED
      BY <2>3, <3>2 DEF FoundOK
  <2>5. \A d : d \in Seen(h.key)' <=> d = cell
    BY <1>1, <2>3, <2>4, SeenGrows
  <2>6. Rings[r] = [key |-> h.key, sense |-> h.sense]
    BY <2>2, <2>3 DEF RingType
  <2>7. import'.cells[h.owner].rings = Rings
    BY <1>1, <1>5, <2>2
  <2>8. FoundRight(h)'
    <3>1. h.owner \in Seen(h.key)' /\ \A d \in Seen(h.key)' : d = h.owner
      BY <2>2, <2>5
    <3>2. \A d \in Seen(h.key)' : h.owner <= d
      BY <1>6, <2>2, <2>5
    <3>3. \E q \in DOMAIN import'.cells[h.owner].rings :
            import'.cells[h.owner].rings[q] = [key |-> h.key, sense |-> h.sense]
      BY <2>3, <2>6, <2>7
    <3> QED
      BY <2>2, <3>1, <3>2, <3>3 DEF FoundRight
  <2> QED
    BY <2>0, <2>3, <2>8 DEF FoundRight
<1>15. \A i \in DOMAIN found' : FoundRight(found[i])'
  BY <1>4, <1>13, <1>14
<1>16. \A i, j \in DOMAIN found' : found'[i].key = found'[j].key => i = j
  <2>1. SUFFICES ASSUME NEW i \in DOMAIN found', NEW j \in DOMAIN found', found'[i].key = found'[j].key
                 PROVE  i = j
    OBVIOUS
  <2>2. \A l \in DOMAIN found : found'[l].key \in KeysOf(found)
    BY <1>8 DEF KeysOf
  <2>3. CASE i \in DOMAIN found /\ j \in DOMAIN found
    BY <1>8, <2>1, <2>3 DEF FoundOK
  <2>4. CASE i \notin DOMAIN found /\ j \notin DOMAIN found
    <3>1. PICK q \in new : found'[i] = Face(Rings[q])
      BY <1>4, <2>4
    <3>2. PICK r \in new : found'[j] = Face(Rings[r])
      BY <1>4, <2>4
    <3>3. q = r
      BY <1>5, <1>9, <1>10, <2>1, <3>1, <3>2
    <3> QED
      BY <1>4, <2>4, <3>1, <3>2, <3>3
  <2> QED
    BY <1>14, <2>1, <2>2, <2>3, <2>4
<1>17. ASSUME NEW c \in DOMAIN import.cells, c < cell + 1, NEW k \in KeysOf(import.cells[c].rings)
       PROVE  k \in KeysOf(found')
  <2>1. KeysOf(found) \subseteq KeysOf(found')
    BY <1>4, <1>8 DEF KeysOf
  <2>2. CASE c < cell
    BY <1>17, <2>1, <2>2 DEF FoundOK
  <2>3. CASE c = cell
    <3>1. PICK r \in DOMAIN Rings : Rings[r].key = k
      BY <1>5, <1>17, <2>3 DEF KeysOf
    <3>2. CASE r \in new
      BY <1>4, <1>10, <3>1, <3>2 DEF KeysOf
    <3>3. CASE r \notin new
      BY <2>1, <3>1, <3>3
    <3> QED
      BY <3>2, <3>3
  <2> QED
    BY <1>2, <1>6, <1>17, <2>2, <2>3
<1>18. \A c \in DOMAIN import'.cells : c < cell' => KeysOf(import'.cells[c].rings) \subseteq KeysOf(found')
  BY <1>1, <1>17
<1>19. FoundOK'
  BY <1>4, <1>15, <1>16, <1>18 DEF FoundOK, KeysOf
<1> QED
  BY <1>3, <1>19
-----------------------------------------------------------------------------
(***************************************************************************)
(* The order of the patches.                                               *)
(***************************************************************************)
FacesTyped == import \in Imports /\ found \in Seq(FaceType)

LEMMA OuterFaces ==
  ASSUME FacesTyped
  PROVE  /\ DOMAIN found \in SUBSET Int /\ IsFiniteSet(DOMAIN found)
         /\ DOMAIN found = 1 .. Len(found) /\ Len(found) \in Nat
         /\ Boundary \in SUBSET DOMAIN found
         /\ \A T \in SUBSET DOMAIN found : T \in SUBSET Int /\ IsFiniteSet(T)
<1>1. DOMAIN found = 1 .. Len(found) /\ Len(found) \in Nat
  BY DEF FacesTyped
<1>2. IsFiniteSet(DOMAIN found) /\ DOMAIN found \in SUBSET Int
  BY <1>1, UpTo
<1>3. \A T \in SUBSET DOMAIN found : T \in SUBSET Int /\ IsFiniteSet(T)
  BY <1>2, FS_Subset
<1> QED
  BY <1>1, <1>2, <1>3 DEF Boundary

LEMMA NameIn ==
  ASSUME import \in Imports, NEW g
  PROVE  PatchName(g) \in Words
<1>1. CASE SurfacesOf(g.key) = {}
  BY <1>1, TopologyAssumption DEF PatchName
<1>2. CASE SurfacesOf(g.key) # {}
  <2>1. Surfaces \in Seq(SurfaceType)
    BY ImportTypes
  <2>2. DOMAIN Surfaces = 1 .. Len(Surfaces) /\ Len(Surfaces) \in Nat
    BY <2>1
  <2>3. SurfacesOf(g.key) \in SUBSET (1 .. Len(Surfaces)) /\ IsFiniteSet(1 .. Len(Surfaces))
    BY <2>2, UpTo DEF SurfacesOf
  <2>4. SurfacesOf(g.key) \in SUBSET Int /\ IsFiniteSet(SurfacesOf(g.key))
    BY <2>2, <2>3, FS_Subset
  <2>5. Highest(SurfacesOf(g.key)) \in DOMAIN Surfaces
    BY <1>2, <2>4, HighestFacts DEF SurfacesOf
  <2>6. Surfaces[Highest(SurfacesOf(g.key))] \in SurfaceType
    BY <2>1, <2>5, EntryIn
  <2>7. Surfaces[Highest(SurfacesOf(g.key))].tag \in DOMAIN TagName
    BY <2>6 DEF SurfaceType
  <2>8. TagName[Surfaces[Highest(SurfacesOf(g.key))].tag] \in Words
    BY <2>7, TopologyAssumption
  <2> QED
    BY <1>2, <2>8 DEF PatchName
<1> QED
  BY <1>1, <1>2

LEMMA NameOrderFacts ==
  /\ \A n \in Words : NameOrder(n) \in Nat
  /\ \A m, n \in Words : NameOrder(m) = NameOrder(n) => m = n
<1>1. Listed \in Seq(DOMAIN TagName)
  BY TopologyAssumption
<1>2. DOMAIN Listed = 1 .. Len(Listed) /\ Len(Listed) \in Nat
  BY <1>1
<1>3. ASSUME NEW n \in Words, ListedAs(n) # {}
      PROVE  NameOrder(n) \in 1 .. Len(Listed) /\ TagName[Listed[NameOrder(n)]] = n
  <2>1. ListedAs(n) \in SUBSET (1 .. Len(Listed)) /\ IsFiniteSet(1 .. Len(Listed))
    BY <1>2, UpTo DEF ListedAs
  <2>2. ListedAs(n) \in SUBSET Int /\ IsFiniteSet(ListedAs(n))
    BY <1>2, <2>1, FS_Subset
  <2>3. Lowest(ListedAs(n)) \in ListedAs(n)
    BY <1>3, <2>2, LowestFacts
  <2> QED
    BY <1>2, <1>3, <2>3 DEF NameOrder, ListedAs
<1>4. ASSUME NEW n \in Words, ListedAs(n) = {}
      PROVE  NameOrder(n) = Len(Listed) + NameRank[n] /\ NameRank[n] \in Nat /\ NameRank[n] # 0
  BY <1>4, NameAssumption DEF NameOrder
<1>5. \A n \in Words : NameOrder(n) \in Nat
  <2>1. TAKE n \in Words
  <2>2. CASE ListedAs(n) # {}
    BY <1>2, <1>3, <2>2
  <2>3. CASE ListedAs(n) = {}
    BY <1>2, <1>4, <2>3
  <2> QED
    BY <2>2, <2>3
<1>6. ASSUME NEW m \in Words, NEW n \in Words, NameOrder(m) = NameOrder(n)
      PROVE  m = n
  <2>1. CASE ListedAs(m) # {} /\ ListedAs(n) # {}
    BY <1>3, <1>6, <2>1
  <2>2. CASE ListedAs(m) = {} /\ ListedAs(n) = {}
    <3>1. NameRank[m] = NameRank[n]
      BY <1>2, <1>4, <1>6, <2>2
    <3> QED
      BY <3>1, NameAssumption
  <2>3. CASE ListedAs(m) # {} /\ ListedAs(n) = {}
    BY <1>2, <1>3, <1>4, <1>6, <2>3
  <2>4. CASE ListedAs(m) = {} /\ ListedAs(n) # {}
    BY <1>2, <1>3, <1>4, <1>6, <2>4
  <2> QED
    BY <2>1, <2>2, <2>3, <2>4
<1> QED
  BY <1>5, <1>6

\* The values of a function on a finite set.
LEMMA ValuesFinite ==
  ASSUME NEW S, IsFiniteSet(S), NEW f, DOMAIN f = S
  PROVE  IsFiniteSet({f[x] : x \in S})
<1> DEFINE g == [x \in S |-> f[x]]
           T == {f[x] : x \in S}
<1>1. g \in [S -> T]
  OBVIOUS
<1>2. \A t \in T : \E x \in S : g[x] = t
  OBVIOUS
<1> HIDE DEF g, T
<1>3. g \in Surjection(S, T)
  BY <1>1, <1>2 DEF Surjection
<1>4. IsFiniteSet(T)
  BY <1>3, FS_Surjection
<1> QED
  BY <1>4 DEF T

LEMMA PatchOrderFacts ==
  ASSUME FacesTyped
  PROVE  /\ PatchOrder \in Seq(Words)
         /\ \A p \in DOMAIN PatchOrder : PatchOrder[p] \in PatchNames
         /\ \A p, q \in DOMAIN PatchOrder : PatchOrder[p] = PatchOrder[q] => p = q
         /\ \A n \in PatchNames : \E p \in DOMAIN PatchOrder : PatchOrder[p] = n
<1> DEFINE name == [i \in Boundary |-> PatchName(found[i])]
           numbers == [n \in PatchNames |-> NameOrder(n)]
           N == {NameOrder(n) : n \in PatchNames}
           order == InOrder(N)
<1>1. PatchNames \subseteq Words
  BY NameIn DEF PatchNames, FacesTyped
<1>2. IsFiniteSet(PatchNames)
  <2>1. IsFiniteSet(Boundary) /\ DOMAIN name = Boundary
    BY OuterFaces
  <2>2. PatchNames = {name[i] : i \in Boundary}
    BY DEF PatchNames
  <2> HIDE DEF name
  <2> QED
    BY <2>1, <2>2, ValuesFinite
<1>3. IsFiniteSet(N)
  <2>1. N = {numbers[n] : n \in PatchNames} /\ DOMAIN numbers = PatchNames
    OBVIOUS
  <2> HIDE DEF N, numbers
  <2> QED
    BY <1>2, <2>1, ValuesFinite
<1>4. N \in SUBSET Int
  BY <1>1, NameOrderFacts
<1>5. \A m, n \in PatchNames : NameOrder(m) = NameOrder(n) => m = n
  BY <1>1, NameOrderFacts
<1>6. \A x \in N : \E n \in PatchNames : NameOrder(n) = x
  OBVIOUS
<1>7. \A n \in PatchNames : NameOrder(n) \in N
  OBVIOUS
<1>8. PatchOrder = [p \in DOMAIN order |-> CHOOSE n \in PatchNames : NameOrder(n) = order[p]]
  BY DEF PatchOrder
<1> HIDE DEF N
<1>9. /\ DOMAIN order = 1 .. Cardinality(N) /\ Cardinality(N) \in Nat
      /\ \A p \in DOMAIN order : order[p] \in N
      /\ \A p, q \in DOMAIN order : order[p] = order[q] => p = q
      /\ \A x \in N : \E p \in DOMAIN order : order[p] = x
  BY <1>3, <1>4, InOrderFacts
<1> HIDE DEF order
<1>10. ASSUME NEW p \in DOMAIN order
       PROVE  PatchOrder[p] \in PatchNames /\ NameOrder(PatchOrder[p]) = order[p]
  <2>1. PatchOrder[p] = CHOOSE n \in PatchNames : NameOrder(n) = order[p]
    BY <1>8
  <2>2. \E n \in PatchNames : NameOrder(n) = order[p]
    BY <1>6, <1>9
  <2> QED
    BY <2>1, <2>2
<1>11. DOMAIN PatchOrder = 1 .. Cardinality(N) /\ DOMAIN PatchOrder = DOMAIN order
  BY <1>8, <1>9
<1>12. PatchOrder \in Seq(Words)
  <2>1. \A p \in 1 .. Cardinality(N) : PatchOrder[p] \in Words
    BY <1>1, <1>10, <1>11
  <2>2. PatchOrder = [p \in 1 .. Cardinality(N) |-> PatchOrder[p]]
    BY <1>8, <1>11
  <2>3. PatchOrder \in [1 .. Cardinality(N) -> Words]
    BY <2>1, <2>2
  <2> QED
    BY <1>9, <2>3
<1>13. \A n \in PatchNames : \E p \in DOMAIN PatchOrder : PatchOrder[p] = n
  <2>1. TAKE n \in PatchNames
  <2>2. PICK p \in DOMAIN order : order[p] = NameOrder(n)
    BY <1>7, <1>9
  <2> QED
    BY <1>5, <1>10, <1>11, <2>2
<1>14. \A p, q \in DOMAIN PatchOrder : PatchOrder[p] = PatchOrder[q] => p = q
  BY <1>9, <1>10, <1>11
<1> QED
  BY <1>10, <1>11, <1>12, <1>13, <1>14

-----------------------------------------------------------------------------
(***************************************************************************)
(* Sequences put one after the other.                                      *)
(***************************************************************************)
LEMMA NatInduction2 ==
  ASSUME NEW S, 0 \in S, \A n \in Nat : n \in S => n + 1 \in S
  PROVE  Nat \subseteq S
<1> SUFFICES ASSUME NEW k \in Nat, k \notin S PROVE FALSE
  OBVIOUS
<1> DEFINE T == Nat \ S
<1>1. T \in SUBSET Nat /\ T # {}
  OBVIOUS
<1> HIDE DEF T
<1>2. PICK m \in T : \A l \in T : m <= l
  BY <1>1, LeastOf
<1>3. m \in Nat /\ m \notin S
  BY <1>2 DEF T
<1>4. m # 0 /\ m - 1 \in Nat /\ ~(m <= m - 1)
  BY <1>3
<1>5. m - 1 \in S
  BY <1>2, <1>4 DEF T
<1>6. (m - 1) + 1 = m
  BY <1>3
<1> QED
  BY <1>3, <1>4, <1>5, <1>6

Chain(g, n, a, b) == /\ g = [p \in 0 .. n |-> g[p]] /\ g[0] = a
                     /\ \A p \in 1 .. n : g[p] = g[p - 1] \o b[p]

LEMMA ChainExists ==
  ASSUME NEW a, NEW b, NEW n \in Nat
  PROVE  \E g : Chain(g, n, a, b)
<1> DEFINE S == {k \in Nat : \E g : Chain(g, k, a, b)}
<1>1. 0 \in S
  <2>1. Chain([p \in 0 .. 0 |-> a], 0, a, b)
    BY DEF Chain
  <2> QED
    BY <2>1
<1>2. ASSUME NEW k \in Nat, k \in S
      PROVE  k + 1 \in S
  <2>1. PICK g : Chain(g, k, a, b)
    BY <1>2
  <2> DEFINE h == [p \in 0 .. k + 1 |-> IF p = k + 1 THEN g[k] \o b[p] ELSE g[p]]
  <2>2. h = [p \in 0 .. k + 1 |-> h[p]] /\ h[0] = a
    BY <2>1 DEF Chain
  <2>3. ASSUME NEW p \in 1 .. k + 1
        PROVE  h[p] = h[p - 1] \o b[p]
    <3>1. CASE p = k + 1
      <4>1. p - 1 = k /\ p - 1 \in 0 .. k + 1 /\ p - 1 # k + 1 /\ p \in 0 .. k + 1
        BY <3>1
      <4> QED
        BY <3>1, <4>1
    <3>2. CASE p # k + 1
      <4>1. p \in 1 .. k /\ p - 1 \in 0 .. k + 1 /\ p - 1 # k + 1 /\ p \in 0 .. k + 1
        BY <3>2
      <4>2. h[p] = g[p] /\ h[p - 1] = g[p - 1]
        BY <3>2, <4>1
      <4>3. g[p] = g[p - 1] \o b[p]
        BY <2>1, <4>1 DEF Chain
      <4> QED
        BY <4>2, <4>3
    <3> QED
      BY <3>1, <3>2
  <2> HIDE DEF h
  <2>4. Chain(h, k + 1, a, b)
    BY <2>2, <2>3 DEF Chain
  <2> QED
    BY <2>4
<1> HIDE DEF S
<1>3. Nat \subseteq S
  BY <1>1, <1>2, NatInduction2
<1> QED
  BY <1>3 DEF S

LEMMA FaceIndicesChain ==
  ASSUME FacesTyped
  PROVE  /\ DOMAIN FaceIndices = 0 .. Len(PatchOrder)
         /\ FaceIndices[0] = InternalFaces
         /\ \A p \in DOMAIN PatchOrder :
              FaceIndices[p] = FaceIndices[p - 1] \o FacesOfPatch(PatchOrder[p])
<1> DEFINE P == Len(PatchOrder)
           b == [p \in 1 .. P |-> FacesOfPatch(PatchOrder[p])]
           Solves(f) == f = [p \in 0 .. P |-> IF p = 0 THEN InternalFaces
                                              ELSE f[p - 1] \o FacesOfPatch(PatchOrder[p])]
<1>1. P \in Nat /\ DOMAIN PatchOrder = 1 .. P
  BY PatchOrderFacts
<1> HIDE DEF P
<1>2. PICK g : Chain(g, P, InternalFaces, b)
  BY <1>1, ChainExists
<1>3. Solves(g)
  <2> DEFINE h == [p \in 0 .. P |-> IF p = 0 THEN InternalFaces
                                    ELSE g[p - 1] \o FacesOfPatch(PatchOrder[p])]
  <2>1. ASSUME NEW p \in 0 .. P
        PROVE  g[p] = h[p]
    <3>1. CASE p = 0
      BY <1>2, <3>1 DEF Chain
    <3>2. CASE p # 0
      <4>1. p \in 1 .. P
        BY <1>1, <3>2
      <4>2. g[p] = g[p - 1] \o b[p] /\ b[p] = FacesOfPatch(PatchOrder[p])
        BY <1>2, <4>1 DEF Chain
      <4> QED
        BY <3>2, <4>2
    <3> QED
      BY <3>1, <3>2
  <2>2. g = [p \in 0 .. P |-> g[p]]
    BY <1>2 DEF Chain
  <2>3. [p \in 0 .. P |-> g[p]] = h
    BY <2>1
  <2> QED
    BY <2>2, <2>3
<1>4. FaceIndices = CHOOSE f : Solves(f)
  BY Zenon DEF FaceIndices, P
<1> HIDE DEF Solves
<1>5. Solves(FaceIndices)
  BY <1>3, <1>4
<1>6. FaceIndices = [p \in 0 .. P |-> IF p = 0 THEN InternalFaces
                                      ELSE FaceIndices[p - 1] \o FacesOfPatch(PatchOrder[p])]
  BY <1>5 DEF Solves
<1>7. DOMAIN FaceIndices = 0 .. P
  BY <1>6
<1>8. \A p \in 0 .. P : FaceIndices[p] = IF p = 0 THEN InternalFaces
                                         ELSE FaceIndices[p - 1] \o FacesOfPatch(PatchOrder[p])
  BY <1>6
<1>9. 0 \in 0 .. P /\ \A p \in 1 .. P : p \in 0 .. P /\ p # 0
  BY <1>1
<1> QED
  BY <1>1, <1>7, <1>8, <1>9 DEF P

\* A face that is laid when the patches up to p are, and the places of patch q.
IsLaid(p, i) == \/ i \in DOMAIN found \ Boundary
                \/ \E q \in 1 .. p : i \in Boundary /\ PatchName(found[i]) = PatchOrder[q]
PlaceOfPatch(q, n) == Len(FaceIndices[q - 1]) < n /\ n <= Len(FaceIndices[q])

LaidOnce(p) ==
  /\ FaceIndices[p] \in Seq(DOMAIN found)
  /\ \A m, n \in DOMAIN FaceIndices[p] : FaceIndices[p][m] = FaceIndices[p][n] => m = n
  /\ \A n \in DOMAIN FaceIndices[p] : IsLaid(p, FaceIndices[p][n])
  /\ \A i \in DOMAIN found : IsLaid(p, i) => \E n \in DOMAIN FaceIndices[p] : FaceIndices[p][n] = i
InternalLaid(p) ==
  /\ Len(InternalFaces) <= Len(FaceIndices[p])
  /\ \A n \in DOMAIN InternalFaces : FaceIndices[p][n] = InternalFaces[n]
  /\ \A n \in DOMAIN FaceIndices[p] : n <= Len(InternalFaces) \/ \E q \in 1 .. p : PlaceOfPatch(q, n)
PatchLaid(q, p) ==
  /\ Len(FaceIndices[q - 1]) \in Nat
  /\ Len(FaceIndices[q]) = Len(FaceIndices[q - 1]) + Len(FacesOfPatch(PatchOrder[q]))
  /\ Len(InternalFaces) <= Len(FaceIndices[q - 1]) /\ Len(FaceIndices[q]) <= Len(FaceIndices[p])
  /\ \A n \in DOMAIN FaceIndices[p] : PlaceOfPatch(q, n) =>
       FaceIndices[p][n] \in Boundary /\ PatchName(found[FaceIndices[p][n]]) = PatchOrder[q]

LEMMA InternalFacts ==
  ASSUME FacesTyped
  PROVE  /\ InternalFaces \in Seq(DOMAIN found)
         /\ \A n \in DOMAIN InternalFaces : InternalFaces[n] \in DOMAIN found \ Boundary
         /\ \A m, n \in DOMAIN InternalFaces : InternalFaces[m] = InternalFaces[n] => m = n
         /\ \A i \in DOMAIN found \ Boundary : \E n \in DOMAIN InternalFaces : InternalFaces[n] = i
<1> DEFINE T == DOMAIN found \ Boundary
<1>1. T \in SUBSET Int /\ IsFiniteSet(T)
  BY OuterFaces
<1>2. InternalFaces = InOrder(T) /\ T \subseteq DOMAIN found
  BY DEF InternalFaces
<1> HIDE DEF T
<1>3. /\ InternalFaces \in Seq(T)
      /\ \A n \in DOMAIN InternalFaces : InternalFaces[n] \in T
      /\ \A m, n \in DOMAIN InternalFaces : InternalFaces[m] = InternalFaces[n] => m = n
      /\ \A i \in T : \E n \in DOMAIN InternalFaces : InternalFaces[n] = i
  BY <1>1, <1>2, InOrderFacts
<1>4. InternalFaces \in Seq(DOMAIN found)
  BY <1>2, <1>3, WiderSeq
<1> QED
  BY <1>3, <1>4 DEF T

LEMMA FacesOfPatchFacts ==
  ASSUME FacesTyped, NEW p
  PROVE  /\ FacesOfPatch(p) \in Seq(DOMAIN found)
         /\ \A n \in DOMAIN FacesOfPatch(p) :
              /\ FacesOfPatch(p)[n] \in Boundary
              /\ PatchName(found[FacesOfPatch(p)[n]]) = p
         /\ \A m, n \in DOMAIN FacesOfPatch(p) : FacesOfPatch(p)[m] = FacesOfPatch(p)[n] => m = n
         /\ \A i \in Boundary : PatchName(found[i]) = p =>
              \E n \in DOMAIN FacesOfPatch(p) : FacesOfPatch(p)[n] = i
<1> DEFINE T == {i \in Boundary : PatchName(found[i]) = p}
<1>1. T \in SUBSET Int /\ IsFiniteSet(T) /\ T \subseteq DOMAIN found
  BY OuterFaces
<1>2. FacesOfPatch(p) = InOrder(T)
  BY DEF FacesOfPatch
<1>3. \A i : i \in T <=> i \in Boundary /\ PatchName(found[i]) = p
  OBVIOUS
<1> HIDE DEF T
<1>4. /\ FacesOfPatch(p) \in Seq(T)
      /\ \A n \in DOMAIN FacesOfPatch(p) : FacesOfPatch(p)[n] \in T
      /\ \A m, n \in DOMAIN FacesOfPatch(p) : FacesOfPatch(p)[m] = FacesOfPatch(p)[n] => m = n
      /\ \A i \in T : \E n \in DOMAIN FacesOfPatch(p) : FacesOfPatch(p)[n] = i
  BY <1>1, <1>2, InOrderFacts
<1>5. FacesOfPatch(p) \in Seq(DOMAIN found)
  BY <1>1, <1>4, WiderSeq
<1> QED
  BY <1>3, <1>4, <1>5

LEMMA LaidFirst ==
  ASSUME FacesTyped
  PROVE  LaidOnce(0) /\ InternalLaid(0)
<1>1. FaceIndices[0] = InternalFaces
  BY FaceIndicesChain
<1>2. InternalFaces \in Seq(DOMAIN found) /\ Len(InternalFaces) \in Nat
      /\ DOMAIN InternalFaces = 1 .. Len(InternalFaces)
  BY InternalFacts
<1>3. \A i : IsLaid(0, i) <=> i \in DOMAIN found \ Boundary
  BY DEF IsLaid
<1>4. LaidOnce(0)
  BY <1>1, <1>2, <1>3, InternalFacts DEF LaidOnce
<1>5. InternalLaid(0)
  BY <1>1, <1>2 DEF InternalLaid
<1> QED
  BY <1>4, <1>5

LEMMA LaidNext ==
  ASSUME FacesTyped, NEW p \in Nat, p + 1 \in DOMAIN PatchOrder,
         LaidOnce(p), InternalLaid(p), \A q \in 1 .. p : PatchLaid(q, p)
  PROVE  LaidOnce(p + 1) /\ InternalLaid(p + 1) /\ \A q \in 1 .. p + 1 : PatchLaid(q, p + 1)
<1> DEFINE s == FaceIndices[p]
           t == FacesOfPatch(PatchOrder[p + 1])
           u == FaceIndices[p + 1]
           k == Len(InternalFaces)
<1>1. u = s \o t
  <2>1. (p + 1) - 1 = p
    OBVIOUS
  <2> QED
    BY <2>1, FaceIndicesChain
<1>2. /\ s \in Seq(DOMAIN found)
      /\ \A m, n \in DOMAIN s : s[m] = s[n] => m = n
      /\ \A n \in DOMAIN s : IsLaid(p, s[n])
      /\ \A i \in DOMAIN found : IsLaid(p, i) => \E n \in DOMAIN s : s[n] = i
  BY DEF LaidOnce
<1>3. /\ t \in Seq(DOMAIN found)
      /\ \A n \in DOMAIN t : t[n] \in Boundary /\ PatchName(found[t[n]]) = PatchOrder[p + 1]
      /\ \A m, n \in DOMAIN t : t[m] = t[n] => m = n
      /\ \A i \in Boundary : PatchName(found[i]) = PatchOrder[p + 1] => \E n \in DOMAIN t : t[n] = i
  BY FacesOfPatchFacts, Zenon
<1>4. /\ k <= Len(s) /\ \A n \in DOMAIN InternalFaces : s[n] = InternalFaces[n]
      /\ \A n \in DOMAIN s : n <= k \/ \E q \in 1 .. p : PlaceOfPatch(q, n)
  BY DEF InternalLaid
<1>5. k \in Nat /\ DOMAIN InternalFaces = 1 .. k
  BY InternalFacts
<1>6. /\ u \in Seq(DOMAIN found) /\ Len(s) \in Nat /\ Len(t) \in Nat /\ Len(u) = Len(s) + Len(t)
      /\ \A i \in DOMAIN s : i \in DOMAIN u /\ u[i] = s[i] /\ i <= Len(s)
      /\ \A j \in DOMAIN t : Len(s) + j \in DOMAIN u /\ u[Len(s) + j] = t[j]
      /\ \A i \in DOMAIN u : i \in DOMAIN s \/ \E j \in DOMAIN t : i = Len(s) + j
  <2> HIDE DEF s, t, u
  <2>1. Len(s \o t) = Len(s) + Len(t) /\ Len(t) \in Nat
    BY <1>2, <1>3, ConcatProperties
  <2> QED
    BY <1>1, <1>2, <1>3, <2>1, ConcatFacts
<1>7. DOMAIN s = 1 .. Len(s) /\ DOMAIN t = 1 .. Len(t) /\ DOMAIN u = 1 .. Len(s) + Len(t)
  <2> HIDE DEF s, t, u
  <2> QED
    BY <1>2, <1>3, <1>6
<1>8. /\ \A q \in 1 .. p : q \in 1 .. p + 1 /\ q \in DOMAIN PatchOrder /\ q # p + 1
      /\ p + 1 \in 1 .. p + 1
      /\ \A q \in 1 .. p + 1 : q \in 1 .. p \/ q = p + 1
  <2>1. DOMAIN PatchOrder = 1 .. Len(PatchOrder) /\ Len(PatchOrder) \in Nat
    BY PatchOrderFacts
  <2> QED
    BY <2>1
<1>9. \A i : IsLaid(p + 1, i) <=> IsLaid(p, i) \/ (i \in Boundary /\ PatchName(found[i]) = PatchOrder[p + 1])
  BY <1>8 DEF IsLaid
<1>10. \A i : i \in Boundary /\ PatchName(found[i]) = PatchOrder[p + 1] => ~IsLaid(p, i)
  BY <1>8, PatchOrderFacts DEF IsLaid
<1>11. \A n : PlaceOfPatch(p + 1, n) <=> Len(s) < n /\ n <= Len(u)
  <2>1. (p + 1) - 1 = p
    OBVIOUS
  <2> QED
    BY <2>1 DEF PlaceOfPatch
<1> HIDE DEF s, t, u, k
<1>12. \A m, n \in DOMAIN u : u[m] = u[n] => m = n
  <2>1. SUFFICES ASSUME NEW m \in DOMAIN u, NEW n \in DOMAIN u, u[m] = u[n] PROVE m = n
    OBVIOUS
  <2>2. CASE m \in DOMAIN s /\ n \in DOMAIN s
    BY <1>2, <1>6, <2>1, <2>2
  <2>3. ASSUME NEW x \in DOMAIN s, NEW y \in DOMAIN t, u[x] = u[Len(s) + y]
        PROVE  FALSE
    <3>1. u[x] = s[x] /\ u[Len(s) + y] = t[y]
      BY <1>6
    <3>2. IsLaid(p, s[x])
      BY <1>2
    <3>3. ~IsLaid(p, t[y])
      BY <1>3, <1>10
    <3> QED
      BY <2>3, <3>1, <3>2, <3>3
  <2>4. CASE m \in DOMAIN s /\ n \notin DOMAIN s
    BY <1>6, <2>1, <2>3, <2>4
  <2>5. CASE m \notin DOMAIN s /\ n \in DOMAIN s
    BY <1>6, <2>1, <2>3, <2>5
  <2>6. CASE m \notin DOMAIN s /\ n \notin DOMAIN s
    <3>1. PICK x \in DOMAIN t : m = Len(s) + x
      BY <1>6, <2>6
    <3>2. PICK y \in DOMAIN t : n = Len(s) + y
      BY <1>6, <2>6
    <3>3. t[x] = t[y]
      BY <1>6, <2>1, <3>1, <3>2
    <3> QED
      BY <1>3, <3>1, <3>2, <3>3
  <2> QED
    BY <2>2, <2>4, <2>5, <2>6
<1>13. \A n \in DOMAIN u : IsLaid(p + 1, u[n])
  <2>1. TAKE n \in DOMAIN u
  <2>2. CASE n \in DOMAIN s
    BY <1>2, <1>6, <1>9, <2>2
  <2>3. CASE n \notin DOMAIN s
    <3>1. PICK y \in DOMAIN t : n = Len(s) + y
      BY <1>6, <2>3
    <3> QED
      BY <1>3, <1>6, <1>9, <3>1
  <2> QED
    BY <2>2, <2>3
<1>14. \A i \in DOMAIN found : IsLaid(p + 1, i) => \E n \in DOMAIN u : u[n] = i
  <2>1. SUFFICES ASSUME NEW i \in DOMAIN found, IsLaid(p + 1, i) PROVE \E n \in DOMAIN u : u[n] = i
    OBVIOUS
  <2>2. CASE IsLaid(p, i)
    <3>1. PICK n \in DOMAIN s : s[n] = i
      BY <1>2, <2>2
    <3> QED
      BY <1>6, <3>1
  <2>3. CASE i \in Boundary /\ PatchName(found[i]) = PatchOrder[p + 1]
    <3>1. PICK n \in DOMAIN t : t[n] = i
      BY <1>3, <2>3
    <3> QED
      BY <1>6, <3>1
  <2> QED
    BY <1>9, <2>1, <2>2, <2>3
<1>15. LaidOnce(p + 1)
  BY <1>6, <1>12, <1>13, <1>14 DEF LaidOnce, u
<1>16. InternalLaid(p + 1)
  <2>1. k <= Len(u)
    BY <1>4, <1>5, <1>6
  <2>2. \A n \in DOMAIN InternalFaces : u[n] = InternalFaces[n]
    <3>1. TAKE n \in DOMAIN InternalFaces
    <3>2. n \in DOMAIN s
      BY <1>4, <1>5, <1>6, <1>7
    <3> QED
      BY <1>4, <1>6, <3>2
  <2>3. \A n \in DOMAIN u : n <= k \/ \E q \in 1 .. p + 1 : PlaceOfPatch(q, n)
    <3>1. TAKE n \in DOMAIN u
    <3>2. CASE n \in DOMAIN s
      BY <1>4, <1>8, <3>2
    <3>3. CASE n \notin DOMAIN s
      <4>1. Len(s) < n /\ n <= Len(u)
        BY <1>6, <1>7, <3>3
      <4> QED
        BY <1>8, <1>11, <4>1
    <3> QED
      BY <3>2, <3>3
  <2> QED
    BY <2>1, <2>2, <2>3 DEF InternalLaid, u, k
<1>17. ASSUME NEW q \in 1 .. p
       PROVE  PatchLaid(q, p + 1)
  <2>1. /\ Len(FaceIndices[q - 1]) \in Nat
        /\ Len(FaceIndices[q]) = Len(FaceIndices[q - 1]) + Len(FacesOfPatch(PatchOrder[q]))
        /\ k <= Len(FaceIndices[q - 1]) /\ Len(FaceIndices[q]) <= Len(s)
        /\ \A n \in DOMAIN s : PlaceOfPatch(q, n) => s[n] \in Boundary /\ PatchName(found[s[n]]) = PatchOrder[q]
    BY DEF PatchLaid, s, k
  <2>2. FacesOfPatch(PatchOrder[q]) \in Seq(DOMAIN found)
    BY FacesOfPatchFacts
  <2>3. Len(FacesOfPatch(PatchOrder[q])) \in Nat
    BY <2>2
  <2>4. Len(FaceIndices[q]) \in Nat /\ Len(FaceIndices[q]) <= Len(u)
    <3>1. PICK x \in Nat : x = Len(FaceIndices[q - 1])
      BY <2>1
    <3>2. PICK y \in Nat : y = Len(FacesOfPatch(PatchOrder[q]))
      BY <2>3
    <3>3. PICK z : z = Len(FaceIndices[q]) /\ z <= Len(s) /\ z = x + y
      BY <2>1, <3>1, <3>2
    <3>4. z \in Nat
      BY <3>3
    <3>5. z <= Len(u)
      BY <1>6, <3>3, <3>4
    <3> QED
      BY <3>3, <3>4, <3>5
  <2>5. \A n \in DOMAIN u : PlaceOfPatch(q, n) => u[n] \in Boundary /\ PatchName(found[u[n]]) = PatchOrder[q]
    <3>1. SUFFICES ASSUME NEW n \in DOMAIN u, PlaceOfPatch(q, n)
                   PROVE  u[n] \in Boundary /\ PatchName(found[u[n]]) = PatchOrder[q]
      OBVIOUS
    <3>2. n <= Len(FaceIndices[q])
      BY <3>1 DEF PlaceOfPatch
    <3>3. n \in DOMAIN s
      <4>1. n \in Nat /\ n # 0
        BY <1>6, <1>7
      <4>2. PICK z \in Nat : z = Len(FaceIndices[q]) /\ z <= Len(s) /\ n <= z
        BY <2>1, <2>4, <3>2
      <4>3. n <= Len(s)
        BY <1>6, <4>1, <4>2
      <4> QED
        BY <1>6, <1>7, <4>1, <4>3
    <3> QED
      BY <1>6, <2>1, <3>1, <3>3
  <2> QED
    BY <2>1, <2>4, <2>5 DEF PatchLaid, u, k
<1>18. PatchLaid(p + 1, p + 1)
  <2>1. (p + 1) - 1 = p
    OBVIOUS
  <2>2. \A n \in DOMAIN u : PlaceOfPatch(p + 1, n) => u[n] \in Boundary /\ PatchName(found[u[n]]) = PatchOrder[p + 1]
    <3>1. SUFFICES ASSUME NEW n \in DOMAIN u, PlaceOfPatch(p + 1, n)
                   PROVE  u[n] \in Boundary /\ PatchName(found[u[n]]) = PatchOrder[p + 1]
      OBVIOUS
    <3>2. n \notin DOMAIN s
      BY <1>6, <1>7, <1>11, <3>1
    <3>3. PICK y \in DOMAIN t : n = Len(s) + y
      BY <1>6, <3>2
    <3> QED
      BY <1>3, <1>6, <3>3
  <2>3. k <= Len(s) /\ Len(u) <= Len(u)
    BY <1>4, <1>6
  <2> QED
    BY <1>6, <2>1, <2>2, <2>3 DEF PatchLaid, s, t, u, k
<1> QED
  BY <1>8, <1>15, <1>16, <1>17, <1>18

LEMMA LaidAll ==
  ASSUME FacesTyped
  PROVE  LET P == Len(PatchOrder)
         IN  LaidOnce(P) /\ InternalLaid(P) /\ \A q \in 1 .. P : PatchLaid(q, P)
<1> DEFINE P == Len(PatchOrder)
           Right(p) == LaidOnce(p) /\ InternalLaid(p) /\ \A q \in 1 .. p : PatchLaid(q, p)
           S == {p \in Nat : p <= P => Right(p)}
<1>1. P \in Nat /\ DOMAIN PatchOrder = 1 .. P
  BY PatchOrderFacts
<1>2. 0 \in S
  BY LaidFirst
<1>3. ASSUME NEW p \in Nat, p \in S
      PROVE  p + 1 \in S
  <2>1. SUFFICES ASSUME p + 1 <= P PROVE Right(p + 1)
    OBVIOUS
  <2>2. Right(p)
    BY <1>1, <1>3, <2>1
  <2>3. p + 1 \in DOMAIN PatchOrder
    BY <1>1, <2>1
  <2> QED
    BY <2>2, <2>3, LaidNext
<1> HIDE DEF S
<1>4. Nat \subseteq S
  BY <1>2, <1>3, NatInduction2
<1> QED
  BY <1>1, <1>4 DEF S

\* The faces in the order in which they are written.
LEMMA OrderedFacts ==
  ASSUME FacesTyped
  PROVE  /\ Ordered \in Seq(DOMAIN found)
         /\ \A m, n \in DOMAIN Ordered : Ordered[m] = Ordered[n] => m = n
         /\ \A i \in DOMAIN found : \E n \in DOMAIN Ordered : Ordered[n] = i
         /\ Len(InternalFaces) \in Nat /\ Len(InternalFaces) <= Len(Ordered)
         /\ \A n \in DOMAIN InternalFaces : n \in DOMAIN Ordered /\ Ordered[n] = InternalFaces[n]
         /\ \A n \in DOMAIN Ordered : n <= Len(InternalFaces) <=> Ordered[n] \notin Boundary
<1> DEFINE P == Len(PatchOrder)
           k == Len(InternalFaces)
<1>1. P \in Nat /\ DOMAIN PatchOrder = 1 .. P
  BY PatchOrderFacts
<1>2. LaidOnce(P) /\ InternalLaid(P) /\ \A q \in 1 .. P : PatchLaid(q, P)
  BY LaidAll
<1> HIDE DEF P
<1>3. Ordered = FaceIndices[P]
  BY DEF Ordered, P
<1>4. /\ Ordered \in Seq(DOMAIN found)
      /\ \A m, n \in DOMAIN Ordered : Ordered[m] = Ordered[n] => m = n
      /\ \A i \in DOMAIN found : IsLaid(P, i) => \E n \in DOMAIN Ordered : Ordered[n] = i
  BY <1>2, <1>3 DEF LaidOnce
<1>5. \A i \in DOMAIN found : IsLaid(P, i)
  <2>1. TAKE i \in DOMAIN found
  <2>2. CASE i \in Boundary
    <3>1. PatchName(found[i]) \in PatchNames
      BY <2>2 DEF PatchNames
    <3>2. PICK p \in 1 .. P : PatchOrder[p] = PatchName(found[i])
      BY <1>1, <3>1, PatchOrderFacts
    <3> QED
      BY <2>2, <3>2 DEF IsLaid
  <2>3. CASE i \notin Boundary
    BY <2>3 DEF IsLaid
  <2> QED
    BY <2>2, <2>3
<1>6. /\ k \in Nat /\ DOMAIN InternalFaces = 1 .. k
      /\ \A n \in DOMAIN InternalFaces : InternalFaces[n] \in DOMAIN found \ Boundary
  BY InternalFacts
<1>7. /\ k <= Len(Ordered) /\ \A n \in DOMAIN InternalFaces : Ordered[n] = InternalFaces[n]
      /\ \A n \in DOMAIN Ordered : n <= k \/ \E q \in 1 .. P : PlaceOfPatch(q, n)
  BY <1>2, <1>3 DEF InternalLaid
<1>8. DOMAIN Ordered = 1 .. Len(Ordered) /\ Len(Ordered) \in Nat
  BY <1>4
<1> HIDE DEF k
<1>9. \A n \in DOMAIN InternalFaces : n \in DOMAIN Ordered
  BY <1>6, <1>7, <1>8
<1>10. ASSUME NEW n \in DOMAIN Ordered
       PROVE  n <= k <=> Ordered[n] \notin Boundary
  <2>1. CASE n <= k
    <3>1. n \in DOMAIN InternalFaces
      BY <1>6, <1>8, <2>1
    <3> QED
      BY <1>6, <1>7, <2>1, <3>1
  <2>2. CASE ~(n <= k)
    <3>1. PICK q \in 1 .. P : PlaceOfPatch(q, n)
      BY <1>7, <2>2
    <3>2. PatchLaid(q, P)
      BY <1>2
    <3> QED
      BY <1>3, <2>2, <3>1, <3>2 DEF PatchLaid
  <2> QED
    BY <2>1, <2>2
<1> QED
  BY <1>4, <1>5, <1>6, <1>7, <1>9, <1>10 DEF k

WrittenPatch == [name : Words, type : STRING, start : Nat, count : Nat]

LEMMA WrittenFacts ==
  ASSUME FacesTyped
  PROVE  /\ WrittenPatches \in Seq(WrittenPatch)
         /\ DOMAIN WrittenPatches = DOMAIN PatchOrder
         /\ \A p \in DOMAIN WrittenPatches :
              /\ WrittenPatches[p].name = PatchOrder[p]
              /\ Len(InternalFaces) < WrittenPatches[p].start
              /\ WrittenPatches[p].start + WrittenPatches[p].count - 1 <= Len(Ordered)
              /\ \A n \in PatchRange(WrittenPatches[p]) :
                   /\ n \in DOMAIN Ordered /\ Ordered[n] \in Boundary
                   /\ PatchName(found[Ordered[n]]) = PatchOrder[p]
         /\ \A n \in DOMAIN Ordered : Ordered[n] \in Boundary =>
              \E p \in DOMAIN WrittenPatches : n \in PatchRange(WrittenPatches[p])
<1> DEFINE P == Len(PatchOrder)
           k == Len(InternalFaces)
<1>1. P \in Nat /\ DOMAIN PatchOrder = 1 .. P /\ \A p \in 1 .. P : PatchOrder[p] \in Words
  <2>1. PatchOrder \in Seq(Words)
    BY PatchOrderFacts
  <2> QED
    BY <2>1, EntryIn
<1>2. InternalLaid(P) /\ \A q \in 1 .. P : PatchLaid(q, P)
  BY LaidAll
<1>3. /\ k \in Nat /\ Ordered \in Seq(DOMAIN found)
      /\ DOMAIN Ordered = 1 .. Len(Ordered) /\ Len(Ordered) \in Nat
      /\ \A n \in DOMAIN Ordered : n <= Len(InternalFaces) <=> Ordered[n] \notin Boundary
  BY OrderedFacts
<1> HIDE DEF P
<1>4. Ordered = FaceIndices[P]
  BY DEF Ordered, P
<1>5. DOMAIN WrittenPatches = 1 .. P
  BY <1>1 DEF WrittenPatches
<1>6. ASSUME NEW p \in 1 .. P
      PROVE  /\ WrittenPatches[p] \in WrittenPatch
             /\ WrittenPatches[p].name = PatchOrder[p]
             /\ Len(InternalFaces) < WrittenPatches[p].start
             /\ WrittenPatches[p].start + WrittenPatches[p].count - 1 <= Len(Ordered)
             /\ \A n \in PatchRange(WrittenPatches[p]) : n \in DOMAIN Ordered
             /\ \A n \in DOMAIN Ordered : n \in PatchRange(WrittenPatches[p]) <=> PlaceOfPatch(p, n)
  <2>1. PICK x, y, z : /\ x = Len(FaceIndices[p - 1]) /\ y = Len(FacesOfPatch(PatchOrder[p]))
                       /\ z = Len(FaceIndices[p])
    OBVIOUS
  <2>2. x \in Nat /\ z = x + y /\ k <= x /\ z <= Len(Ordered)
    BY <1>2, <1>4, <2>1 DEF PatchLaid
  <2>3. y \in Nat
    <3>1. FacesOfPatch(PatchOrder[p]) \in Seq(DOMAIN found)
      BY FacesOfPatchFacts
    <3> QED
      BY <2>1, <3>1
  <2>4. WrittenPatches[p] = [name |-> PatchOrder[p], type |-> PatchType[PatchOrder[p]], start |-> 1 + x, count |-> y]
    BY <1>1, <2>1 DEF WrittenPatches
  <2>5. PatchType[PatchOrder[p]] \in STRING
    BY <1>1, TopologyAssumption
  <2>6. WrittenPatches[p] \in WrittenPatch
    BY <1>1, <2>2, <2>3, <2>4, <2>5 DEF WrittenPatch
  <2>7. /\ WrittenPatches[p].name = PatchOrder[p]
        /\ WrittenPatches[p].start = 1 + x /\ WrittenPatches[p].count = y
    BY <2>4
  <2>8. \A n : PlaceOfPatch(p, n) <=> x < n /\ n <= z
    BY <2>1 DEF PlaceOfPatch
  <2>9. PatchRange(WrittenPatches[p]) = 1 + x .. z
    <3>1. 1 + x + y - 1 = z
      BY <2>2, <2>3
    <3> QED
      BY <2>7, <3>1 DEF PatchRange
  <2>10. z \in Nat
    BY <2>2, <2>3
  <2>11. \A n \in PatchRange(WrittenPatches[p]) : n \in DOMAIN Ordered
    BY <1>3, <2>2, <2>9, <2>10
  <2>12. \A n \in DOMAIN Ordered : n \in PatchRange(WrittenPatches[p]) <=> PlaceOfPatch(p, n)
    BY <1>3, <2>2, <2>8, <2>9, <2>10
  <2>13. k < 1 + x /\ 1 + x + y - 1 <= Len(Ordered)
    BY <1>3, <2>2, <2>3
  <2> QED
    BY <2>6, <2>7, <2>11, <2>12, <2>13
<1>7. WrittenPatches \in Seq(WrittenPatch)
  <2>1. WrittenPatches = [p \in 1 .. P |-> WrittenPatches[p]]
    BY <1>1 DEF WrittenPatches
  <2>2. WrittenPatches \in [1 .. P -> WrittenPatch]
    BY <1>6, <2>1
  <2> QED
    BY <1>1, <2>2
<1>8. ASSUME NEW p \in 1 .. P, NEW n \in PatchRange(WrittenPatches[p])
      PROVE  /\ n \in DOMAIN Ordered /\ Ordered[n] \in Boundary
             /\ PatchName(found[Ordered[n]]) = PatchOrder[p]
  <2>1. n \in DOMAIN Ordered /\ PlaceOfPatch(p, n)
    BY <1>6
  <2>2. PatchLaid(p, P)
    BY <1>2
  <2> QED
    BY <1>4, <2>1, <2>2 DEF PatchLaid
<1>9. ASSUME NEW n \in DOMAIN Ordered, Ordered[n] \in Boundary
      PROVE  \E p \in 1 .. P : n \in PatchRange(WrittenPatches[p])
  <2>1. PICK q \in 1 .. P : PlaceOfPatch(q, n)
    BY <1>2, <1>3, <1>4, <1>9 DEF InternalLaid
  <2> QED
    BY <1>6, <2>1
<1> QED
  BY <1>1, <1>5, <1>6, <1>7, <1>8, <1>9

LEMMA LabelFacts ==
  ASSUME FacesTyped, NEW i \in DOMAIN found
  PROVE  LabelOf(i) \in DOMAIN Ordered /\ Ordered[LabelOf(i)] = i
<1>1. \E n \in DOMAIN Ordered : Ordered[n] = i
  BY OrderedFacts
<1>2. LabelOf(i) = CHOOSE n \in DOMAIN Ordered : Ordered[n] = i
  BY DEF LabelOf
<1> QED
  BY <1>1, <1>2

-----------------------------------------------------------------------------
(***************************************************************************)
(* The zones.                                                              *)
(***************************************************************************)
LabelType == [face : Nat, flip : BOOLEAN]
FaceZoneType == [name : Words, faces : Seq(LabelType)]
CellZoneType == [name : Words, cells : Seq(Nat)]

LEMMA MatchedFacts ==
  ASSUME FacesTyped
  PROVE  /\ \A T \in SUBSET Matched : T \in SUBSET Int /\ IsFiniteSet(T)
         /\ Matched \subseteq DOMAIN Surfaces
         /\ \A s \in Matched : Surfaces[s].tag \in DOMAIN TagName
<1>1. Surfaces \in Seq(SurfaceType)
  BY ImportTypes DEF FacesTyped
<1>2. DOMAIN Surfaces = 1 .. Len(Surfaces) /\ Len(Surfaces) \in Nat
  BY <1>1
<1>3. IsFiniteSet(1 .. Len(Surfaces)) /\ Matched \subseteq 1 .. Len(Surfaces)
  BY <1>2, UpTo DEF Matched
<1>4. \A T \in SUBSET Matched : T \in SUBSET (1 .. Len(Surfaces))
  BY <1>3
<1>5. \A T \in SUBSET Matched : T \in SUBSET Int /\ IsFiniteSet(T)
  <2>1. TAKE T \in SUBSET Matched
  <2>2. T \in SUBSET (1 .. Len(Surfaces))
    BY <1>4
  <2>3. IsFiniteSet(T)
    BY <1>3, <2>2, FS_Subset
  <2> QED
    BY <1>2, <2>2, <2>3
<1>6. \A s \in Matched : Surfaces[s] \in SurfaceType
  BY <1>1, EntryIn DEF Matched
<1> QED
  BY <1>2, <1>3, <1>5, <1>6 DEF SurfaceType

LEMMA ZoneLabelsFacts ==
  ASSUME FacesTyped, NEW t
  PROVE  /\ ZoneLabels(t) \in Seq(LabelType)
         /\ Len(ZoneLabels(t)) = Cardinality(SurfacesTagged(t))
         /\ \A n \in DOMAIN ZoneLabels(t) : ZoneLabels(t)[n].face \in DOMAIN Ordered
         /\ \A s \in SurfacesTagged(t) :
              found[Ordered[ZoneLabels(t)[Place(SurfacesTagged(t), s)].face]].key = Surfaces[s].key
<1> DEFINE T == SurfacesTagged(t)
           mine == InOrder(T)
           At(s) == CHOOSE i \in FacesOfKey(Surfaces[s].key) : TRUE
<1>1. T \in SUBSET Matched
  BY DEF SurfacesTagged
<1>2. T \in SUBSET Int /\ IsFiniteSet(T)
  BY <1>1, MatchedFacts
<1>3. \A s \in T : At(s) \in DOMAIN found /\ found[At(s)].key = Surfaces[s].key
  <2>1. \A s \in T : FacesOfKey(Surfaces[s].key) # {}
    BY <1>1 DEF Matched
  <2>2. \A s \in T : At(s) \in FacesOfKey(Surfaces[s].key)
    BY <2>1
  <2> HIDE DEF At
  <2> QED
    BY <2>2 DEF FacesOfKey
<1>4. ZoneLabels(t) = [n \in DOMAIN mine |-> [face |-> LabelOf(At(mine[n])), flip |-> FALSE]]
  BY DEF ZoneLabels
<1> HIDE DEF T, At
<1>5. /\ DOMAIN mine = 1 .. Cardinality(T) /\ Cardinality(T) \in Nat
      /\ \A s \in T : Place(T, s) \in DOMAIN mine /\ mine[Place(T, s)] = s
      /\ \A n \in DOMAIN mine : mine[n] \in T
  BY <1>2, InOrderFacts
<1> HIDE DEF mine
<1>6. \A s \in T : LabelOf(At(s)) \in DOMAIN Ordered /\ Ordered[LabelOf(At(s))] = At(s)
  BY <1>3, LabelFacts
<1>7. DOMAIN Ordered \subseteq Nat
  <2>1. Ordered \in Seq(DOMAIN found)
    BY OrderedFacts
  <2> QED
    BY <2>1
<1>8. DOMAIN ZoneLabels(t) = 1 .. Cardinality(T)
  BY <1>4, <1>5
<1>9. \A n \in 1 .. Cardinality(T) : ZoneLabels(t)[n] = [face |-> LabelOf(At(mine[n])), flip |-> FALSE]
  BY <1>4, <1>5
<1>10. \A n \in 1 .. Cardinality(T) : /\ ZoneLabels(t)[n] \in LabelType
                                      /\ ZoneLabels(t)[n].face = LabelOf(At(mine[n]))
  <2>1. TAKE n \in 1 .. Cardinality(T)
  <2>2. mine[n] \in T
    BY <1>5
  <2>3. PICK l \in Nat : l = LabelOf(At(mine[n]))
    BY <1>6, <1>7, <2>2
  <2>4. ZoneLabels(t)[n] = [face |-> l, flip |-> FALSE]
    BY <1>9, <2>3
  <2>5. [face |-> l, flip |-> FALSE] \in LabelType
    BY DEF LabelType
  <2> QED
    BY <2>3, <2>4, <2>5
<1>11. ZoneLabels(t) \in Seq(LabelType) /\ Len(ZoneLabels(t)) = Cardinality(T)
  <2>1. ZoneLabels(t) = [n \in 1 .. Cardinality(T) |-> ZoneLabels(t)[n]]
    BY <1>4, <1>5
  <2>2. ZoneLabels(t) \in [1 .. Cardinality(T) -> LabelType]
    BY <1>10, <2>1
  <2> QED
    BY <1>5, <1>8, <2>2
<1>12. \A n \in DOMAIN ZoneLabels(t) : ZoneLabels(t)[n].face \in DOMAIN Ordered
  BY <1>5, <1>6, <1>8, <1>10
<1>13. ASSUME NEW s \in T
       PROVE  found[Ordered[ZoneLabels(t)[Place(T, s)].face]].key = Surfaces[s].key
  <2>1. ZoneLabels(t)[Place(T, s)].face = LabelOf(At(s))
    BY <1>5, <1>10
  <2> QED
    BY <1>3, <1>6, <2>1
<1> QED
  BY <1>11, <1>12, <1>13 DEF T

ZoneTags == {Surfaces[s].tag : s \in Matched}

LEMMA FaceZonesFacts ==
  ASSUME FacesTyped
  PROVE  /\ FaceZones \in Seq(FaceZoneType)
         /\ Len(FaceZones) = Cardinality(ZoneTags)
         /\ \A z \in DOMAIN FaceZones : \E t \in ZoneTags : FaceZones[z].faces = ZoneLabels(t)
         /\ \A t \in ZoneTags : /\ FaceZones[Place(ZoneTags, t)].name = TagName[t]
                                /\ FaceZones[Place(ZoneTags, t)].faces = ZoneLabels(t)
<1> DEFINE T == ZoneTags
           tags == InOrder(T)
           tagAt == [s \in Matched |-> Surfaces[s].tag]
<1>1. T \in SUBSET DOMAIN TagName
  BY MatchedFacts DEF ZoneTags
<1>2. T \in SUBSET Int
  BY <1>1, TopologyAssumption
<1>3. IsFiniteSet(T)
  <2>1. T = {tagAt[s] : s \in Matched} /\ DOMAIN tagAt = Matched
    BY DEF ZoneTags
  <2>2. IsFiniteSet(Matched)
    BY MatchedFacts
  <2> HIDE DEF T, tagAt
  <2> QED
    BY <2>1, <2>2, ValuesFinite
<1>4. FaceZones = [z \in DOMAIN tags |-> [name |-> TagName[tags[z]], faces |-> ZoneLabels(tags[z])]]
  BY DEF FaceZones, ZoneTags
<1> HIDE DEF T
<1>5. /\ DOMAIN tags = 1 .. Cardinality(T) /\ Cardinality(T) \in Nat
      /\ \A t \in T : Place(T, t) \in DOMAIN tags /\ tags[Place(T, t)] = t
      /\ \A z \in DOMAIN tags : tags[z] \in T
  BY <1>2, <1>3, InOrderFacts
<1> HIDE DEF tags
<1>6. DOMAIN FaceZones = 1 .. Cardinality(T)
  BY <1>4, <1>5
<1>7. \A z \in 1 .. Cardinality(T) :
        FaceZones[z] = [name |-> TagName[tags[z]], faces |-> ZoneLabels(tags[z])]
  BY <1>4, <1>5
<1>8. \A z \in 1 .. Cardinality(T) :
        FaceZones[z].name = TagName[tags[z]] /\ FaceZones[z].faces = ZoneLabels(tags[z])
  <2>1. TAKE z \in 1 .. Cardinality(T)
  <2>2. PICK x, y : x = TagName[tags[z]] /\ y = ZoneLabels(tags[z])
    OBVIOUS
  <2>3. FaceZones[z] = [name |-> x, faces |-> y]
    BY <1>7, <2>2
  <2> QED
    BY <2>2, <2>3
<1>9. \A z \in 1 .. Cardinality(T) : FaceZones[z] \in FaceZoneType
  <2>1. TAKE z \in 1 .. Cardinality(T)
  <2>2. TagName[tags[z]] \in Words
    BY <1>1, <1>5, TopologyAssumption
  <2>3. PICK y \in Seq(LabelType) : y = ZoneLabels(tags[z])
    BY ZoneLabelsFacts
  <2>4. PICK x \in Words : x = TagName[tags[z]]
    BY <2>2
  <2>5. FaceZones[z] = [name |-> x, faces |-> y]
    BY <1>7, <2>3, <2>4
  <2> QED
    BY <2>5 DEF FaceZoneType
<1>10. FaceZones \in Seq(FaceZoneType) /\ Len(FaceZones) = Cardinality(T)
  <2>1. FaceZones = [z \in 1 .. Cardinality(T) |-> FaceZones[z]]
    BY <1>4, <1>5
  <2>2. FaceZones \in [1 .. Cardinality(T) -> FaceZoneType]
    BY <1>9, <2>1
  <2> QED
    BY <1>5, <1>6, <2>2
<1>11. \A t \in T : /\ FaceZones[Place(T, t)].name = TagName[t]
                    /\ FaceZones[Place(T, t)].faces = ZoneLabels(t)
  BY <1>5, <1>8
<1>12. \A z \in DOMAIN FaceZones : \E t \in T : FaceZones[z].faces = ZoneLabels(t)
  BY <1>5, <1>6, <1>8
<1> QED
  BY <1>10, <1>11, <1>12 DEF T

CellTags == {import.cells[c].tag : c \in DOMAIN import.cells}

LEMMA CellsTaggedFacts ==
  ASSUME import \in Imports, NEW t
  PROVE  /\ InOrder(CellsTagged(t)) \in Seq(Nat)
         /\ \A i \in DOMAIN InOrder(CellsTagged(t)) : InOrder(CellsTagged(t))[i] \in CellsTagged(t)
         /\ \A c \in CellsTagged(t) : \E i \in DOMAIN InOrder(CellsTagged(t)) : InOrder(CellsTagged(t))[i] = c
         /\ \A i, j \in DOMAIN InOrder(CellsTagged(t)) :
              i < j => InOrder(CellsTagged(t))[i] < InOrder(CellsTagged(t))[j]
<1> DEFINE T == CellsTagged(t)
<1>1. DOMAIN import.cells = 1 .. Len(import.cells) /\ Len(import.cells) \in Nat
  BY ImportTypes
<1>2. T \in SUBSET (1 .. Len(import.cells)) /\ IsFiniteSet(1 .. Len(import.cells))
  BY <1>1, UpTo DEF CellsTagged
<1> HIDE DEF T
<1>3. T \in SUBSET Int /\ T \subseteq Nat /\ IsFiniteSet(T)
  <2>1. IsFiniteSet(T)
    BY <1>2, FS_Subset
  <2> QED
    BY <1>1, <1>2, <2>1
<1>4. /\ InOrder(T) \in Seq(T)
      /\ \A i \in DOMAIN InOrder(T) : InOrder(T)[i] \in T
      /\ \A i, j \in DOMAIN InOrder(T) : i < j => InOrder(T)[i] < InOrder(T)[j]
      /\ \A c \in T : \E i \in DOMAIN InOrder(T) : InOrder(T)[i] = c
  BY <1>3, InOrderFacts
<1>5. InOrder(T) \in Seq(Nat)
  BY <1>3, <1>4, WiderSeq
<1> QED
  BY <1>4, <1>5 DEF T

LEMMA CellZonesFacts ==
  ASSUME import \in Imports
  PROVE  /\ CellZones \in Seq(CellZoneType)
         /\ Len(CellZones) = Cardinality(CellTags)
         /\ \A z \in DOMAIN CellZones : \E t \in CellTags : CellZones[z].cells = InOrder(CellsTagged(t))
         /\ \A t \in CellTags : /\ CellZones[Place(CellTags, t)].name = TagName[t]
                                /\ CellZones[Place(CellTags, t)].cells = InOrder(CellsTagged(t))
<1> DEFINE T == CellTags
           tags == InOrder(T)
           tagAt == [c \in DOMAIN import.cells |-> import.cells[c].tag]
<1>1. T \in SUBSET DOMAIN TagName
  BY ImportTypes DEF CellTags
<1>2. T \in SUBSET Int
  BY <1>1, TopologyAssumption
<1>3. IsFiniteSet(T)
  <2>1. T = {tagAt[c] : c \in DOMAIN import.cells} /\ DOMAIN tagAt = DOMAIN import.cells
    BY DEF CellTags
  <2>2. IsFiniteSet(DOMAIN import.cells)
    BY ImportTypes, UpTo
  <2> HIDE DEF T, tagAt
  <2> QED
    BY <2>1, <2>2, ValuesFinite
<1>4. CellZones = [z \in DOMAIN tags |-> [name |-> TagName[tags[z]], cells |-> InOrder(CellsTagged(tags[z]))]]
  BY DEF CellZones, CellTags
<1> HIDE DEF T
<1>5. /\ DOMAIN tags = 1 .. Cardinality(T) /\ Cardinality(T) \in Nat
      /\ \A t \in T : Place(T, t) \in DOMAIN tags /\ tags[Place(T, t)] = t
      /\ \A z \in DOMAIN tags : tags[z] \in T
  BY <1>2, <1>3, InOrderFacts
<1> HIDE DEF tags
<1>6. DOMAIN CellZones = 1 .. Cardinality(T)
  BY <1>4, <1>5
<1>7. \A z \in 1 .. Cardinality(T) :
        CellZones[z] = [name |-> TagName[tags[z]], cells |-> InOrder(CellsTagged(tags[z]))]
  BY <1>4, <1>5
<1>8. \A z \in 1 .. Cardinality(T) :
        CellZones[z].name = TagName[tags[z]] /\ CellZones[z].cells = InOrder(CellsTagged(tags[z]))
  <2>1. TAKE z \in 1 .. Cardinality(T)
  <2>2. PICK x, y : x = TagName[tags[z]] /\ y = InOrder(CellsTagged(tags[z]))
    OBVIOUS
  <2>3. CellZones[z] = [name |-> x, cells |-> y]
    BY <1>7, <2>2
  <2> QED
    BY <2>2, <2>3
<1>9. \A z \in 1 .. Cardinality(T) : CellZones[z] \in CellZoneType
  <2>1. TAKE z \in 1 .. Cardinality(T)
  <2>2. TagName[tags[z]] \in Words
    BY <1>1, <1>5, TopologyAssumption
  <2>3. PICK y \in Seq(Nat) : y = InOrder(CellsTagged(tags[z]))
    BY CellsTaggedFacts
  <2>4. PICK x \in Words : x = TagName[tags[z]]
    BY <2>2
  <2>5. CellZones[z] = [name |-> x, cells |-> y]
    BY <1>7, <2>3, <2>4
  <2> QED
    BY <2>5 DEF CellZoneType
<1>10. CellZones \in Seq(CellZoneType) /\ Len(CellZones) = Cardinality(T)
  <2>1. CellZones = [z \in 1 .. Cardinality(T) |-> CellZones[z]]
    BY <1>4, <1>5
  <2>2. CellZones \in [1 .. Cardinality(T) -> CellZoneType]
    BY <1>9, <2>1
  <2> QED
    BY <1>5, <1>6, <2>2
<1>11. \A t \in T : /\ CellZones[Place(T, t)].name = TagName[t]
                    /\ CellZones[Place(T, t)].cells = InOrder(CellsTagged(t))
  BY <1>5, <1>8
<1>12. \A z \in DOMAIN CellZones : \E t \in T : CellZones[z].cells = InOrder(CellsTagged(t))
  BY <1>5, <1>6, <1>8
<1> QED
  BY <1>10, <1>11, <1>12 DEF T

-----------------------------------------------------------------------------
(***************************************************************************)
(* The files of the mesh.                                                  *)
(***************************************************************************)
IsTyped(c, S) == c.readable => c.data \in S
FilesTyped ==
  /\ polyMesh = [f \in MeshFiles |-> polyMesh[f]]
  /\ IsTyped(polyMesh["owner"], Seq(Nat)) /\ IsTyped(polyMesh["neighbour"], Seq(Nat))
  /\ IsTyped(polyMesh["boundary"], Seq(WrittenPatch))
  /\ IsTyped(polyMesh["faceZones"], Seq(FaceZoneType))
  /\ IsTyped(polyMesh["cellZones"], Seq(CellZoneType))

IsWritten(i) == polyMesh[CaseFiles[i]] = Reads(MeshContent(CaseFiles[i]))
FilesWritten == faults = 0 =>
  /\ step # "failed"
  /\ step = "files" => \A i \in 1 .. 7 : i < output => IsWritten(i)
  /\ step = "imported" => \A i \in 1 .. 7 : IsWritten(i)

ImportInv == ImportOK /\ FoundOK /\ FilesTyped /\ FilesWritten /\ faults \in Nat

LEMMA NamesOfCaseFiles ==
  /\ DOMAIN CaseFiles = 1 .. 11
  /\ CaseFiles[2] = "faces" /\ CaseFiles[3] = "owner" /\ CaseFiles[4] = "neighbour"
  /\ CaseFiles[5] = "boundary" /\ CaseFiles[6] = "faceZones" /\ CaseFiles[7] = "cellZones"
  /\ \A i, j \in DOMAIN CaseFiles : CaseFiles[i] = CaseFiles[j] => i = j
  /\ \A i \in DOMAIN CaseFiles : CaseFiles[i] \in MeshFiles <=> i <= 7
  /\ MeshFiles = {"points", "faces", "owner", "neighbour", "boundary", "faceZones", "cellZones"}
<1>1. DOMAIN CaseFiles = 1 .. 11
  BY DEF CaseFiles
<1>2. /\ CaseFiles[1] = "points" /\ CaseFiles[2] = "faces" /\ CaseFiles[3] = "owner"
      /\ CaseFiles[4] = "neighbour" /\ CaseFiles[5] = "boundary" /\ CaseFiles[6] = "faceZones"
      /\ CaseFiles[7] = "cellZones" /\ CaseFiles[8] = "controlDict" /\ CaseFiles[9] = "fvSchemes"
      /\ CaseFiles[10] = "fvSolution" /\ CaseFiles[11] = "ferrumMeshSummary.txt"
  BY DEF CaseFiles
<1>3. MeshFiles = {CaseFiles[i] : i \in 1 .. 7}
  BY DEF MeshFiles
<1>4. MeshFiles = {"points", "faces", "owner", "neighbour", "boundary", "faceZones", "cellZones"}
  <2>1. 1 .. 7 = {1, 2, 3, 4, 5, 6, 7}
    OBVIOUS
  <2> QED
    BY <1>2, <1>3, <2>1
<1>5. \A i, j \in 1 .. 11 : CaseFiles[i] = CaseFiles[j] => i = j
  <2>1. \A i \in 1 .. 11 : \/ i = 1 \/ i = 2 \/ i = 3 \/ i = 4 \/ i = 5 \/ i = 6 \/ i = 7
                           \/ i = 8 \/ i = 9 \/ i = 10 \/ i = 11
    OBVIOUS
  <2> QED
    BY <1>2, <2>1
<1>6. \A i \in 1 .. 11 : CaseFiles[i] \in MeshFiles <=> i <= 7
  <2>1. \A i \in 1 .. 11 : \/ i = 1 \/ i = 2 \/ i = 3 \/ i = 4 \/ i = 5 \/ i = 6 \/ i = 7
                           \/ i = 8 \/ i = 9 \/ i = 10 \/ i = 11
    OBVIOUS
  <2> QED
    BY <1>2, <1>4, <2>1
<1> QED
  BY <1>1, <1>2, <1>4, <1>5, <1>6

\* What is left of a list is a list of the same.
LEMMA LeftTyped ==
  ASSUME NEW f, NEW T, NEW d \in Seq(T), NEW c \in {Reads(d)} \cup Torn(f, d)
  PROVE  IsTyped(c, Seq(T))
<1>1. CASE c = Reads(d)
  BY <1>1 DEF Reads, IsTyped
<1>2. CASE c = Unreadable
  BY <1>2 DEF Unreadable, IsTyped
<1>3. CASE \E n \in 0 .. Len(d) : c = Reads(SubSeq(d, 1, n))
  <2>1. PICK n \in 0 .. Len(d) : c = Reads(SubSeq(d, 1, n))
    BY <1>3
  <2>2. SubSeq(d, 1, n) \in Seq(T)
    <3>1. Len(d) \in Nat /\ DOMAIN d = 1 .. Len(d) /\ \A i \in DOMAIN d : d[i] \in T
      OBVIOUS
    <3>2. \A i \in 1 .. n : d[i] \in T
      BY <2>1, <3>1
    <3> QED
      BY <2>1, <3>1, <3>2, SubSeqProperties
  <2> QED
    BY <2>1, <2>2 DEF Reads, IsTyped
<1> QED
  BY <1>1, <1>2, <1>3 DEF Torn

LEMMA ContentFacts ==
  ASSUME FacesTyped
  PROVE  /\ MeshContent("owner") \in Seq(Nat) /\ MeshContent("neighbour") \in Seq(Nat)
         /\ MeshContent("boundary") = WrittenPatches /\ MeshContent("faceZones") = FaceZones
         /\ MeshContent("cellZones") = CellZones
         /\ Len(MeshContent("owner")) = Len(Ordered) /\ DOMAIN MeshContent("owner") = DOMAIN Ordered
         /\ \A n \in DOMAIN Ordered : MeshContent("owner")[n] = found[Ordered[n]].owner
         /\ Len(MeshContent("neighbour")) = Len(InternalFaces)
         /\ DOMAIN MeshContent("neighbour") = DOMAIN InternalFaces
         /\ \A n \in DOMAIN InternalFaces : MeshContent("neighbour")[n] = found[InternalFaces[n]].neighbour
         /\ MeshContent("faces") = [n \in DOMAIN Ordered |-> [key |-> found[Ordered[n]].key,
                                                              sense |-> found[Ordered[n]].sense]]
<1>1. \A i \in DOMAIN found : found[i] \in FaceType
  BY EntryIn DEF FacesTyped
<1>2. \A i \in DOMAIN found : found[i].owner \in Nat /\ found[i].neighbour \in Nat
  BY <1>1 DEF FaceType
<1>3. Ordered \in Seq(DOMAIN found)
  BY OrderedFacts
<1>4. InternalFaces \in Seq(DOMAIN found)
  BY InternalFacts
<1>5. MeshContent("owner") = [n \in DOMAIN Ordered |-> found[Ordered[n]].owner]
  BY DEF MeshContent
<1>6. MeshContent("neighbour") = [n \in DOMAIN InternalFaces |-> found[InternalFaces[n]].neighbour]
  BY DEF MeshContent
<1>7. MeshContent("faces") = [n \in DOMAIN Ordered |-> [key |-> found[Ordered[n]].key,
                                                        sense |-> found[Ordered[n]].sense]]
  BY DEF MeshContent
<1>8. /\ MeshContent("boundary") = WrittenPatches /\ MeshContent("faceZones") = FaceZones
      /\ MeshContent("cellZones") = CellZones
  BY DEF MeshContent
<1>9. /\ MeshContent("owner") \in Seq(Nat) /\ Len(MeshContent("owner")) = Len(Ordered)
      /\ DOMAIN MeshContent("owner") = DOMAIN Ordered
      /\ \A n \in DOMAIN Ordered : MeshContent("owner")[n] = found[Ordered[n]].owner
  <2>1. DOMAIN Ordered = 1 .. Len(Ordered) /\ Len(Ordered) \in Nat /\ \A n \in DOMAIN Ordered : Ordered[n] \in DOMAIN found
    BY <1>3, EntryIn
  <2>2. MeshContent("owner") \in [1 .. Len(Ordered) -> Nat]
    BY <1>2, <1>5, <2>1
  <2>3. \A n \in DOMAIN Ordered : MeshContent("owner")[n] = found[Ordered[n]].owner
    BY <1>5
  <2> QED
    BY <2>1, <2>2, <2>3
<1>10. /\ MeshContent("neighbour") \in Seq(Nat) /\ Len(MeshContent("neighbour")) = Len(InternalFaces)
       /\ DOMAIN MeshContent("neighbour") = DOMAIN InternalFaces
       /\ \A n \in DOMAIN InternalFaces : MeshContent("neighbour")[n] = found[InternalFaces[n]].neighbour
  <2>1. /\ DOMAIN InternalFaces = 1 .. Len(InternalFaces) /\ Len(InternalFaces) \in Nat
        /\ \A n \in DOMAIN InternalFaces : InternalFaces[n] \in DOMAIN found
    BY <1>4, EntryIn
  <2>2. MeshContent("neighbour") \in [1 .. Len(InternalFaces) -> Nat]
    BY <1>2, <1>6, <2>1
  <2>3. \A n \in DOMAIN InternalFaces : MeshContent("neighbour")[n] = found[InternalFaces[n]].neighbour
    BY <1>6
  <2> QED
    BY <2>1, <2>2, <2>3
<1> QED
  BY <1>7, <1>8, <1>9, <1>10

LEMMA PutsTyped ==
  ASSUME FacesTyped, FilesTyped, output \in DOMAIN CaseFiles, NEW c, Puts(c),
         CaseFiles[output] \in MeshFiles =>
           c \in {Reads(MeshContent(CaseFiles[output]))}
                 \cup Torn(CaseFiles[output], MeshContent(CaseFiles[output]))
  PROVE  FilesTyped'
<1> DEFINE F == CaseFiles[output]
<1>1. CASE F \notin MeshFiles
  <2>1. polyMesh' = polyMesh
    BY <1>1 DEF Puts
  <2> QED
    BY <2>1 DEF FilesTyped
<1>2. CASE F \in MeshFiles
  <2>1. polyMesh' = [polyMesh EXCEPT ![F] = c]
    BY <1>2 DEF Puts
  <2>2. polyMesh = [f \in MeshFiles |-> polyMesh[f]]
    BY DEF FilesTyped
  <2>3. DOMAIN polyMesh = MeshFiles
    BY <2>2
  <2>4. polyMesh' = [f \in MeshFiles |-> polyMesh'[f]]
    BY <2>1, <2>3
  <2>5. \A f \in MeshFiles : polyMesh'[f] = IF f = F THEN c ELSE polyMesh[f]
    BY <1>2, <2>1, <2>3
  <2>6. c \in {Reads(MeshContent(F))} \cup Torn(F, MeshContent(F))
    BY <1>2
  <2>7. /\ {"owner", "neighbour", "boundary", "faceZones", "cellZones"} \subseteq MeshFiles
    BY NamesOfCaseFiles
  <2> HIDE DEF F
  <2>8. F = "owner" => IsTyped(c, Seq(Nat))
    BY <2>6, ContentFacts, LeftTyped
  <2>9. F = "neighbour" => IsTyped(c, Seq(Nat))
    BY <2>6, ContentFacts, LeftTyped
  <2>10. F = "boundary" => IsTyped(c, Seq(WrittenPatch))
    BY <2>6, ContentFacts, WrittenFacts, LeftTyped
  <2>11. F = "faceZones" => IsTyped(c, Seq(FaceZoneType))
    BY <2>6, ContentFacts, FaceZonesFacts, LeftTyped
  <2>12. F = "cellZones" => IsTyped(c, Seq(CellZoneType))
    BY <2>6, ContentFacts, CellZonesFacts, LeftTyped DEF FacesTyped
  <2>13. /\ IsTyped(polyMesh'["owner"], Seq(Nat)) /\ IsTyped(polyMesh'["neighbour"], Seq(Nat))
         /\ IsTyped(polyMesh'["boundary"], Seq(WrittenPatch))
         /\ IsTyped(polyMesh'["faceZones"], Seq(FaceZoneType))
         /\ IsTyped(polyMesh'["cellZones"], Seq(CellZoneType))
    BY <2>5, <2>7, <2>8, <2>9, <2>10, <2>11, <2>12 DEF FilesTyped
  <2> QED
    BY <2>4, <2>13 DEF FilesTyped
<1> QED
  BY <1>1, <1>2

\* The contents depend on the mesh that is imported and on its faces.
LEMMA SameOrder ==
  ASSUME import' = import, found' = found
  PROVE  /\ Ordered' = Ordered /\ InternalFaces' = InternalFaces /\ PatchOrder' = PatchOrder
         /\ FaceIndices' = FaceIndices /\ \A n : FacesOfPatch(n)' = FacesOfPatch(n)
<1>1. Boundary' = Boundary
  BY DEF Boundary
<1>2. InternalFaces' = InternalFaces
  BY <1>1 DEF InternalFaces
<1>3. \A g : PatchName(g)' = PatchName(g)
  BY DEF PatchName, SurfacesOf, Surfaces
<1>4. PatchNames' = PatchNames
  BY <1>1, <1>3 DEF PatchNames, PatchName, SurfacesOf, Surfaces
<1>5. PatchOrder' = PatchOrder
  BY <1>4 DEF PatchOrder
<1>6. \A n : FacesOfPatch(n)' = FacesOfPatch(n)
  BY <1>1, <1>3 DEF FacesOfPatch, PatchName, SurfacesOf, Surfaces
<1>7. FaceIndices' = FaceIndices
  BY <1>2, <1>5, <1>6, Zenon DEF FaceIndices
<1>8. Ordered' = Ordered
  BY <1>5, <1>7 DEF Ordered
<1> QED
  BY <1>2, <1>5, <1>6, <1>7, <1>8

LEMMA SameZones ==
  ASSUME import' = import, found' = found
  PROVE  FaceZones' = FaceZones /\ CellZones' = CellZones
<1>1. \A i : LabelOf(i)' = LabelOf(i)
  BY SameOrder DEF LabelOf
<1>2. \A k : FacesOfKey(k)' = FacesOfKey(k)
  BY DEF FacesOfKey
<1>3. Matched' = Matched
  BY DEF Matched, FacesOfKey, Surfaces
<1>4. \A t : SurfacesTagged(t)' = SurfacesTagged(t)
  BY <1>3 DEF SurfacesTagged, Surfaces
<1>5. \A t : ZoneLabels(t)' = ZoneLabels(t)
  BY <1>1, <1>2, <1>4 DEF ZoneLabels, Surfaces
<1>6. FaceZones' = FaceZones
  BY <1>3, <1>5 DEF FaceZones, Surfaces
<1>7. \A t : CellsTagged(t)' = CellsTagged(t)
  BY DEF CellsTagged
<1>8. CellZones' = CellZones
  BY <1>7 DEF CellZones
<1> QED
  BY <1>6, <1>8

LEMMA SameContents ==
  ASSUME import' = import, found' = found, NEW f
  PROVE  MeshContent(f)' = MeshContent(f)
<1>1. WrittenPatches' = WrittenPatches
  BY SameOrder DEF WrittenPatches
<1>2. MeshContent(f)' = MeshContent(f)
  BY <1>1, SameOrder, SameZones DEF MeshContent
<1> QED
  BY <1>2

-----------------------------------------------------------------------------
(***************************************************************************)
(* The steps of an import.                                                 *)
(***************************************************************************)
LEMMA ImportFrame ==
  ASSUME ImportInv, import' = import, found' = found, cell' = cell
  PROVE  /\ FoundOK' /\ FacesTyped
         /\ \A i : polyMesh' = polyMesh => (IsWritten(i)' <=> IsWritten(i))
<1>1. FoundOK'
  <2>1. \A k : Seen(k)' = Seen(k)
    BY DEF Seen, CellsWith
  <2>2. \A i \in DOMAIN found : FoundRight(found[i])' <=> FoundRight(found[i])
    <3>1. TAKE i \in DOMAIN found
    <3>2. PICK g : g = found[i]
      OBVIOUS
    <3>3. FoundRight(g)' <=> FoundRight(g)
      BY <2>1 DEF FoundRight
    <3>4. (FoundRight(found[i]) <=> FoundRight(g)) /\ (FoundRight(found[i])' <=> FoundRight(g)')
      BY <3>2 DEF FoundRight
    <3> QED
      BY <3>3, <3>4
  <2>3. \A i \in DOMAIN found' : FoundRight(found[i])'
    BY <2>2 DEF ImportInv, FoundOK
  <2>4. found' \in Seq(FaceType) /\ \A i, j \in DOMAIN found' : found'[i].key = found'[j].key => i = j
    BY DEF ImportInv, FoundOK
  <2>5. \A c \in DOMAIN import'.cells : c < cell' =>
          KeysOf(import'.cells[c].rings) \subseteq KeysOf(found')
    BY DEF ImportInv, FoundOK
  <2> QED
    BY <2>3, <2>4, <2>5 DEF FoundOK
<1>2. FacesTyped
  BY DEF ImportInv, ImportOK, FoundOK, FacesTyped
<1>3. \A i : polyMesh' = polyMesh => (IsWritten(i)' <=> IsWritten(i))
  BY SameContents DEF IsWritten
<1> QED
  BY <1>1, <1>2, <1>3

LEMMA ImportBegins == ImportInit /\ faults = 0 => ImportInv
<1> SUFFICES ASSUME ImportInit, faults = 0 PROVE ImportInv
  OBVIOUS
<1>1. /\ import \in Imports /\ step = "cells" /\ found = <<>> /\ cell = 1 /\ output = 0
      /\ polyMesh = [f \in MeshFiles |-> Unreadable]
  BY DEF ImportInit
<1>2. DOMAIN import.cells = 1 .. Len(import.cells) /\ Len(import.cells) \in Nat
  BY <1>1, ImportTypes
<1>3. ImportOK
  BY <1>1, <1>2 DEF ImportOK
<1>4. FoundOK
  BY <1>1, <1>2 DEF FoundOK
<1>5. FilesTyped
  <2>1. \A f \in MeshFiles : polyMesh[f] = Unreadable
    BY <1>1
  <2>2. \A f \in MeshFiles : ~polyMesh[f].readable
    BY <2>1 DEF Unreadable
  <2>3. {"owner", "neighbour", "boundary", "faceZones", "cellZones"} \subseteq MeshFiles
    BY NamesOfCaseFiles
  <2>4. polyMesh = [f \in MeshFiles |-> polyMesh[f]]
    BY <1>1
  <2> QED
    BY <2>2, <2>3, <2>4 DEF FilesTyped, IsTyped
<1>6. FilesWritten
  BY <1>1 DEF FilesWritten
<1> QED
  BY <1>3, <1>4, <1>5, <1>6 DEF ImportInv

LEMMA FilesStay ==
  ASSUME FilesTyped, polyMesh' = polyMesh
  PROVE  FilesTyped'
  BY DEF FilesTyped, IsTyped

LEMMA CellSteps ==
  ASSUME ImportInv, AddCell \/ CellsEnd \/ ImportAgain
  PROVE  ImportInv'
<1>1. polyMesh' = polyMesh /\ faults' = faults /\ import' = import
  BY DEF AddCell, CellsEnd, ImportAgain
<1>2. FilesTyped'
  BY <1>1, FilesStay DEF ImportInv
<1>3. DOMAIN import.cells = 1 .. Len(import.cells) /\ Len(import.cells) \in Nat
  BY ImportTypes DEF ImportInv, ImportOK
<1>4. CASE AddCell
  <2>1. ImportOK' /\ FoundOK'
    BY <1>4, AddCellStep DEF ImportInv
  <2>2. step' = "cells"
    BY <1>4 DEF AddCell
  <2> QED
    BY <1>1, <1>2, <2>1, <2>2 DEF ImportInv, FilesWritten
<1>5. CASE CellsEnd
  <2>1. /\ cell \notin DOMAIN import.cells /\ step' = "files" /\ output' = 1
        /\ found' = found /\ cell' = cell
    BY <1>5 DEF CellsEnd
  <2>2. FoundOK'
    BY <1>1, <2>1, ImportFrame
  <2>3. cell = Len(import.cells) + 1
    BY <1>3, <2>1 DEF ImportInv, ImportOK
  <2>4. ImportOK'
    BY <1>1, <2>1, <2>3 DEF ImportInv, ImportOK
  <2>5. FilesWritten'
    BY <2>1 DEF FilesWritten
  <2> QED
    BY <1>1, <1>2, <2>2, <2>4, <2>5 DEF ImportInv
<1>6. CASE ImportAgain
  <2>1. step = "failed" /\ step' = "cells" /\ found' = <<>> /\ cell' = 1 /\ output' = output
    BY <1>6 DEF ImportAgain
  <2>2. ImportOK'
    BY <1>1, <1>3, <2>1 DEF ImportInv, ImportOK
  <2>3. FoundOK'
    BY <1>1, <1>3, <2>1 DEF FoundOK
  <2>4. FilesWritten'
    BY <2>1 DEF FilesWritten
  <2> QED
    BY <1>1, <1>2, <2>2, <2>3, <2>4 DEF ImportInv
<1> QED
  BY <1>4, <1>5, <1>6

LEMMA FaultCounts ==
  ASSUME faults \in Nat, Fault
  PROVE  faults' \in Nat /\ faults' # 0
  BY DEF Fault

LEMMA WriteCaseFileStep ==
  ASSUME ImportInv, WriteCaseFile
  PROVE  ImportInv'
<1>1. /\ step = "files" /\ output \in DOMAIN CaseFiles /\ output' = output + 1
      /\ UNCHANGED <<import, step, found, cell, nonManifold, faults>>
  BY DEF WriteCaseFile
<1>2. PICK c : /\ Puts(c)
               /\ CaseFiles[output] \in MeshFiles => c = Reads(MeshContent(CaseFiles[output]))
  BY DEF WriteCaseFile
<1>3. FoundOK' /\ FacesTyped
  BY <1>1, ImportFrame
<1>4. ImportOK'
  BY <1>1, NamesOfCaseFiles DEF ImportInv, ImportOK
<1>5. FilesTyped'
  BY <1>1, <1>2, <1>3, PutsTyped DEF ImportInv
<1>6. FilesWritten'
  <2>1. SUFFICES ASSUME faults = 0, NEW i \in 1 .. 7, i < output + 1 PROVE IsWritten(i)'
    BY <1>1 DEF FilesWritten
  <2>2. MeshContent(CaseFiles[i])' = MeshContent(CaseFiles[i])
    BY <1>1, SameContents
  <2>3. /\ i \in DOMAIN CaseFiles /\ CaseFiles[i] \in MeshFiles
        /\ i # output => CaseFiles[i] # CaseFiles[output]
    BY <1>1, NamesOfCaseFiles
  <2>4. DOMAIN polyMesh = MeshFiles
    BY DEF ImportInv, FilesTyped
  <2>5. CASE i = output
    <3>1. polyMesh' = [polyMesh EXCEPT ![CaseFiles[i]] = Reads(MeshContent(CaseFiles[i]))]
      BY <1>2, <2>3, <2>5 DEF Puts
    <3>2. polyMesh'[CaseFiles[i]] = Reads(MeshContent(CaseFiles[i]))
      BY <2>3, <2>4, <3>1
    <3> QED
      BY <2>2, <3>2 DEF IsWritten, Reads
  <2>6. CASE i # output
    <3>1. i < output
      BY <1>1, <2>1, <2>6, NamesOfCaseFiles
    <3>2. IsWritten(i)
      BY <1>1, <2>1, <3>1 DEF ImportInv, FilesWritten
    <3>3. polyMesh'[CaseFiles[i]] = polyMesh[CaseFiles[i]]
      BY <1>2, <2>3, <2>4, <2>6 DEF Puts
    <3> QED
      BY <2>2, <3>2, <3>3 DEF IsWritten, Reads
  <2> QED
    BY <2>5, <2>6
<1> QED
  BY <1>1, <1>3, <1>4, <1>5, <1>6 DEF ImportInv

LEMMA CaseFileFaults ==
  ASSUME ImportInv, LoseEndOfCaseFile \/ CaseFileFails
  PROVE  ImportInv'
<1>1. /\ step = "files" /\ output \in DOMAIN CaseFiles /\ Fault
      /\ UNCHANGED <<import, found, cell, nonManifold>>
      /\ (step' = step /\ output' = output + 1) \/ (step' = "failed" /\ output' = output)
      /\ (\E c \in Ends : Puts(c)) \/ polyMesh' = polyMesh
  BY DEF LoseEndOfCaseFile, CaseFileFails
<1>2. FoundOK' /\ FacesTyped
  BY <1>1, ImportFrame
<1>3. ImportOK'
  BY <1>1, NamesOfCaseFiles DEF ImportInv, ImportOK
<1>4. faults' \in Nat /\ faults' # 0
  BY <1>1, FaultCounts DEF ImportInv
<1>5. FilesTyped'
  <2>1. CASE polyMesh' = polyMesh
    BY <2>1, FilesStay DEF ImportInv
  <2>2. ASSUME NEW c \in Ends, Puts(c)
        PROVE  FilesTyped'
    <3>1. CaseFiles[output] \in MeshFiles => c \in Torn(CaseFiles[output], MeshContent(CaseFiles[output]))
      BY <2>2 DEF Ends
    <3> QED
      BY <1>1, <1>2, <2>2, <3>1, PutsTyped DEF ImportInv
  <2> QED
    BY <1>1, <2>1, <2>2
<1> QED
  BY <1>2, <1>3, <1>4, <1>5 DEF ImportInv, FilesWritten

LEMMA ImportedStep ==
  ASSUME ImportInv, Imported
  PROVE  ImportInv'
<1>1. /\ step = "files" /\ output \notin DOMAIN CaseFiles /\ step' = "imported"
      /\ UNCHANGED <<import, found, cell, nonManifold, polyMesh, output, faults>>
  BY DEF Imported
<1>2. FoundOK'
  BY <1>1, ImportFrame
<1>3. ImportOK'
  BY <1>1 DEF ImportInv, ImportOK
<1>4. FilesTyped'
  BY <1>1, FilesStay DEF ImportInv
<1>5. \A i \in 1 .. 7 : i < output
  <2>1. output \in Nat /\ output # 0
    BY <1>1 DEF ImportInv, ImportOK
  <2>2. ~(output \in 1 .. 11)
    BY <1>1, NamesOfCaseFiles
  <2> QED
    BY <2>1, <2>2
<1>6. FilesWritten'
  <2>1. SUFFICES ASSUME faults = 0, NEW i \in 1 .. 7 PROVE IsWritten(i)'
    BY <1>1 DEF FilesWritten
  <2>2. IsWritten(i)
    BY <1>1, <1>5, <2>1 DEF ImportInv, FilesWritten
  <2> QED
    BY <1>1, <2>2, ImportFrame
<1> QED
  BY <1>1, <1>2, <1>3, <1>4, <1>6 DEF ImportInv

LEMMA OtherStep ==
  ASSUME ImportInv, UNCHANGED importVars, faults' \in Nat, faults' = 0 => faults = 0
  PROVE  ImportInv'
<1>1. UNCHANGED <<import, step, found, cell, nonManifold, polyMesh, output>>
  BY DEF importVars
<1>2. FoundOK' /\ \A i : IsWritten(i)' <=> IsWritten(i)
  BY <1>1, ImportFrame
<1>3. ImportOK' /\ FilesTyped'
  BY <1>1, FilesStay DEF ImportInv, ImportOK
<1>4. FilesWritten'
  BY <1>1, <1>2 DEF ImportInv, FilesWritten
<1> QED
  BY <1>2, <1>3, <1>4 DEF ImportInv

-----------------------------------------------------------------------------
LEMMA SplitCounts ==
  ASSUME faults \in Nat, SplitStep
  PROVE  faults' \in Nat /\ (faults' = 0 => faults = 0)
<1>1. \/ faults' = faults
      \/ Fault
  BY DEF SplitStep, CannotRead, KeepInternal, KeepOwned, KeepReversed, PassBy, Next1, Collected,
         Lay, Laid, WriteFile, LoseEnd, WriteFails, Written
<1> QED
  BY <1>1, FaultCounts

(***************************************************************************)
(* Whatever an import has been through, the faces found are those of the   *)
(* cells so far, with the first two of each, a file that can be read is a  *)
(* list of what it should be, and without a fault each is what was meant.  *)
(***************************************************************************)
THEOREM ImportInvariance == Spec => []ImportInv
<1>1. Init => ImportInv
  BY ImportBegins DEF Init, SplitInit
<1>2. ImportInv /\ [Next]_vars => ImportInv'
  <2> SUFFICES ASSUME ImportInv, [Next]_vars PROVE ImportInv'
    OBVIOUS
  <2>1. faults \in Nat
    BY DEF ImportInv
  <2>2. CASE ImportStep
    BY <2>2, CellSteps, WriteCaseFileStep, CaseFileFaults, ImportedStep DEF ImportStep
  <2>3. CASE BeginSplit
    <3>1. UNCHANGED importVars /\ faults' = faults
      BY <2>3 DEF BeginSplit, Begins
    <3> QED
      BY <2>1, <3>1, OtherStep
  <2>4. CASE SplitStep /\ UNCHANGED importVars
    BY <2>1, <2>4, SplitCounts, OtherStep
  <2>5. CASE UNCHANGED vars
    <3>1. UNCHANGED importVars /\ faults' = faults
      BY <2>5 DEF vars
    <3> QED
      BY <2>1, <3>1, OtherStep
  <2> QED
    BY <2>2, <2>3, <2>4, <2>5 DEF Next
<1> QED
  BY <1>1, <1>2, PTL DEF Spec

(***************************************************************************)
(* The splits of a pipeline are splits as they are described on their own: *)
(* whatever an import has left that can be read is a mesh that a split may *)
(* find, and what goes wrong in an import goes wrong elsewhere.            *)
(***************************************************************************)
THEOREM PipelineSplits == Spec => SplitSpec
<1>1. Init => SplitInit
  BY DEF Init
<1>2. ImportInv /\ [Next]_vars => [Begin \/ SplitStep \/ Elsewhere]_<<splitVars, faults>>
  <2> SUFFICES ASSUME ImportInv, [Next]_vars
               PROVE  \/ Begin \/ SplitStep \/ Elsewhere
                      \/ UNCHANGED <<splitVars, faults>>
    OBVIOUS
  <2>1. CASE ImportStep /\ UNCHANGED splitVars
    <3>1. faults' = faults \/ Fault
      BY <2>1 DEF ImportStep, AddCell, CellsEnd, WriteCaseFile, LoseEndOfCaseFile, CaseFileFails,
                  Imported, ImportAgain
    <3> QED
      BY <2>1, <3>1 DEF Elsewhere
  <2>2. CASE BeginSplit
    <3>1. ReadableMesh /\ mesh' = DiskMesh /\ Begins
      BY <2>2 DEF BeginSplit
    <3>2. /\ polyMesh["owner"].data \in Seq(Nat) /\ polyMesh["neighbour"].data \in Seq(Nat)
          /\ polyMesh["boundary"].data \in Seq(WrittenPatch)
          /\ polyMesh["faceZones"].data \in Seq(FaceZoneType)
          /\ polyMesh["cellZones"].data \in Seq(CellZoneType)
      BY <3>1, NamesOfCaseFiles DEF ReadableMesh, ImportInv, FilesTyped, IsTyped
    <3>3. DiskMesh \in Meshes
      BY <3>2 DEF DiskMesh, Meshes, WrittenPatch, FaceZoneType, CellZoneType, LabelType
    <3> QED
      BY <3>1, <3>3 DEF Begin
  <2>3. CASE UNCHANGED vars
    BY <2>3 DEF vars
  <2> QED
    BY <2>1, <2>2, <2>3 DEF Next
<1> QED
  BY <1>1, <1>2, ImportInvariance, PTL DEF Spec, SplitSpec

(***************************************************************************)
(* So what holds of any splits holds of those of a pipeline: faces are     *)
(* conserved, the two sides of an interface and the registry agree, what   *)
(* is reported reads back, and no region is written over another           *)
(* (regions.rs, split_regions; interfaces.rs).                             *)
(***************************************************************************)
THEOREM PipelineIsSafe ==
  Spec => [](Conserved /\ SidesMatch /\ RegistryAgrees /\ ReadBack) /\ OwnRegion
BY PipelineSplits, FacesAreConserved, InterfacesMatch, RegistryCounts, RegionsReadBack,
   RegionsAreApart, PTL

-----------------------------------------------------------------------------
(***************************************************************************)
(* An import whose files are whole.                                        *)
(***************************************************************************)
WholeImport == ImportInv /\ step = "imported" /\ faults = 0
Keyed(k) == {i \in DOMAIN found : found[i].key = k}

LEMMA WholeFiles ==
  ASSUME WholeImport
  PROVE  /\ DOMAIN Labelled = DOMAIN Ordered
         /\ \A n \in DOMAIN Ordered : Labelled[n] = [key |-> found[Ordered[n]].key,
                                                     sense |-> found[Ordered[n]].sense]
         /\ \A n \in DOMAIN Ordered : Labelled[n].key = found[Ordered[n]].key
         /\ DiskMesh.owner = MeshContent("owner") /\ DiskMesh.neighbour = MeshContent("neighbour")
         /\ DiskMesh.patches = WrittenPatches
         /\ DiskMesh.faceZones = FaceZones /\ DiskMesh.cellZones = CellZones
         /\ FacesTyped
<1>1. \A i \in 1 .. 7 : IsWritten(i)
  BY DEF WholeImport, ImportInv, FilesWritten
<1>2. FacesTyped
  BY DEF WholeImport, ImportInv, ImportOK, FoundOK, FacesTyped
<1>3. \A i \in 1 .. 7 : polyMesh[CaseFiles[i]].data = MeshContent(CaseFiles[i])
  BY <1>1 DEF IsWritten, Reads
<1>4. /\ polyMesh["faces"].data = MeshContent("faces")
      /\ polyMesh["owner"].data = MeshContent("owner")
      /\ polyMesh["neighbour"].data = MeshContent("neighbour")
      /\ polyMesh["boundary"].data = MeshContent("boundary")
      /\ polyMesh["faceZones"].data = MeshContent("faceZones")
      /\ polyMesh["cellZones"].data = MeshContent("cellZones")
  BY <1>3, NamesOfCaseFiles
<1>5. Labelled = [n \in DOMAIN Ordered |-> [key |-> found[Ordered[n]].key,
                                            sense |-> found[Ordered[n]].sense]]
  BY <1>2, <1>4, ContentFacts DEF Labelled
<1>6. \A n \in DOMAIN Ordered : Labelled[n].key = found[Ordered[n]].key
  <2>1. TAKE n \in DOMAIN Ordered
  <2>2. PICK x, y : x = found[Ordered[n]].key /\ y = found[Ordered[n]].sense
    OBVIOUS
  <2>3. Labelled[n] = [key |-> x, sense |-> y]
    BY <1>5, <2>2
  <2> QED
    BY <2>2, <2>3
<1>7. /\ DiskMesh.owner = MeshContent("owner") /\ DiskMesh.neighbour = MeshContent("neighbour")
      /\ DiskMesh.patches = MeshContent("boundary")
      /\ DiskMesh.faceZones = MeshContent("faceZones")
      /\ DiskMesh.cellZones = MeshContent("cellZones")
  BY <1>4 DEF DiskMesh
<1> QED
  BY <1>2, <1>5, <1>6, <1>7, ContentFacts

\* All cells have been seen.
LEMMA AllSeen ==
  ASSUME WholeImport
  PROVE  /\ \A k : Seen(k) = CellsWith(k)
         /\ \A k : CellsWith(k) \in SUBSET DOMAIN import.cells
         /\ \A S \in SUBSET DOMAIN import.cells : S \in SUBSET Int /\ S \in SUBSET Nat /\ IsFiniteSet(S)
         /\ DOMAIN import.cells = 1 .. Len(import.cells) /\ Len(import.cells) \in Nat
         /\ \A i \in DOMAIN found : FoundRight(found[i]) /\ found[i] \in FaceType
         /\ \A i, j \in DOMAIN found : found[i].key = found[j].key => i = j
         /\ KeysOf(found) = MeshKeys
<1>1. /\ import \in Imports /\ cell = Len(import.cells) + 1 /\ found \in Seq(FaceType)
      /\ \A i \in DOMAIN found : FoundRight(found[i])
      /\ \A i, j \in DOMAIN found : found[i].key = found[j].key => i = j
      /\ \A c \in DOMAIN import.cells : c < cell => KeysOf(import.cells[c].rings) \subseteq KeysOf(found)
  BY DEF WholeImport, ImportInv, ImportOK, FoundOK
<1>2. DOMAIN import.cells = 1 .. Len(import.cells) /\ Len(import.cells) \in Nat
  BY <1>1, ImportTypes
<1>3. \A c \in DOMAIN import.cells : c < cell
  BY <1>1, <1>2
<1>4. \A k : Seen(k) = CellsWith(k)
  BY <1>3 DEF Seen, CellsWith
<1>5. \A k : CellsWith(k) \in SUBSET DOMAIN import.cells
  BY DEF CellsWith
<1>6. \A S \in SUBSET DOMAIN import.cells : S \in SUBSET Int /\ S \in SUBSET Nat /\ IsFiniteSet(S)
  <2>1. IsFiniteSet(DOMAIN import.cells)
    BY <1>2, UpTo
  <2>2. DOMAIN import.cells \subseteq Nat
    BY <1>2
  <2>3. TAKE S \in SUBSET DOMAIN import.cells
  <2>4. IsFiniteSet(S)
    BY <2>1, FS_Subset
  <2> QED
    BY <2>2, <2>4
<1>7. KeysOf(found) \subseteq MeshKeys
  <2>1. SUFFICES ASSUME NEW i \in DOMAIN found PROVE found[i].key \in MeshKeys
    BY DEF KeysOf
  <2>2. PICK g : g = found[i]
    OBVIOUS
  <2>3. g.owner \in Seen(g.key)
    BY <1>1, <2>2 DEF FoundRight
  <2>4. g.owner \in DOMAIN import.cells /\ g.key \in KeysOf(import.cells[g.owner].rings)
    BY <2>3 DEF Seen, CellsWith
  <2> QED
    BY <2>2, <2>4 DEF MeshKeys
<1>8. MeshKeys \subseteq KeysOf(found)
  BY <1>1, <1>3 DEF MeshKeys
<1>9. \A i \in DOMAIN found : found[i] \in FaceType
  BY <1>1, EntryIn
<1> QED
  BY <1>1, <1>2, <1>4, <1>5, <1>6, <1>7, <1>8, <1>9

\* The cells of a face, as it has been found.
LEMMA FaceCells ==
  ASSUME WholeImport, NEW i \in DOMAIN found, NEW g, g = found[i], NEW others,
         others = CellsWith(g.key) \ {g.owner}
  PROVE  /\ g.owner = Lowest(CellsWith(g.key)) /\ g.owner \in DOMAIN import.cells
         /\ \E r \in DOMAIN import.cells[g.owner].rings :
              import.cells[g.owner].rings[r] = [key |-> g.key, sense |-> g.sense]
         /\ others = {} <=> i \in Boundary
         /\ others # {} => /\ g.neighbour = Lowest(others) /\ g.neighbour \in DOMAIN import.cells
                           /\ g.owner < g.neighbour
<1>1. /\ g.owner \in CellsWith(g.key)
      /\ \A d \in CellsWith(g.key) : g.owner <= d
      /\ g.neighbour = NoNeighbour => \A d \in CellsWith(g.key) : d = g.owner
      /\ g.neighbour # NoNeighbour =>
           /\ g.neighbour \in CellsWith(g.key) /\ g.neighbour # g.owner
           /\ \A d \in CellsWith(g.key) : d # g.owner => g.neighbour <= d
      /\ \E r \in DOMAIN import.cells[g.owner].rings :
           import.cells[g.owner].rings[r] = [key |-> g.key, sense |-> g.sense]
  <2>1. FoundRight(g)
    BY AllSeen
  <2>2. Seen(g.key) = CellsWith(g.key)
    BY AllSeen
  <2>3. /\ g.owner \in Seen(g.key) /\ \A d \in Seen(g.key) : g.owner <= d
        /\ g.neighbour = NoNeighbour => \A d \in Seen(g.key) : d = g.owner
        /\ g.neighbour # NoNeighbour =>
             /\ g.neighbour \in Seen(g.key) /\ g.neighbour # g.owner
             /\ \A d \in Seen(g.key) : d # g.owner => g.neighbour <= d
        /\ \E r \in DOMAIN import.cells[g.owner].rings :
             import.cells[g.owner].rings[r] = [key |-> g.key, sense |-> g.sense]
    BY <2>1 DEF FoundRight
  <2> QED
    BY <2>2, <2>3
<1>2. PICK C : C = CellsWith(g.key)
  OBVIOUS
<1>3. C \in SUBSET DOMAIN import.cells /\ C \in SUBSET Int /\ IsFiniteSet(C)
  BY <1>2, AllSeen
<1>4. g.owner = Lowest(C)
  <2>1. Lowest(C) \in C /\ \A y \in C : Lowest(C) <= y
    BY <1>1, <1>2, <1>3, LowestFacts
  <2>2. Lowest(C) <= g.owner /\ g.owner <= Lowest(C) /\ g.owner \in Int /\ Lowest(C) \in Int
    BY <1>1, <1>2, <1>3, <2>1
  <2> QED
    BY <2>2
<1>5. others = {} <=> i \in Boundary
  BY <1>1 DEF Boundary
<1>6. ASSUME others # {}
      PROVE  /\ g.neighbour = Lowest(others) /\ g.neighbour \in DOMAIN import.cells
             /\ g.owner < g.neighbour
  <2>1. g.neighbour # NoNeighbour
    BY <1>1, <1>6
  <2>2. others \in SUBSET Int /\ IsFiniteSet(others)
    BY <1>2, <1>3, AllSeen
  <2>3. Lowest(others) \in others /\ \A y \in others : Lowest(others) <= y
    BY <1>6, <2>2, LowestFacts
  <2>4. g.neighbour \in others /\ \A y \in others : g.neighbour <= y
    BY <1>1, <2>1
  <2>5. /\ Lowest(others) <= g.neighbour /\ g.neighbour <= Lowest(others)
        /\ g.neighbour \in Int /\ Lowest(others) \in Int
    BY <2>2, <2>3, <2>4
  <2>6. g.owner <= g.neighbour /\ g.neighbour # g.owner /\ g.owner \in Int /\ g.neighbour \in C
    BY <1>1, <1>2, <1>3, <2>1
  <2> QED
    BY <1>3, <2>5, <2>6
<1> QED
  BY <1>1, <1>2, <1>3, <1>4, <1>5, <1>6

LEMMA WholeFaces ==
  ASSUME WholeImport, NEW n \in DOMAIN Labelled
  PROVE  /\ FaceRight(n)
         /\ n \in DOMAIN DiskMesh.neighbour => DiskMesh.owner[n] < DiskMesh.neighbour[n]
<1>1. FacesTyped /\ n \in DOMAIN Ordered
  BY WholeFiles
<1>2. PICK i : i = Ordered[n]
  OBVIOUS
<1>3. i \in DOMAIN found
  <2>1. Ordered \in Seq(DOMAIN found)
    BY <1>1, OrderedFacts
  <2> QED
    BY <1>1, <1>2, <2>1, EntryIn
<1>4. PICK g : g = found[i]
  OBVIOUS
<1>5. PICK others : others = CellsWith(g.key) \ {g.owner}
  OBVIOUS
<1>6. /\ g.owner = Lowest(CellsWith(g.key)) /\ g.owner \in DOMAIN import.cells
      /\ \E r \in DOMAIN import.cells[g.owner].rings :
           import.cells[g.owner].rings[r] = [key |-> g.key, sense |-> g.sense]
      /\ others = {} <=> i \in Boundary
      /\ others # {} => g.neighbour = Lowest(others) /\ g.owner < g.neighbour
  BY <1>3, <1>4, <1>5, FaceCells
<1>7. Labelled[n] = [key |-> g.key, sense |-> g.sense] /\ Labelled[n].key = g.key
  BY <1>1, <1>2, <1>4, WholeFiles
<1>8. DiskMesh.owner[n] = g.owner
  BY <1>1, <1>2, <1>4, WholeFiles, ContentFacts
<1>9. PICK k \in Nat : k = Len(InternalFaces)
  BY <1>1, OrderedFacts
<1>10. n \in Nat /\ n # 0 /\ (n <= k <=> i \notin Boundary)
  BY <1>1, <1>2, <1>9, OrderedFacts
<1>11. DOMAIN DiskMesh.neighbour = DOMAIN InternalFaces /\ DOMAIN InternalFaces = 1 .. k
  BY <1>1, <1>9, WholeFiles, ContentFacts, InternalFacts
<1>12. n \in DOMAIN DiskMesh.neighbour <=> others # {}
  BY <1>6, <1>10, <1>11
<1>13. n \in DOMAIN DiskMesh.neighbour => DiskMesh.neighbour[n] = g.neighbour
  <2>1. SUFFICES ASSUME n \in DOMAIN InternalFaces PROVE DiskMesh.neighbour[n] = g.neighbour
    BY <1>11
  <2>2. InternalFaces[n] = i
    BY <1>1, <1>2, <2>1, OrderedFacts
  <2> QED
    BY <1>1, <1>4, <2>1, <2>2, WholeFiles, ContentFacts
<1>14. NeighbourOf(DiskMesh, n) = IF others = {} THEN NoCell ELSE Lowest(others)
  BY <1>6, <1>12, <1>13 DEF NeighbourOf
<1>15. PICK around : around = {p \in DOMAIN DiskMesh.patches : n \in PatchRange(DiskMesh.patches[p])}
  OBVIOUS
<1>16. around # {} <=> others = {}
  BY <1>1, <1>2, <1>6, <1>15, WholeFiles, WrittenFacts
<1>17. \A p \in around : DiskMesh.patches[p].name = PatchName(Labelled[n])
  <2>1. PatchName(Labelled[n]) = PatchName(g)
    BY <1>7 DEF PatchName
  <2>2. \A p \in around : /\ DiskMesh.patches[p].name = PatchOrder[p]
                          /\ PatchName(found[Ordered[n]]) = PatchOrder[p]
    BY <1>1, <1>15, WholeFiles, WrittenFacts
  <2> QED
    BY <1>2, <1>4, <2>1, <2>2
<1>18. \E r \in DOMAIN import.cells[g.owner].rings : import.cells[g.owner].rings[r] = Labelled[n]
  BY <1>6, <1>7
<1>19. FaceRight(n)
  <2>1. g.owner = Lowest(CellsWith(Labelled[n].key))
    BY <1>6, <1>7
  <2>2. others = CellsWith(Labelled[n].key) \ {Lowest(CellsWith(Labelled[n].key))}
    BY <1>5, <1>7, <2>1
  <2> QED
    BY <1>8, <1>14, <1>15, <1>16, <1>17, <1>18, <2>1, <2>2 DEF FaceRight
<1> QED
  BY <1>6, <1>8, <1>12, <1>13, <1>19

LEMMA FacesAreRight ==
  ASSUME WholeImport
  PROVE  FacesRight /\ OnePatchEach(DiskMesh) /\ OwnerFirst(DiskMesh)
<1>1. FacesTyped /\ DOMAIN Labelled = DOMAIN Ordered /\ Ordered \in Seq(DOMAIN found)
  BY WholeFiles, OrderedFacts
<1>2. \A n \in DOMAIN Ordered : Ordered[n] \in DOMAIN found
  BY <1>1, EntryIn
<1>3. {Labelled[n].key : n \in DOMAIN Labelled} = MeshKeys
  <2>1. \A n \in DOMAIN Labelled : Labelled[n].key \in KeysOf(found)
    BY <1>1, <1>2, WholeFiles DEF KeysOf
  <2>2. \A k \in KeysOf(found) : \E n \in DOMAIN Labelled : Labelled[n].key = k
    <3>1. SUFFICES ASSUME NEW i \in DOMAIN found
                   PROVE  \E n \in DOMAIN Labelled : Labelled[n].key = found[i].key
      BY DEF KeysOf
    <3>2. PICK n \in DOMAIN Ordered : Ordered[n] = i
      BY <1>1, OrderedFacts
    <3> QED
      BY <1>1, <3>2, WholeFiles
  <2> QED
    BY <2>1, <2>2, AllSeen
<1>4. \A n, o \in DOMAIN Labelled : Labelled[n].key = Labelled[o].key => n = o
  BY <1>1, <1>2, WholeFiles, AllSeen, OrderedFacts
<1>5. FacesRight
  BY <1>3, <1>4, WholeFaces DEF FacesRight
<1>6. OnePatchEach(DiskMesh)
  <2>1. SUFFICES ASSUME NEW p \in DOMAIN WrittenPatches, NEW q \in DOMAIN WrittenPatches,
                        NEW n \in PatchRange(WrittenPatches[p]), n \in PatchRange(WrittenPatches[q])
                 PROVE  p = q
    BY WholeFiles DEF OnePatchEach
  <2>2. PatchName(found[Ordered[n]]) = PatchOrder[p] /\ PatchName(found[Ordered[n]]) = PatchOrder[q]
    BY <1>1, <2>1, WrittenFacts
  <2>3. p \in DOMAIN PatchOrder /\ q \in DOMAIN PatchOrder
    BY <1>1, WrittenFacts
  <2> QED
    BY <1>1, <2>2, <2>3, PatchOrderFacts
<1>7. OwnerFirst(DiskMesh)
  <2>1. SUFFICES ASSUME NEW n \in DOMAIN DiskMesh.neighbour
                 PROVE  DiskMesh.owner[n] < DiskMesh.neighbour[n]
    BY DEF OwnerFirst
  <2>2. n \in DOMAIN InternalFaces
    BY <1>1, WholeFiles, ContentFacts
  <2>3. n \in DOMAIN Labelled
    BY <1>1, <2>2, OrderedFacts
  <2> QED
    BY <2>3, WholeFaces
<1> QED
  BY <1>5, <1>6, <1>7

LEMMA ZonesAreRight ==
  ASSUME WholeImport
  PROVE  FaceZonesRight /\ CellZonesRight
<1>1. FacesTyped /\ import \in Imports
  BY WholeFiles DEF FacesTyped
<1>2. \A s \in DOMAIN Surfaces : s \in Matched <=> Surfaces[s].key \in MeshKeys
  <2>1. \A k : FacesOfKey(k) # {} <=> k \in KeysOf(found)
    BY DEF FacesOfKey, KeysOf
  <2> QED
    BY <2>1, AllSeen DEF Matched
<1>3. \A t : OnFaces(t) = SurfacesTagged(t)
  BY <1>2 DEF OnFaces, SurfacesTagged, Matched
<1>4. {t \in DOMAIN TagName : OnFaces(t) # {}} = ZoneTags
  <2>1. \A t : OnFaces(t) # {} <=> t \in ZoneTags
    BY <1>3 DEF SurfacesTagged, ZoneTags
  <2>2. ZoneTags \subseteq DOMAIN TagName
    BY <1>1, MatchedFacts DEF ZoneTags
  <2> QED
    BY <2>1, <2>2
<1>5. ASSUME NEW t \in ZoneTags
      PROVE  ZoneRight(t, FaceZones[Place(ZoneTags, t)])
  <2>1. PICK listed : listed = FaceZones[Place(ZoneTags, t)]
    OBVIOUS
  <2>2. listed.name = TagName[t] /\ listed.faces = ZoneLabels(t)
    BY <1>1, <2>1, FaceZonesFacts
  <2>3. Len(listed.faces) = Cardinality(OnFaces(t))
    BY <1>1, <1>3, <2>2, ZoneLabelsFacts
  <2>4. ASSUME NEW s \in OnFaces(t)
        PROVE  Labelled[listed.faces[Place(OnFaces(t), s)].face].key = Surfaces[s].key
    <3>1. PICK n : n = ZoneLabels(t)[Place(SurfacesTagged(t), s)].face
      OBVIOUS
    <3>2. found[Ordered[n]].key = Surfaces[s].key
      BY <1>1, <1>3, <2>4, <3>1, ZoneLabelsFacts
    <3>3. n \in DOMAIN Ordered
      <4>1. /\ SurfacesTagged(t) \in SUBSET Matched /\ s \in SurfacesTagged(t)
            /\ ZoneLabels(t) \in Seq(LabelType)
            /\ Len(ZoneLabels(t)) = Cardinality(SurfacesTagged(t))
            /\ \A m \in DOMAIN ZoneLabels(t) : ZoneLabels(t)[m].face \in DOMAIN Ordered
        BY <1>1, <1>3, <2>4, ZoneLabelsFacts DEF SurfacesTagged
      <4>2. SurfacesTagged(t) \in SUBSET Int /\ IsFiniteSet(SurfacesTagged(t))
        BY <1>1, <4>1, MatchedFacts
      <4>3. Place(SurfacesTagged(t), s) \in 1 .. Cardinality(SurfacesTagged(t))
        BY <4>1, <4>2, PlaceFacts
      <4> QED
        BY <3>1, <4>1, <4>3
    <3> QED
      BY <1>3, <2>2, <3>1, <3>2, <3>3, WholeFiles
  <2> QED
    BY <2>1, <2>2, <2>3, <2>4 DEF ZoneRight
<1>6. FaceZonesRight
  BY <1>1, <1>4, <1>5, WholeFiles, FaceZonesFacts DEF FaceZonesRight
<1>7. ASSUME NEW t \in CellTags, NEW z, z = CellZones[Place(CellTags, t)]
      PROVE  /\ z.name = TagName[t]
             /\ {z.cells[i] : i \in DOMAIN z.cells} = CellsTagged(t)
             /\ \A i, j \in DOMAIN z.cells : i < j => z.cells[i] < z.cells[j]
  <2>1. z.name = TagName[t] /\ z.cells = InOrder(CellsTagged(t))
    BY <1>1, <1>7, CellZonesFacts
  <2> QED
    BY <1>1, <2>1, CellsTaggedFacts
<1>8. CellZonesRight
  BY <1>1, <1>7, WholeFiles, CellZonesFacts DEF CellZonesRight, CellTags
<1> QED
  BY <1>6, <1>8

\* There is one label for each face.
LEMMA FaceCount ==
  ASSUME WholeImport
  PROVE  Len(Ordered) = Cardinality(MeshKeys) /\ Len(Ordered) \in Nat
<1> DEFINE f == [n \in 1 .. Len(Ordered) |-> found[Ordered[n]].key]
<1>1. FacesTyped /\ DOMAIN Labelled = DOMAIN Ordered /\ Ordered \in Seq(DOMAIN found)
  BY WholeFiles, OrderedFacts
<1>2. DOMAIN Ordered = 1 .. Len(Ordered) /\ Len(Ordered) \in Nat
  BY <1>1
<1>3. \A n \in 1 .. Len(Ordered) : f[n] = Labelled[n].key /\ n \in DOMAIN Labelled
  BY <1>1, <1>2, WholeFiles
<1>4. FacesRight
  BY FacesAreRight
<1>5. f \in [1 .. Len(Ordered) -> MeshKeys]
  <2>1. \A n \in 1 .. Len(Ordered) : f[n] \in MeshKeys
    BY <1>3, <1>4 DEF FacesRight
  <2> QED
    BY <2>1
<1>6. \A k \in MeshKeys : \E n \in 1 .. Len(Ordered) : f[n] = k
  BY <1>1, <1>2, <1>3, <1>4 DEF FacesRight
<1>7. \A m, n \in 1 .. Len(Ordered) : f[m] = f[n] => m = n
  BY <1>3, <1>4 DEF FacesRight
<1> HIDE DEF f
<1>8. f \in Bijection(1 .. Len(Ordered), MeshKeys)
  BY <1>5, <1>6, <1>7 DEF Bijection, Injection, Surjection, IsInjective
<1>9. IsFiniteSet(1 .. Len(Ordered)) /\ Cardinality(1 .. Len(Ordered)) = Len(Ordered)
  BY <1>2, UpTo
<1>10. ExistsBijection(1 .. Len(Ordered), MeshKeys)
  BY <1>8 DEF ExistsBijection
<1> QED
  BY <1>2, <1>9, <1>10, FS_Bijection

\* A face that has not two cells before c has c as its owner or its neighbour.
LEMMA ReachedCells ==
  ASSUME WholeImport, NEW c \in DOMAIN import.cells, NEW k \in KeysOf(import.cells[c].rings),
         Cardinality({d \in CellsWith(k) : d < c}) < 2
  PROVE  c \in Labels(DiskMesh)
<1>1. FacesTyped
  BY WholeFiles
<1>2. k \in KeysOf(found)
  BY AllSeen DEF MeshKeys
<1>3. PICK i \in DOMAIN found : found[i].key = k
  BY <1>2 DEF KeysOf
<1>4. PICK n \in DOMAIN Ordered : Ordered[n] = i
  BY <1>1, OrderedFacts
<1>5. PICK g : g = found[i]
  OBVIOUS
<1>6. PICK C : C = CellsWith(k)
  OBVIOUS
<1>7. c \in C /\ C \in SUBSET DOMAIN import.cells
  BY <1>6 DEF CellsWith
<1>8. FoundRight(g) /\ Seen(k) = C /\ g.key = k
  BY <1>3, <1>5, <1>6, AllSeen
<1>9. /\ g.owner \in C /\ \A d \in C : g.owner <= d
      /\ g.neighbour = NoNeighbour => \A d \in C : d = g.owner
      /\ g.neighbour # NoNeighbour =>
           /\ g.neighbour \in C /\ g.neighbour # g.owner
           /\ \A d \in C : d # g.owner => g.neighbour <= d
  BY <1>8 DEF FoundRight
<1>10. c = g.owner \/ c = g.neighbour
  <2>1. SUFFICES ASSUME c # g.owner, c # g.neighbour PROVE FALSE
    OBVIOUS
  <2>2. g.neighbour # NoNeighbour
    BY <1>7, <1>9, <2>1
  <2>3. /\ g.owner \in C /\ g.neighbour \in C /\ g.owner # g.neighbour
        /\ g.owner <= c /\ g.neighbour <= c
    BY <1>7, <1>9, <2>1, <2>2
  <2>4. C \in SUBSET Int
    BY <1>7, AllSeen
  <2>5. PICK S : S = {d \in C : d < c}
    OBVIOUS
  <2>6. g.owner \in S /\ g.neighbour \in S
    BY <1>7, <2>1, <2>3, <2>4, <2>5
  <2>7. S \in SUBSET DOMAIN import.cells /\ IsFiniteSet(S)
    BY <1>7, <2>5, AllSeen
  <2>8. {g.owner, g.neighbour} \subseteq S
    BY <2>6
  <2>9. Cardinality({g.owner, g.neighbour}) = 2
    <3>1. PICK a, b : a = g.owner /\ b = g.neighbour
      OBVIOUS
    <3>2. IsFiniteSet({a}) /\ Cardinality({a}) = 1 /\ b \notin {a}
      BY <2>3, <3>1, FS_Singleton
    <3>3. Cardinality({a} \cup {b}) = Cardinality({a}) + 1
      BY <3>2, FS_AddElement
    <3>4. {a} \cup {b} = {g.owner, g.neighbour}
      BY <3>1
    <3> QED
      BY <3>2, <3>3, <3>4
  <2>10. Cardinality(S) < 2 /\ Cardinality(S) \in Nat
    BY <1>6, <2>5, <2>7, FS_CardinalityType
  <2> QED
    BY <2>7, <2>8, <2>9, <2>10, FS_Subset
<1>11. CASE c = g.owner
  <2>1. n \in DOMAIN DiskMesh.owner /\ DiskMesh.owner[n] = c
    BY <1>1, <1>4, <1>5, <1>11, WholeFiles, ContentFacts
  <2> QED
    BY <2>1 DEF Labels
<1>12. CASE c = g.neighbour
  <2>1. c # 0
    BY AllSeen
  <2>2. i \in DOMAIN found \ Boundary
    BY <1>5, <1>12, <2>1 DEF Boundary, NoNeighbour
  <2>3. PICK l \in DOMAIN InternalFaces : InternalFaces[l] = i
    BY <1>1, <2>2, InternalFacts
  <2>4. l \in DOMAIN DiskMesh.neighbour /\ DiskMesh.neighbour[l] = c
    BY <1>1, <1>5, <1>12, <2>3, WholeFiles, ContentFacts
  <2> QED
    BY <2>4 DEF Labels
<1> QED
  BY <1>10, <1>11, <1>12

LEMMA ReadersAccept ==
  ASSUME WholeImport, CellsReached, Len(import.cells) <= Cardinality(MeshKeys)
  PROVE  Valid(DiskMesh)
<1>1. /\ FacesTyped /\ import \in Imports /\ Ordered \in Seq(DOMAIN found)
      /\ DOMAIN Ordered = 1 .. Len(Ordered) /\ Len(Ordered) \in Nat
      /\ \A n \in DOMAIN Ordered : Ordered[n] \in DOMAIN found
  <2>1. FacesTyped /\ import \in Imports /\ Ordered \in Seq(DOMAIN found)
    BY WholeFiles, OrderedFacts DEF FacesTyped
  <2> QED
    BY <2>1, EntryIn
<1>2. /\ DOMAIN import.cells = 1 .. Len(import.cells) /\ Len(import.cells) \in Nat
      /\ Len(import.cells) <= Len(Ordered)
  BY AllSeen, FaceCount
<1>3. /\ Len(DiskMesh.owner) = Len(Ordered) /\ DOMAIN DiskMesh.owner = DOMAIN Ordered
      /\ Len(DiskMesh.neighbour) = Len(InternalFaces)
      /\ DOMAIN DiskMesh.neighbour = DOMAIN InternalFaces
      /\ Len(InternalFaces) <= Len(Ordered)
  BY <1>1, WholeFiles, ContentFacts, OrderedFacts
<1>4. Labels(DiskMesh) = 1 .. Len(import.cells)
  <2>1. \A c \in DOMAIN import.cells : c \in Labels(DiskMesh)
    BY ReachedCells DEF CellsReached
  <2>2. ASSUME NEW n \in DOMAIN DiskMesh.owner
        PROVE  DiskMesh.owner[n] \in DOMAIN import.cells
    <3>1. PICK g : g = found[Ordered[n]]
      OBVIOUS
    <3>2. n \in DOMAIN Ordered /\ DiskMesh.owner[n] = g.owner
      BY <1>1, <1>3, <3>1, WholeFiles, ContentFacts
    <3>3. PICK i \in DOMAIN found : i = Ordered[n]
      BY <1>1, <3>2
    <3>4. g = found[i]
      BY <3>1, <3>3
    <3> QED
      BY <3>2, <3>4, FaceCells
  <2>3. ASSUME NEW n \in DOMAIN DiskMesh.neighbour
        PROVE  DiskMesh.neighbour[n] \in DOMAIN import.cells
    <3>1. n \in DOMAIN InternalFaces
      BY <1>3
    <3>2. PICK i \in DOMAIN found : i = InternalFaces[n] /\ i \notin Boundary
      BY <1>1, <3>1, InternalFacts
    <3>3. PICK g : g = found[i]
      OBVIOUS
    <3>4. DiskMesh.neighbour[n] = g.neighbour
      BY <1>1, <3>1, <3>2, <3>3, WholeFiles, ContentFacts
    <3>5. FoundRight(g) /\ Seen(g.key) = CellsWith(g.key) /\ g.neighbour # NoNeighbour
      BY <3>2, <3>3, AllSeen DEF Boundary
    <3>6. g.neighbour \in CellsWith(g.key)
      BY <3>5 DEF FoundRight
    <3> QED
      BY <3>4, <3>6, AllSeen
  <2> QED
    BY <1>2, <2>1, <2>2, <2>3 DEF Labels
<1>5. \A p \in DOMAIN DiskMesh.patches :
        /\ Len(DiskMesh.neighbour) < DiskMesh.patches[p].start
        /\ DiskMesh.patches[p].start + DiskMesh.patches[p].count - 1 <= Len(DiskMesh.owner)
  <2>1. TAKE p \in DOMAIN DiskMesh.patches
  <2>2. DiskMesh.patches = WrittenPatches
    BY WholeFiles
  <2>3. /\ Len(InternalFaces) < WrittenPatches[p].start
        /\ WrittenPatches[p].start + WrittenPatches[p].count - 1 <= Len(Ordered)
    BY <1>1, <2>2, WrittenFacts
  <2> QED
    BY <1>3, <2>2, <2>3
<1>6. ASSUME NEW z \in DOMAIN DiskMesh.faceZones, NEW i \in DOMAIN DiskMesh.faceZones[z].faces
      PROVE  DiskMesh.faceZones[z].faces[i].face \in FacesOf(DiskMesh)
  <2>1. DiskMesh.faceZones = FaceZones
    BY WholeFiles
  <2>2. PICK t \in ZoneTags : FaceZones[z].faces = ZoneLabels(t)
    BY <1>1, <2>1, FaceZonesFacts
  <2>3. ZoneLabels(t)[i].face \in DOMAIN Ordered
    BY <1>1, <2>1, <2>2, ZoneLabelsFacts
  <2> QED
    BY <1>3, <2>1, <2>2, <2>3 DEF FacesOf
<1>7. ASSUME NEW z \in DOMAIN DiskMesh.cellZones, NEW i \in DOMAIN DiskMesh.cellZones[z].cells
      PROVE  DiskMesh.cellZones[z].cells[i] \in 1 .. Len(import.cells)
  <2>1. DiskMesh.cellZones = CellZones
    BY WholeFiles
  <2>2. PICK t \in CellTags : CellZones[z].cells = InOrder(CellsTagged(t))
    BY <1>1, <2>1, CellZonesFacts
  <2>3. InOrder(CellsTagged(t))[i] \in CellsTagged(t)
    BY <1>1, <2>1, <2>2, CellsTaggedFacts
  <2> QED
    BY <1>2, <2>1, <2>2, <2>3 DEF CellsTagged
<1>8. Len(import.cells) \in 0 .. Len(DiskMesh.owner)
  BY <1>1, <1>2, <1>3
<1> QED
  BY <1>3, <1>4, <1>5, <1>6, <1>7, <1>8 DEF Valid

(***************************************************************************)
(* An import whose files are whole is the mesh that it was given           *)
(* (foam.rs, build_topology, order_faces, write_face_zones).               *)
(***************************************************************************)
THEOREM ImportsAreSound == Spec => []MeshSound
<1>1. ImportInv => MeshSound
  <2> SUFFICES ASSUME ImportInv, step = "imported", faults = 0
               PROVE  /\ FacesRight /\ FaceZonesRight /\ CellZonesRight
                      /\ OnePatchEach(DiskMesh) /\ OwnerFirst(DiskMesh)
                      /\ CellsReached /\ Len(import.cells) <= Cardinality(MeshKeys) => Valid(DiskMesh)
    BY DEF MeshSound
  <2>1. WholeImport
    BY DEF WholeImport
  <2> QED
    BY <2>1, FacesAreRight, ZonesAreRight, ReadersAccept
<1> QED
  BY <1>1, ImportInvariance, PTL
=============================================================================
