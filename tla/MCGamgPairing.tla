--------------------------- MODULE MCGamgPairing ---------------------------
(***************************************************************************)
(* GamgPairing from every choice of the eight connections of a ring of six *)
(* cells with two chords, each missing or of one of two weights, as mesh   *)
(* faces, and as coefficients of both signs, which may cancel each other.  *)
(* Some meshes have a face twice, or one that the matrix does not couple.  *)
(***************************************************************************)
EXTENDS GamgPairing

Ring == {<<0, 1>>, <<1, 2>>, <<2, 3>>, <<3, 4>>, <<4, 5>>, <<0, 5>>, <<1, 4>>, <<0, 3>>}

Weighted(f) == {[lower |-> p[1], upper |-> p[2], value |-> f[p], face |-> 1] : p \in DOMAIN f}

MeshInput(f) == [source |-> "faceArea", edges |-> Weighted(f), links |-> DOMAIN f]
MatrixInput(f) == [source |-> "algebraic", edges |-> Weighted(f), links |-> DOMAIN f]

Twice == [lower |-> 0, upper |-> 1, value |-> 1, face |-> 2]

MCInputs ==
  UNION {{MeshInput(f) : f \in [s -> {1, 2}]} : s \in SUBSET Ring}
    \cup UNION {{MatrixInput(f) : f \in [s -> {-1, 1}]} : s \in SUBSET Ring}
    \cup {[MeshInput(f) EXCEPT !.edges = @ \cup {Twice}] : f \in [Ring -> {1, 2}]}
    \cup {[MeshInput(f) EXCEPT !.links = @ \ {<<0, 1>>}] : f \in [Ring -> {1}]}
    \cup {MatrixInput(f) : f \in [{<<0, 1>>, <<1, 2>>} -> {0, 1}]}
=============================================================================
