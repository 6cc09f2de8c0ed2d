--------------------------- MODULE FieldOwnership ---------------------------
(***************************************************************************)
(* The way of the initial field values from the files of a case into a     *)
(* solver (solver_state.rs, runtime.rs and the start of a solve in         *)
(* flow.rs): read_initial_fields owns them, build_solver_state_plan        *)
(* describes them against the mesh of each region,                         *)
(* build_solver_runtime_data moves them into a runtime and                 *)
(* solve_laminar_simple takes U and p out of it.                           *)
(*                                                                         *)
(* These are library calls on one set of fields, in any order and any      *)
(* number, each returning an error wherever the code can.  A payload is    *)
(* its presence, a mesh is the region it belongs to.  How one file of the  *)
(* set is read is FieldFile, which FieldLoading puts in front.             *)
(***************************************************************************)
EXTENDS Naturals, FiniteSets

CONSTANT N                \* the number of fields in the set

ASSUME NAssumption == N \in Nat

VARIABLES
  pc,        \* unread, then which call runs and where it is; idle between calls
  fields,    \* the fields, as read: region, name and kind of internalField
  readable,  \* the regions whose polyMesh can be read
  source,    \* the fields of the InitialFieldSet that hold their values
  plan,      \* the SolverStatePlan: per field, its region's mesh and whether it was loaded
  cursor,    \* the field the running loop is at
  window,    \* current_region: the region of the plan loop's mesh window
  live,      \* the region meshes in memory
  reads,     \* how often the plan loop has read each region's mesh
  policy,    \* the FieldLoadPolicy of the running build
  draft,     \* the field buffers of the running build
  runtime    \* the field buffers of the caller's runtime

vars == <<pc, fields, readable, source, plan, cursor, window, live, reads, policy, draft, runtime>>

Fields == 1 .. N
Region == {"base", "region"}
Name == {"U", "p"}
Mesh == Region \cup {"unreadable"}
Policy == {"Full", "Summary"}

\* A list has the shape its mesh asks for, a short one has not; both have a payload.  Any other
\* value, or none, is no internalField that can be used.
Internal == {"uniform", "list", "short", "none"}
Field == [region : Region, name : Name, internal : Internal]

Buffer == {"absent", "empty", "held"}
NoPlan == [i \in {} |-> 0]
NoReads == [r \in Region |-> 0]
NoBuffers == [i \in Fields |-> "absent"]

NothingRead == [i \in Fields |-> [region |-> "base", name |-> "U", internal |-> "none"]]

Init == /\ pc = "unread"
        /\ fields = NothingRead
        /\ readable = {}
        /\ source = {}
        /\ plan = NoPlan
        /\ cursor = 1
        /\ window = "none"
        /\ live = {}
        /\ reads = NoReads
        /\ policy = "Summary"
        /\ draft = NoBuffers
        /\ runtime = NoBuffers

List(i) == fields[i].internal \in {"list", "short"}

\* There is an InitialFieldSet, of a case whose meshes can be read or not: the full policy keeps
\* the values of lists, the summary policy counts them.
Receive == /\ pc = "unread"
           /\ pc' = "idle"
           /\ fields' \in [Fields -> Field]
           /\ source' \in {{}, {i \in Fields : List(i)'}}
           /\ readable' \in SUBSET Region
           /\ UNCHANGED <<plan, cursor, window, live, reads, policy, draft, runtime>>

\* A call returns, and its local variables are gone.
Return == /\ pc' = "idle"
          /\ cursor' = 1
          /\ window' = "none"
          /\ live' = {}
          /\ reads' = NoReads
          /\ policy' = "Summary"
          /\ draft' = NoBuffers
-----------------------------------------------------------------------------
(***************************************************************************)
(* build_solver_state_plan, a loop over the fields with a window of one    *)
(* region mesh.                                                            *)
(***************************************************************************)
BeginPlan == /\ pc = "idle"
             /\ pc' = "planning"
             /\ plan' = NoPlan
             /\ UNCHANGED <<fields, readable, source, cursor, window, live, reads, policy, draft,
                            runtime>>

\* The base region sorts first, then U before p.
Rank(f) == (IF f.region = "base" THEN 0 ELSE 2) + (IF f.name = "U" THEN 0 ELSE 1)

\* Any order of fields passes.
AnyOrder(i) == TRUE

\* The field is not before its predecessor in the canonical order.
InOrder(i) == \A j \in Fields : j + 1 = i => Rank(fields[j]) <= Rank(fields[i])

PlanOutOfOrder == /\ pc = "planning"
                  /\ cursor \in Fields
                  /\ ~InOrder(cursor)
                  /\ Return
                  /\ plan' = NoPlan
                  /\ UNCHANGED <<fields, readable, source, runtime>>

\* The old region mesh is dropped before the next one is read.
DropMesh == /\ pc = "planning"
            /\ cursor \in Fields
            /\ InOrder(cursor)
            /\ window # fields[cursor].region
            /\ live' = {}
            /\ pc' = "reading"
            /\ UNCHANGED <<fields, readable, source, plan, cursor, window, reads, policy, draft,
                           runtime>>

\* Taking the mesh for read whatever the read said.
ReadMeshUnchecked == LET region == fields[cursor].region
                     IN  /\ pc = "reading"
                         /\ window' = region
                         /\ live' = live \cup {region}
                         /\ reads' = [reads EXCEPT ![region] = @ + 1]
                         /\ pc' = "planning"
                         /\ UNCHANGED <<fields, readable, source, plan, cursor, policy, draft,
                                        runtime>>

\* A mesh that cannot be read is remembered as such for the fields of its region.
ReadMesh == LET region == fields[cursor].region
            IN  /\ pc = "reading"
                /\ window' = region
                /\ live' = live \cup ({region} \cap readable)
                /\ reads' = [reads EXCEPT ![region] = @ + 1]
                /\ pc' = "planning"
                /\ UNCHANGED <<fields, readable, source, plan, cursor, policy, draft, runtime>>

MeshIn(meshes) == IF meshes = {} THEN "unreadable" ELSE CHOOSE r \in meshes : TRUE

PlanField == /\ pc = "planning"
             /\ cursor \in Fields
             /\ InOrder(cursor)
             /\ window = fields[cursor].region
             /\ plan' = [i \in 1 .. cursor |->
                          IF i < cursor THEN plan[i]
                          ELSE [mesh   |-> MeshIn(live), loaded |-> cursor \in source]]
             /\ cursor' = cursor + 1
             /\ UNCHANGED <<pc, fields, readable, source, window, live, reads, policy, draft,
                            runtime>>

EndPlan == /\ pc = "planning"
           /\ cursor = N + 1
           /\ Return
           /\ UNCHANGED <<fields, readable, source, plan, runtime>>
-----------------------------------------------------------------------------
(***************************************************************************)
(* build_solver_runtime_data.                                              *)
(***************************************************************************)

\* The status of the CPU buffer a planned field can have (build_cpu_buffer_plan).
Status(i) == IF fields[i].internal = "none" THEN "UnsupportedInternalField"
             ELSE IF fields[i].internal = "list" /\ ~plan[i].loaded THEN "NonUniformDataNotLoaded"
             ELSE IF fields[i].internal = "short" \/ plan[i].mesh = "unreadable" THEN "InvalidShape"
             ELSE IF fields[i].internal = "list" THEN "NonUniformReady"
             ELSE "UniformReady"

\* preflight_runtime_fields: the plan is of these fields as they are now, and a field of the
\* base mesh was planned against it.
Preflight == \A i \in Fields :
               /\ plan[i].loaded <=> i \in source
               /\ fields[i].region = "base" => plan[i].mesh = "base"

BeginBuild(p) == /\ pc = "idle"
                 /\ DOMAIN plan = Fields
                 /\ Preflight
                 /\ policy' = p
                 /\ pc' = "describing"
                 /\ UNCHANGED <<fields, readable, source, plan, cursor, window, live, reads, draft,
                                runtime>>

\* The buffer the descriptor pass prepares for a field: a field without a usable shape gets
\* a warning instead, the values of a list are moved later.
Prepared(i) ==
  IF plan[i].mesh = "unreadable" THEN "absent"
  ELSE CASE Status(i) = "UniformReady" -> IF policy = "Full" THEN "held" ELSE "empty"
         [] Status(i) = "NonUniformReady" -> "empty"
         [] Status(i) = "NonUniformDataNotLoaded" /\ policy = "Summary" -> "empty"
         [] OTHER -> "absent"

Describe == /\ pc = "describing"
            /\ cursor \in Fields
            /\ draft' = [draft EXCEPT ![cursor] = Prepared(cursor)]
            /\ cursor' = cursor + 1
            /\ UNCHANGED <<pc, fields, readable, source, plan, window, live, reads, policy,
                           runtime>>

\* The fields whose values the commit pass moves.
Sources == {i \in Fields : Status(i) = "NonUniformReady"}

\* The whole transfer table is checked before the first value moves.
CheckTransfers == /\ pc = "describing"
                  /\ cursor = N + 1
                  /\ policy = "Full"
                  /\ IF \A i \in Sources : draft[i] = "empty" /\ i \in source
                     THEN pc' = "moving" /\ UNCHANGED <<cursor, window, live, reads, policy, draft>>
                     ELSE Return
                  /\ UNCHANGED <<fields, readable, source, plan, runtime>>

\* Copying the values instead of moving them.
MoveCopies == /\ pc = "moving"
              /\ \E i \in Sources : draft[i] = "empty" /\ draft' = [draft EXCEPT ![i] = "held"]
              /\ UNCHANGED <<pc, fields, readable, source, plan, cursor, window, live, reads,
                             policy, runtime>>

\* In the order of the table, by taking each out of its source.
Move == /\ pc = "moving"
        /\ \E i \in Sources :
             /\ draft[i] = "empty"
             /\ \A j \in Sources : j < i => draft[j] = "held"
             /\ IF i \in source
                THEN /\ source' = source \ {i}
                     /\ draft' = [draft EXCEPT ![i] = "held"]
                     /\ UNCHANGED <<pc, cursor, window, live, reads, policy>>
                ELSE Return /\ UNCHANGED source
        /\ UNCHANGED <<fields, readable, plan, runtime>>

\* discard_remaining_internal_payloads, and the runtime is the caller's.
CommitFull == /\ pc = "moving"
              /\ \A i \in Sources : draft[i] = "held"
              /\ source' = {}
              /\ runtime' = draft
              /\ Return
              /\ UNCHANGED <<fields, readable, plan>>

CommitSummary == /\ pc = "describing"
                 /\ cursor = N + 1
                 /\ policy = "Summary"
                 /\ runtime' = draft
                 /\ Return
                 /\ UNCHANGED <<fields, readable, source, plan>>
-----------------------------------------------------------------------------
(***************************************************************************)
(* solve_laminar_simple up to its first iteration.                         *)
(***************************************************************************)
Named(n) == {i \in Fields : fields[i].region = "base" /\ fields[i].name = n}

\* runtime_field_index: the first buffer of that name.
First(n, i) == /\ i \in Named(n)
               /\ runtime[i] # "absent"
               /\ \A j \in Named(n) : runtime[j] # "absent" => i <= j

\* The velocity and the pressure a solve can take.
Takeable(u, p) == /\ First("U", u) /\ runtime[u] = "held"
                  /\ First("p", p) /\ runtime[p] = "held"

BeginSolve == /\ pc = "idle"
              /\ Named("U") # {} /\ Named("p") # {}
              /\ pc' = "setup"
              /\ UNCHANGED <<fields, readable, source, plan, cursor, window, live, reads, policy,
                             draft, runtime>>

\* take_runtime_initial_fields: everything that can fail comes before the values leave.
Take == /\ pc = "setup"
        /\ \E u, p \in Fields :
             /\ Takeable(u, p)
             /\ runtime' = [runtime EXCEPT ![u] = "empty", ![p] = "empty"]
        /\ pc' = "iterating"
        /\ UNCHANGED <<fields, readable, source, plan, cursor, window, live, reads, policy, draft>>

\* Taking U before p is looked for.
TakeFailsWithVelocity ==
  /\ pc = "setup"
  /\ ~\E u, p \in Fields : Takeable(u, p)
  /\ runtime' = [i \in Fields |-> IF First("U", i) THEN "empty" ELSE runtime[i]]
  /\ pc' = "idle"
  /\ UNCHANGED <<fields, readable, source, plan, cursor, window, live, reads, policy, draft>>

\* One of the two was not built, was built without values or has been taken before.
TakeFails ==
  /\ pc = "setup"
  /\ ~\E u, p \in Fields : Takeable(u, p)
  /\ pc' = "idle"
  /\ UNCHANGED <<fields, readable, source, plan, cursor, window, live, reads, policy, draft, runtime>>

EndSolve == /\ pc = "iterating"
            /\ pc' = "idle"
            /\ UNCHANGED <<fields, readable, source, plan, cursor, window, live, reads, policy,
                           draft, runtime>>

\* Anything else that can fail, and a panic no one catches: not the commit pass.
Fails == /\ pc \in {"planning", "reading", "describing", "setup"}
         /\ Return
         /\ plan' = IF pc \in {"planning", "reading"} THEN NoPlan ELSE plan
         /\ UNCHANGED <<fields, readable, source, runtime>>

\* The calls on a set of fields.
Work == \/ BeginPlan \/ PlanOutOfOrder \/ DropMesh \/ ReadMesh \/ PlanField \/ EndPlan
        \/ \E p \in Policy : BeginBuild(p)
        \/ Describe \/ CheckTransfers \/ Move \/ CommitFull \/ CommitSummary
        \/ BeginSolve \/ Take \/ TakeFails \/ EndSolve \/ Fails

Next == Receive \/ Work

Spec == Init /\ [][Next]_vars
-----------------------------------------------------------------------------
(***************************************************************************)
(* Properties.                                                             *)
(***************************************************************************)

\* The types of the variables.
TypeOK == /\ pc \in {"unread", "idle", "planning", "reading", "describing", "moving", "setup", "iterating"}
          /\ fields \in [Fields -> Field]
          /\ readable \subseteq Region
          /\ source \subseteq Fields
          /\ \E n \in 0 .. N : plan \in [1 .. n -> [mesh : Mesh, loaded : BOOLEAN]]
          /\ cursor \in 1 .. N + 1
          /\ window \in Region \cup {"none"}
          /\ live \subseteq readable
          /\ reads \in [Region -> Nat]
          /\ policy \in Policy
          /\ draft \in [Fields -> Buffer]
          /\ runtime \in [Fields -> Buffer]

\* The values of a list are in one place: in the InitialFieldSet, in the buffers of a
\* running build or in the runtime, and never copied (transfer_preflighted_nonuniform_payloads).
OneOwner == \A i \in Fields : List(i) =>
              /\ ~(i \in source /\ draft[i] = "held")
              /\ ~(i \in source /\ runtime[i] = "held")
              /\ ~(draft[i] = "held" /\ runtime[i] = "held")

\* The plan loop reads the mesh of each region once, holds one mesh at a time, and
\* describes every field by the mesh of its own region, or by none if that cannot be read
\* (the mesh window of build_solver_state_plan).
PlanWindow == /\ \A r \in Region : reads[r] <= 1
              /\ Cardinality(live) <= 1
              /\ \A i \in DOMAIN plan :
                   plan[i].mesh = IF fields[i].region \in readable THEN fields[i].region
                                  ELSE "unreadable"

\* A full build hands out no buffer without values, and only buffers whose region mesh
\* was read; a summary build only buffers without.  A solve that begins therefore starts
\* from two complete fields (build_solver_runtime_data, take_runtime_initial_fields).
BuffersUsable ==
  [][runtime' # runtime =>
       IF pc = "setup"
       THEN \A i \in Fields : runtime'[i] # runtime[i] => fields[i].internal \notin {"short", "none"}
       ELSE \A i \in Fields :
              /\ runtime'[i] # "absent" => fields[i].region \in readable
              /\ runtime'[i] # (IF policy = "Full" THEN "empty" ELSE "held")]_vars

\* Who holds the values of a field; a running build has not taken them yet.
Owner(i) == IF runtime[i] = "held" THEN "runtime"
            ELSE IF i \in source \/ (List(i) /\ draft[i] = "held") THEN "source"
            ELSE "none"

OneShot == INSTANCE FieldOneShot WITH read    <- pc # "unread",
                                      uniform <- {i \in Fields : ~List(i)},
                                      owner   <- [i \in Fields |-> Owner(i)]

\* A failed build takes nothing, a successful one everything it can use; a solve takes
\* both of its fields or none; what has been taken does not come back (the one-shot
\* contract of solve_laminar_simple).
OneShotSpec == OneShot!Spec
=============================================================================
