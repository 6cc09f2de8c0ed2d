------------------------- MODULE FieldLoadingProofs -------------------------
(***************************************************************************)
(* Proofs about FieldOwnership and FieldLoading: for any number of fields, *)
(* the mesh window of the plan loop, the single owner of a payload, and    *)
(* that the calls implement FieldOneShot; for every file, that the reader  *)
(* of a stream and a cursor over its tokens skip the same entries, and     *)
(* that a file is read if it is one, as what it says; and that reading in  *)
(* front of it leaves the set of fields its way.                           *)
(***************************************************************************)
EXTENDS FieldLoading, FieldProgress, Integers, FiniteSetTheorems, SequenceTheorems, WellFoundedInduction, TLAPS

PlanEntry == [mesh : Mesh, loaded : BOOLEAN]

Planning == pc \in {"planning", "reading"}
Building == pc \in {"describing", "moving"}

\* The types, but for the plan.
Types == /\ pc \in {"unread", "idle", "planning", "reading", "describing", "moving", "setup", "iterating"}
         /\ fields \in [Fields -> Field]
         /\ readable \subseteq Region
         /\ source \subseteq {i \in Fields : List(i)}
         /\ cursor \in 1 .. N + 1
         /\ window \in Region \cup {"none"}
         /\ live \subseteq readable
         /\ reads \in [Region -> Nat]
         /\ policy \in Policy
         /\ draft \in [Fields -> Buffer]
         /\ runtime \in [Fields -> Buffer]

\* The plan covers the fields up to the cursor; outside the loop it is complete or empty.
PlanTypes == /\ Planning => plan \in [1 .. (cursor - 1) -> PlanEntry]
             /\ ~Planning => plan \in [{} -> PlanEntry] \cup [Fields -> PlanEntry]
             /\ Building => plan \in [Fields -> PlanEntry]

\* The window is the mesh of the cursor's field or of the one before it; what has been read
\* before is the base mesh, once, and only if the window is past it.
Window ==
  /\ ~Planning => window = "none" /\ live = {} /\ reads = NoReads
  /\ ~Planning /\ ~Building => cursor = 1
  /\ pc = "planning" =>
       \/ window = "none" /\ live = {} /\ reads = NoReads /\ cursor = 1
       \/ /\ window \in Region
          /\ live = {window} \cap readable
          /\ reads[window] = 1
          /\ reads["base"] <= 1
          /\ window = "base" => reads["region"] = 0
          /\ \E j \in Fields : window = fields[j].region /\ (j = cursor \/ j + 1 = cursor)
  /\ pc = "reading" =>
       /\ live = {}
       /\ cursor \in Fields
       /\ \/ window = "none" /\ reads = NoReads
          \/ /\ window = "base" /\ reads["base"] = 1 /\ reads["region"] = 0
             /\ fields[cursor].region = "region"

\* Each planned field is described by the mesh of its own region.
OwnMesh == \A i \in DOMAIN plan :
             plan[i].mesh = IF fields[i].region \in readable THEN fields[i].region
                            ELSE "unreadable"

\* The buffers of a running build: before the commit pass no list has its values, in it each
\* list has moved or is still at its source.
Draft ==
  /\ ~Building => draft = NoBuffers
  /\ pc = "describing" => \A i \in Fields : draft[i] = "held" => ~List(i) /\ policy = "Full"
  /\ pc = "moving" => policy = "Full" /\ \A i \in Sources : draft[i] = "empty" => i \in source
  /\ Building => \A i \in Fields :
       /\ draft[i] # "absent" => plan[i].mesh # "unreadable"
       /\ policy = "Full" /\ draft[i] = "empty" => i \in Sources
       /\ draft[i] = "held" => fields[i].internal \notin {"short", "none"}
  /\ \A i \in Fields : runtime[i] = "held" => fields[i].internal \notin {"short", "none"}

\* Before a set is received there is nothing of it.
Unread == pc = "unread" => /\ fields = NothingRead /\ source = {}
                           /\ plan = NoPlan /\ runtime = NoBuffers

IInv == Types /\ PlanTypes /\ Window /\ OwnMesh /\ Draft /\ OneOwner
-----------------------------------------------------------------------------
\* The initial states satisfy the invariant.
LEMMA Initially == ASSUME NAssumption, Init PROVE IInv /\ Unread
<1>1. Types
  BY DEF NAssumption, Init, Types, Fields, Field, Internal, Name, Region, Policy, NoBuffers, NoReads,
         Buffer, NothingRead
<1>2. PlanTypes /\ OwnMesh
  BY DEF Init, PlanTypes, OwnMesh, Planning, Building, NoPlan
<1>3. Window
  BY DEF Init, Window, Planning, Building
<1>4. Draft /\ OneOwner /\ Unread
  BY <1>1 DEF Init, Draft, Types, Planning, Building, NoBuffers, OneOwner, Unread
<1> QED
  BY <1>1, <1>2, <1>3, <1>4 DEF IInv

\* A call that returns without touching plan, source and runtime keeps the invariant.
LEMMA Returning ==
  ASSUME NAssumption, IInv, Return, UNCHANGED <<fields, readable, source, runtime>>,
         plan' \in [{} -> PlanEntry] \cup [Fields -> PlanEntry],
         \A i \in DOMAIN plan' : plan'[i] = plan[i] /\ i \in DOMAIN plan
  PROVE  IInv'
<1> USE DEF IInv, Return
<1>1. Types'
  BY DEF NAssumption, Types, NoReads, NoBuffers, Region, Policy, Buffer, Fields, List
<1>2. PlanTypes'
  BY DEF PlanTypes, Planning, Building
<1>3. Window'
  BY DEF Window, Planning, Building
<1>4. OwnMesh'
  BY DEF OwnMesh
<1>5. Draft' /\ OneOwner'
  BY <1>1 DEF Draft, Types, Building, NoBuffers, OneOwner, List
<1> QED
  BY <1>1, <1>2, <1>3, <1>4, <1>5

\* Receiving a set keeps the invariant.
LEMMA Receiving == ASSUME NAssumption, IInv, Unread, Receive PROVE IInv'
<1> USE DEF NAssumption, IInv, Receive
<1>1. Types'
  <2>1. source' \subseteq {i \in Fields : List(i)'}
    OBVIOUS
  <2>2. live' = {}
    BY DEF Window, Planning, Building
  <2> QED
    BY <2>1, <2>2 DEF Types, List
<1>2. PlanTypes' /\ OwnMesh'
  BY DEF Unread, PlanTypes, OwnMesh, Planning, Building, NoPlan
<1>3. Window'
  BY DEF Window, Planning, Building
<1>4. Draft' /\ OneOwner'
  BY DEF Unread, Draft, Building, NoBuffers, OneOwner
<1> QED
  BY <1>1, <1>2, <1>3, <1>4

\* A state change that leaves the buffers and the payloads alone keeps what is said of them.
LEMMA SameBuffers ==
  ASSUME Draft, OneOwner, UNCHANGED <<fields, source, draft, runtime>>, ~Building, ~Building',
         cursor' \in 1 .. N + 1
  PROVE  Draft' /\ OneOwner'
BY DEF Draft, OneOwner, Building, List

\* The steps of the plan loop keep the invariant.
LEMMA PlanSteps ==
  ASSUME NAssumption, IInv,
         BeginPlan \/ PlanOutOfOrder \/ DropMesh \/ ReadMesh \/ PlanField \/ EndPlan
  PROVE  IInv'
<1> USE DEF NAssumption
<1>1. CASE BeginPlan
  <2> USE <1>1 DEF IInv, BeginPlan
  <2>1. Types'
    BY DEF Types, NoReads, Fields, List
  <2>0. cursor = 1 /\ 1 .. (cursor - 1) = {}
    BY DEF Window, Planning, Building
  <2>2. PlanTypes' /\ OwnMesh'
    BY <2>0 DEF PlanTypes, OwnMesh, Planning, Building, NoPlan
  <2>3. Window'
    BY <2>0 DEF Window, Planning
  <2>4. Draft' /\ OneOwner'
    BY <2>1, SameBuffers DEF Types, Building
  <2> QED
    BY <2>1, <2>2, <2>3, <2>4
<1>2. CASE PlanOutOfOrder
  BY <1>2, Returning DEF PlanOutOfOrder, NoPlan
<1>3. CASE DropMesh
  <2> USE <1>3 DEF IInv, DropMesh
  <2>1. Types'
    BY DEF Types, List
  <2>2. PlanTypes' /\ OwnMesh'
    BY DEF PlanTypes, OwnMesh, Planning, Building
  <2>3. Window'
    <3>1. CASE window = "none"
      BY <3>1 DEF Window, Planning, Region
    <3>2. CASE window # "none"
      <4>1. PICK j \in Fields : window = fields[j].region /\ (j = cursor \/ j + 1 = cursor)
        BY <3>2 DEF Window
      <4>2. Rank(fields[j]) <= Rank(fields[cursor]) /\ fields[j].region # fields[cursor].region
        BY <4>1 DEF InOrder
      <4>3. fields[j] \in Field /\ fields[cursor] \in Field
        BY <4>1 DEF Types
      <4>4. fields[j].region = "base" /\ fields[cursor].region = "region"
        BY <4>2, <4>3 DEF Rank, Field, Region, Name
      <4> QED
        BY <3>2, <4>1, <4>4 DEF Window, Planning, Region
    <3> QED
      BY <3>1, <3>2
  <2>4. Draft' /\ OneOwner'
    BY <2>1, SameBuffers DEF Types, Building
  <2> QED
    BY <2>1, <2>2, <2>3, <2>4
<1>4. CASE ReadMesh
  <2> USE <1>4 DEF IInv, ReadMesh
  <2>1. cursor \in Fields /\ fields[cursor].region \in Region
    BY DEF Window, Types, Field
  <2>2. Types'
    BY <2>1 DEF Types, List
  <2>3. PlanTypes' /\ OwnMesh'
    BY DEF PlanTypes, OwnMesh, Planning, Building
  <2>4. Window'
    <3>1. window' \in Region /\ live' = {window'} \cap readable'
      BY <2>1 DEF Window
    <3>2. CASE window = "none"
      BY <2>1, <3>1, <3>2 DEF Window, Planning, Building, Region, NoReads
    <3>3. CASE window # "none"
      <4>1. reads["base"] = 1 /\ reads["region"] = 0 /\ window' = "region"
        BY <3>3 DEF Window
      <4>2. reads' = [reads EXCEPT !["region"] = reads["region"] + 1] /\ reads \in [Region -> Nat]
        BY <4>1 DEF Types
      <4>3. reads'["base"] = 1 /\ reads'["region"] = 1 /\ reads'[window'] = 1
        BY <4>1, <4>2 DEF Region
      <4>4. pc' = "planning" /\ \E j \in Fields' : window' = fields'[j].region /\ j = cursor'
        BY <2>1
      <4> HIDE DEF ReadMesh, IInv
      <4> QED
        BY <3>1, <4>1, <4>3, <4>4 DEF Window, Planning, Building
    <3> QED
      BY <3>2, <3>3
  <2>5. Draft' /\ OneOwner'
    BY <2>2, SameBuffers DEF Types, Building
  <2> QED
    BY <2>2, <2>3, <2>4, <2>5
<1>5. CASE PlanField
  <2> USE <1>5 DEF IInv, PlanField
  <2>1. cursor \in Fields /\ fields[cursor].region \in Region
    BY DEF Types, Field
  <2>2. Types'
    BY <2>1 DEF Types, List, Fields
  <2>3. MeshIn(live) = IF fields[cursor].region \in readable THEN fields[cursor].region
                       ELSE "unreadable"
    BY <2>1 DEF Window, MeshIn, Region
  <2>4. PlanTypes'
    BY <2>1, <2>3 DEF PlanTypes, Planning, Building, PlanEntry, Mesh, Types, Fields
  <2>5. OwnMesh'
    BY <2>1, <2>3 DEF OwnMesh, PlanTypes, Planning, Fields
  <2>6. Window'
    BY <2>1 DEF Window, Planning, Region, Fields
  <2>7. Draft' /\ OneOwner'
    BY <2>2, SameBuffers DEF Types, Building
  <2> QED
    BY <2>2, <2>4, <2>5, <2>6, <2>7
<1>6. CASE EndPlan
  <2>1. plan \in [Fields -> PlanEntry]
    BY <1>6 DEF EndPlan, IInv, PlanTypes, Planning, Fields
  <2> QED
    BY <1>6, <2>1, Returning DEF EndPlan
<1> QED
  BY <1>1, <1>2, <1>3, <1>4, <1>5, <1>6

\* What the status of a planned field says of it.
LEMMA StatusFacts ==
  ASSUME Types, PlanTypes, pc = "describing" \/ pc = "moving", NEW i \in Fields
  PROVE  /\ Status(i) = "UniformReady" => fields[i].internal = "uniform"
         /\ i \in Sources => /\ fields[i].internal = "list"
                            /\ plan[i].loaded
BY DEF Types, PlanTypes, Building, Status, Sources, List, Field, Internal, PlanEntry, Mesh

\* What the descriptor pass prepares for a field.
LEMMA PreparedFacts ==
  ASSUME Types, PlanTypes, pc = "describing", NEW i \in Fields
  PROVE  /\ Prepared(i) \in Buffer
         /\ Prepared(i) = "held" => fields[i].internal = "uniform" /\ policy = "Full"
         /\ Prepared(i) # "absent" => plan[i].mesh # "unreadable"
         /\ policy = "Full" /\ Prepared(i) = "empty" => i \in Sources
<1>1. Status(i) = "UniformReady" => fields[i].internal = "uniform"
  BY StatusFacts
<1>2. policy = "Full" \/ policy = "Summary"
  BY DEF Types, Policy
<1>3. i \in Sources <=> Status(i) = "NonUniformReady"
  BY DEF Sources
<1>4. /\ Prepared(i) = "held" => Status(i) = "UniformReady" /\ policy = "Full"
      /\ Prepared(i) \in {"absent", "empty", "held"}
      /\ Prepared(i) # "absent" => plan[i].mesh # "unreadable"
      /\ policy = "Full" /\ Prepared(i) = "empty" => Status(i) = "NonUniformReady"
  BY <1>2 DEF Prepared
<1> QED
  BY <1>1, <1>3, <1>4 DEF Buffer

\* The steps of a build keep the invariant.
LEMMA BuildSteps ==
  ASSUME NAssumption, IInv,
         (\E p \in Policy : BeginBuild(p)) \/ Describe \/ CheckTransfers \/ Move \/ CommitFull
         \/ CommitSummary
  PROVE  IInv'
<1> USE DEF NAssumption
<1>1. ASSUME NEW p \in Policy, BeginBuild(p) PROVE IInv'
  <2> USE <1>1 DEF IInv, BeginBuild
  <2>1. Types'
    BY DEF Types, List
  <2>2. PlanTypes' /\ OwnMesh' /\ Window'
    BY DEF PlanTypes, OwnMesh, Window, Planning, Building
  <2>3. Draft' /\ OneOwner'
    BY <2>1 DEF Draft, OneOwner, Building, NoBuffers, List, Types
  <2> QED
    BY <2>1, <2>2, <2>3
<1>2. CASE Describe
  <2> USE <1>2 DEF IInv, Describe
  <2>1. /\ Prepared(cursor) \in Buffer
        /\ Prepared(cursor) = "held" => fields[cursor].internal = "uniform" /\ policy = "Full"
        /\ Prepared(cursor) # "absent" => plan[cursor].mesh # "unreadable"
        /\ policy = "Full" /\ Prepared(cursor) = "empty" => cursor \in Sources
    BY PreparedFacts
  <2>2. Types'
    BY <2>1 DEF Types, List, Fields
  <2>3. PlanTypes' /\ OwnMesh' /\ Window'
    BY DEF PlanTypes, OwnMesh, Window, Planning, Building
  <2>4. Sources' = Sources
    <3>1. UNCHANGED <<fields, plan>>
      OBVIOUS
    <3>2. \A i : Status(i)' = Status(i)
      BY <3>1, Zenon DEF Status
    <3> QED
      BY <3>2, Zenon DEF Sources, Fields
  <2>5. Draft'
    BY <2>1, <2>4 DEF Draft, Types, Building, List
  <2>6. OneOwner'
    BY <2>1 DEF OneOwner, Types, List
  <2> QED
    BY <2>2, <2>3, <2>5, <2>6
<1>3. CASE CheckTransfers
  <2>1. plan \in [Fields -> PlanEntry]
    BY <1>3 DEF CheckTransfers, IInv, PlanTypes, Building
  <2>2. CASE \A i \in Sources : draft[i] = "empty" /\ i \in source
    <3> USE <1>3, <2>2 DEF IInv, CheckTransfers
    <3>1. Types'
      BY DEF Types, List
    <3>2. PlanTypes' /\ OwnMesh' /\ Window'
      BY DEF PlanTypes, OwnMesh, Window, Planning, Building
    <3>3. Sources' = Sources
      BY DEF Sources, Status
    <3>4. Draft' /\ OneOwner'
      BY <3>3 DEF Draft, OneOwner, Building, List
    <3> QED
      BY <3>1, <3>2, <3>4
  <2>3. CASE ~\A i \in Sources : draft[i] = "empty" /\ i \in source
    BY <1>3, <2>1, <2>3, Returning DEF CheckTransfers
  <2> QED
    BY <2>2, <2>3
<1>4. CASE Move
  <2> USE <1>4 DEF IInv, Move
  <2>1. PICK i \in Sources : /\ draft[i] = "empty"
                            /\ i \in source
                            /\ source' = source \ {i}
                            /\ draft' = [draft EXCEPT ![i] = "held"]
                            /\ UNCHANGED <<pc, cursor, window, live, reads, policy>>
    BY DEF Draft
  <2>2. i \in Fields /\ fields[i].internal = "list"
    BY StatusFacts DEF Sources
  <2>3. Types'
    BY <2>1, <2>2 DEF Types, List, Buffer
  <2>4. PlanTypes' /\ OwnMesh' /\ Window'
    BY <2>1 DEF PlanTypes, OwnMesh, Window, Planning, Building
  <2>5. Sources' = Sources
    BY DEF Sources, Status
  <2>6. Draft'
    BY <2>1, <2>2, <2>5 DEF Draft, Types, Building
  <2>7. OneOwner'
    BY <2>1, <2>2 DEF OneOwner, Types, List
  <2> QED
    BY <2>3, <2>4, <2>6, <2>7
<1>5. CASE CommitFull \/ CommitSummary
  <2>1. /\ Return /\ runtime' = draft /\ source' \subseteq source
        /\ UNCHANGED <<fields, readable, plan>>
        /\ plan \in [Fields -> PlanEntry] /\ Building
    BY <1>5 DEF CommitFull, CommitSummary, IInv, PlanTypes, Building
  <2> USE DEF IInv, Return
  <2>2. Types'
    BY <2>1 DEF Types, NoReads, NoBuffers, Region, Policy, Buffer, Fields, List
  <2>3. PlanTypes' /\ OwnMesh' /\ Window'
    BY <2>1 DEF PlanTypes, OwnMesh, Window, Planning, Building
  <2>4. Draft'
    BY <2>1 DEF Draft, Building, NoBuffers, Types
  <2>5. OneOwner'
    BY <2>1 DEF OneOwner, NoBuffers, List
  <2> QED
    BY <2>2, <2>3, <2>4, <2>5
<1> QED
  BY <1>1, <1>2, <1>3, <1>4, <1>5

\* The steps of a solve, and a failing call, keep the invariant.
LEMMA SolveSteps ==
  ASSUME NAssumption, IInv, BeginSolve \/ Take \/ TakeFails \/ EndSolve \/ Fails
  PROVE  IInv'
<1> USE DEF NAssumption
<1>1. CASE BeginSolve \/ TakeFails \/ EndSolve
  <2> USE <1>1 DEF IInv, BeginSolve, TakeFails, EndSolve
  <2>1. Types'
    BY DEF Types, List
  <2>2. PlanTypes' /\ OwnMesh' /\ Window'
    BY DEF PlanTypes, OwnMesh, Window, Planning, Building
  <2>3. Draft' /\ OneOwner'
    BY <2>1, SameBuffers DEF Types, Building
  <2> QED
    BY <2>1, <2>2, <2>3
<1>2. CASE Take
  <2> USE <1>2 DEF IInv, Take
  <2>1. PICK u, p \in Fields : runtime' = [runtime EXCEPT ![u] = "empty", ![p] = "empty"]
    OBVIOUS
  <2>2. Types'
    BY <2>1 DEF Types, List, Buffer
  <2>3. PlanTypes' /\ OwnMesh' /\ Window'
    BY DEF PlanTypes, OwnMesh, Window, Planning, Building
  <2>4. \A i \in Fields : runtime'[i] = "held" => runtime[i] = "held"
    BY <2>1 DEF Types
  <2>5. Draft' /\ OneOwner'
    BY <2>4 DEF Draft, OneOwner, Building, List
  <2> QED
    BY <2>2, <2>3, <2>5
<1>3. CASE Fails
  <2>1. /\ plan' \in [{} -> PlanEntry] \cup [Fields -> PlanEntry]
        /\ \A i \in DOMAIN plan' : plan'[i] = plan[i] /\ i \in DOMAIN plan
    BY <1>3 DEF Fails, IInv, PlanTypes, Planning, Building, NoPlan
  <2> QED
    BY <1>3, <2>1, Returning DEF Fails
<1> QED
  BY <1>1, <1>2, <1>3

\* After any step there is a set.
LEMMA OnceReceived == ASSUME Next PROVE pc' # "unread"
BY DEF Next, Work, Receive, BeginPlan, PlanOutOfOrder, DropMesh, ReadMesh, PlanField, EndPlan, BeginBuild,
       Describe, CheckTransfers, Move, CommitFull, CommitSummary, BeginSolve, Take, TakeFails,
       EndSolve, Fails, Return
-----------------------------------------------------------------------------
\* The invariant holds in every reachable state.
THEOREM Invariance == ASSUME NAssumption PROVE Spec => [](IInv /\ Unread)
<1>1. Init => IInv /\ Unread
  BY Initially
<1>2. IInv /\ Unread /\ [Next]_vars => (IInv /\ Unread)'
  <2> SUFFICES ASSUME IInv, Unread, [Next]_vars PROVE (IInv /\ Unread)'
    OBVIOUS
  <2>1. CASE UNCHANGED vars
    BY <2>1 DEF vars, IInv, Types, PlanTypes, Window, OwnMesh, Draft, OneOwner, Unread, Planning,
                Building, Sources, Status, List
  <2>2. CASE Next
    <3>1. IInv'
      BY <2>2, Receiving, PlanSteps, BuildSteps, SolveSteps DEF Next, Work
    <3>2. Unread'
      BY <2>2, OnceReceived DEF Unread
    <3> QED
      BY <3>1, <3>2
  <2> QED
    BY <2>1, <2>2
<1> QED
  BY <1>1, <1>2, PTL DEF Spec

\* The variables have their types.
THEOREM TypeCorrect == ASSUME NAssumption PROVE Spec => []TypeOK
<1>1. IInv => TypeOK
  <2> SUFFICES ASSUME IInv PROVE TypeOK
    OBVIOUS
  <2>1. \E n \in 0 .. N : plan \in [1 .. n -> PlanEntry]
    <3>1. CASE Planning
      <4>1. plan \in [1 .. (cursor - 1) -> PlanEntry] /\ cursor \in 1 .. N + 1
        BY <3>1 DEF IInv, Types, PlanTypes
      <4>2. cursor - 1 \in 0 .. N
        BY <4>1 DEF NAssumption
      <4> QED
        BY <4>1, <4>2
    <3>2. CASE plan \in [{} -> PlanEntry]
      <4>1. 1 .. 0 = {} /\ 0 \in 0 .. N
        BY DEF NAssumption
      <4>2. plan \in [1 .. 0 -> PlanEntry]
        BY <3>2, <4>1
      <4> QED
        BY <4>1, <4>2
    <3>3. CASE plan \in [Fields -> PlanEntry]
      BY <3>3 DEF NAssumption, Fields
    <3> QED
      BY <3>1, <3>2, <3>3 DEF IInv, PlanTypes
  <2> QED
    BY <2>1 DEF IInv, Types, TypeOK, PlanEntry
<1> QED
  BY <1>1, Invariance, PTL

\* The values of a list are never in two places.
THEOREM SingleOwner == ASSUME NAssumption PROVE Spec => []OneOwner
<1>1. IInv => OneOwner
  BY DEF IInv
<1> QED
  BY <1>1, Invariance, PTL

\* The plan loop reads each region's mesh once, holds one, and describes every field by its own.
THEOREM WindowCorrect == ASSUME NAssumption PROVE Spec => []PlanWindow
<1>1. IInv => PlanWindow
  <2> SUFFICES ASSUME IInv PROVE PlanWindow
    OBVIOUS
  <2>1. \A r \in Region : reads[r] <= 1
    BY DEF IInv, Window, Region, NoReads, Types, Planning
  <2>2. live = {} \/ \E r \in Region : live = {r}
    BY DEF IInv, Window, Planning, Types
  <2>3. Cardinality(live) <= 1
    <3>1. Cardinality({}) = 0
      BY FS_EmptySet
    <3>2. \A r \in Region : Cardinality({r}) = 1
      BY FS_Singleton
    <3>3. CASE live = {}
      BY <3>1, <3>3
    <3>4. ASSUME NEW r \in Region, live = {r} PROVE Cardinality(live) <= 1
      <4>1. Cardinality(live) = 1
        BY <3>2, <3>4
      <4> QED
        BY <4>1
    <3> QED
      BY <2>2, <3>3, <3>4
  <2> QED
    BY <2>1, <2>3 DEF PlanWindow, IInv, OwnMesh
<1> QED
  BY <1>1, Invariance, PTL

\* Only complete buffers, of meshes that were read, reach the caller, and only they are solved.
THEOREM BuffersComplete == ASSUME NAssumption PROVE Spec => BuffersUsable
<1> DEFINE Handed ==
      runtime' # runtime =>
        IF pc = "setup"
        THEN \A i \in Fields : runtime'[i] # runtime[i] => fields[i].internal \notin {"short", "none"}
        ELSE \A i \in Fields :
               /\ runtime'[i] # "absent" => fields[i].region \in readable
               /\ runtime'[i] # (IF policy = "Full" THEN "empty" ELSE "held")
<1>1. IInv /\ [Next]_vars => [Handed]_vars
  <2> SUFFICES ASSUME IInv, Next, runtime' # runtime PROVE Handed
    OBVIOUS
  <2>1. CASE Take
    BY <2>1 DEF Take, Takeable, IInv, Types, Draft
  <2>2. CASE CommitFull
    <3>1. \A i \in Fields : draft[i] # "absent" => fields[i].region \in readable
      BY <2>2 DEF CommitFull, IInv, Draft, Building, OwnMesh, PlanTypes
    <3>2. \A i \in Fields : draft[i] # "empty"
      BY <2>2 DEF CommitFull, IInv, Draft, Building
    <3> QED
      BY <2>2, <3>1, <3>2 DEF CommitFull, IInv, Draft
  <2>3. CASE CommitSummary
    <3>1. \A i \in Fields : draft[i] # "absent" => fields[i].region \in readable
      BY <2>3 DEF CommitSummary, IInv, Draft, Building, OwnMesh, PlanTypes
    <3>2. \A i \in Fields : draft[i] # "held"
      BY <2>3 DEF CommitSummary, IInv, Draft
    <3> QED
      BY <2>3, <3>1, <3>2 DEF CommitSummary
  <2>4. Take \/ CommitFull \/ CommitSummary
    BY DEF Next, Work, Receive, BeginPlan, PlanOutOfOrder, DropMesh, ReadMesh, PlanField, EndPlan, BeginBuild,
           Describe, CheckTransfers, Move, BeginSolve, TakeFails, EndSolve, Fails
  <2> QED
    BY <2>1, <2>2, <2>3, <2>4
<1> QED
  BY <1>1, Invariance, PTL DEF Spec, BuffersUsable
-----------------------------------------------------------------------------
\* A field that keeps its buffers and its place at the source keeps its owner.
LEMMA SameOwner ==
  ASSUME UNCHANGED <<fields, source, runtime>>,
         \A i \in Fields : List(i) => (draft[i] = "held" <=> draft'[i] = "held"),
         pc # "unread" <=> pc' # "unread"
  PROVE  UNCHANGED <<pc # "unread", {i \in Fields : ~List(i)}, [i \in Fields |-> Owner(i)]>>
<1>1. \A i \in Fields : List(i)' = List(i) /\ Owner(i)' = Owner(i)
  BY DEF Owner, List
<1> QED
  BY <1>1

\* The steps that take no payload from its owner.
LEMMA Stutters ==
  ASSUME IInv, Next, ~Receive, ~Take, ~CommitFull, ~CommitSummary
  PROVE  UNCHANGED <<pc # "unread", {i \in Fields : ~List(i)}, [i \in Fields |-> Owner(i)]>>
<1> USE DEF IInv
<1>0. ~Receive /\ (pc # "unread" <=> pc' # "unread")
  <2>1. pc # "unread"
    BY DEF Next, Work, BeginPlan, PlanOutOfOrder, DropMesh, ReadMesh, PlanField, EndPlan, BeginBuild,
           Describe, CheckTransfers, Move, BeginSolve, TakeFails, EndSolve, Fails
  <2> QED
    BY <2>1, OnceReceived
<1>1. CASE Move
  <2>1. PICK i \in Sources : /\ i \in source
                            /\ source' = source \ {i}
                            /\ draft' = [draft EXCEPT ![i] = "held"]
                            /\ UNCHANGED <<fields, runtime>>
    BY <1>1 DEF Move, Draft
  <2>2. i \in Fields /\ List(i) /\ runtime[i] # "held"
    BY <1>1, <2>1, StatusFacts DEF Move, Sources, OneOwner, List
  <2>3. \A j \in Fields : List(j)' = List(j) /\ Owner(j)' = Owner(j)
    BY <2>1, <2>2 DEF Owner, List, Types
  <2> QED
    BY <1>0, <2>3
<1>2. CASE ~Move
  <2>1. UNCHANGED <<fields, source, runtime>>
    BY <1>0, <1>2 DEF Next, Work, BeginPlan, PlanOutOfOrder, DropMesh, ReadMesh, PlanField, EndPlan, BeginBuild,
                Describe, CheckTransfers, BeginSolve, TakeFails, EndSolve, Fails
  <2>2. pc # "moving"
    BY <1>0, <1>2 DEF Next, Work, BeginPlan, PlanOutOfOrder, DropMesh, ReadMesh, PlanField, EndPlan, BeginBuild,
                Describe, CheckTransfers, BeginSolve, Take, TakeFails, EndSolve, Fails, CommitFull,
                CommitSummary
  <2>3. \A i \in Fields : List(i) => draft[i] # "held"
    BY <2>2 DEF Draft, Building, NoBuffers
  <2>4. \A i \in Fields : List(i) => draft'[i] # "held"
    <3>1. CASE Describe
      BY <2>3, <3>1, PreparedFacts DEF Describe, Types, List
    <3>2. CASE ~Describe
      <4>1. draft' = draft \/ draft' = NoBuffers
        BY <1>0, <1>2, <3>2 DEF Next, Work, BeginPlan, PlanOutOfOrder, DropMesh, ReadMesh, PlanField, EndPlan,
                          BeginBuild, CheckTransfers, BeginSolve, TakeFails, EndSolve, Fails, Return
      <4> QED
        BY <2>3, <4>1 DEF NoBuffers
    <3> QED
      BY <3>1, <3>2
  <2> QED
    BY <1>0, <2>1, <2>3, <2>4, SameOwner
<1> QED
  BY <1>1, <1>2

\* A call that fails takes no payload, one that succeeds takes them together, and none returns.
THEOREM ImplementsOneShot == ASSUME NAssumption PROVE Spec => OneShotSpec
<1> DEFINE Uniform == {i \in Fields : ~List(i)}
           owner == [i \in Fields |-> Owner(i)]
           abstract == <<pc # "unread", Uniform, owner>>
<1>1. Init => OneShot!Init
  <2> SUFFICES ASSUME Init PROVE OneShot!Init
    OBVIOUS
  <2>1. \A i \in Fields : ~List(i) /\ Owner(i) = "none"
    BY DEF Init, Owner, NoBuffers, NothingRead, List
  <2>2. ~(pc # "unread")
    BY DEF Init
  <2> QED
    BY <2>1, <2>2 DEF OneShot!Init, OneShot!Fields, Fields
<1>2. IInv /\ Unread /\ [Next]_vars => [OneShot!Next]_abstract
  <2> SUFFICES ASSUME IInv, Unread, [Next]_vars PROVE [OneShot!Next]_abstract
    OBVIOUS
  <2> USE DEF IInv
  <2>1. CASE UNCHANGED vars
    BY <2>1, SameOwner DEF vars
  <2>2. CASE CommitFull
    <3> DEFINE kept == {i \in Fields : draft[i] = "held"}
    <3>1. \A i \in kept \ Uniform : owner[i] = "source"
      BY <2>2 DEF Owner, OneOwner
    <3>2. owner' = [i \in Fields |-> IF i \in kept THEN "runtime" ELSE "none"]
      BY <2>2 DEF CommitFull, Return, Owner, NoBuffers
    <3>3. UNCHANGED Uniform
      BY <2>2 DEF CommitFull, List
    <3>5. pc # "unread" /\ pc' # "unread"
      BY <2>2 DEF CommitFull, Return
    <3>4. OneShot!Build
      BY <3>1, <3>2, <3>3, <3>5 DEF OneShot!Build, OneShot!Fields, Fields
    <3> QED
      BY <3>4 DEF OneShot!Next
  <2>3. CASE CommitSummary
    <3>1. \A i \in Fields : draft[i] # "held" /\ (List(i) \/ i \notin source)
      BY <2>3 DEF CommitSummary, Draft, Types, List
    <3>2. \A i \in Fields : Owner(i)' = IF Owner(i) = "runtime" THEN "none" ELSE Owner(i)
      BY <2>3, <3>1 DEF CommitSummary, Return, Owner, OneOwner, NoBuffers, List
    <3>3. UNCHANGED Uniform
      BY <2>3 DEF CommitSummary, List
    <3>5. pc # "unread" /\ pc' # "unread"
      BY <2>3 DEF CommitSummary, Return
    <3>4. OneShot!BuildSummary
      BY <3>2, <3>3, <3>5 DEF OneShot!BuildSummary, OneShot!Fields, Fields
    <3> QED
      BY <3>4 DEF OneShot!Next
  <2>4. CASE Take
    <3>1. PICK u, p \in Fields : Takeable(u, p) /\ runtime' = [runtime EXCEPT ![u] = "empty",
                                                                          ![p] = "empty"]
      BY <2>4 DEF Take
    <3>2. u # p /\ runtime[u] = "held" /\ runtime[p] = "held"
      BY <3>1 DEF Takeable, First, Named
    <3>3. draft = NoBuffers
      BY <2>4 DEF Take, Draft, Building
    <3>4. \A i \in Fields : i = u \/ i = p => i \notin source
      BY <3>2 DEF OneOwner, Types, List
    <3>5. UNCHANGED <<fields, source, draft>>
      BY <2>4 DEF Take
    <3>6. \A i \in Fields : Owner(i)' = IF i = u \/ i = p THEN "none" ELSE Owner(i)
      BY <3>1, <3>3, <3>4, <3>5 DEF Owner, NoBuffers, List, Types
    <3>7. owner[u] = "runtime" /\ owner[p] = "runtime"
      BY <3>2 DEF Owner
    <3>8. owner' = [owner EXCEPT ![u] = "none", ![p] = "none"]
      BY <3>6
    <3>9. UNCHANGED Uniform
      BY <3>5 DEF List
    <3>11. pc # "unread" /\ pc' # "unread"
      BY <2>4 DEF Take
    <3>10. OneShot!Take
      BY <3>2, <3>7, <3>8, <3>9, <3>11 DEF OneShot!Take, OneShot!Fields, Fields
    <3> QED
      BY <3>10 DEF OneShot!Next
  <2>6. CASE Receive
    <3>1. ~(pc # "unread") /\ pc' # "unread"
      BY <2>6 DEF Receive
    <3>2. \A i \in Fields : Owner(i)' \in {"source", "none"}
      <4>1. \A i \in Fields : draft'[i] # "held" /\ runtime'[i] # "held"
        BY <2>6 DEF Receive, Draft, Building, NoBuffers, Unread
      <4> QED
        BY <4>1 DEF Owner
    <3>3. OneShot!Read
      BY <3>1, <3>2 DEF OneShot!Read, OneShot!Fields, Fields
    <3> QED
      BY <3>3 DEF OneShot!Next
  <2>5. CASE Next /\ ~Receive /\ ~Take /\ ~CommitFull /\ ~CommitSummary
    BY <2>5, Stutters
  <2> QED
    BY <2>1, <2>2, <2>3, <2>4, <2>5, <2>6
<1> QED
  BY <1>1, <1>2, Invariance, PTL DEF Spec, OneShotSpec, OneShot!Spec
-----------------------------------------------------------------------------
(***************************************************************************)
(* The reader of a field file.                                             *)
(***************************************************************************)

\* The delimiters that are open before place i.
Nest(file, i, stack) ==
  /\ stack \in Seq(Openers)
  /\ Len(stack) = Level(file, i)
  /\ \A j \in 1 .. i : Level(file, j) \in 0 .. MaxNesting
  /\ \A j \in 1 .. i - 1 : file[j] # "fault"
  /\ \A j \in 1 .. i - 1 : file[j] \in Openers =>
       \/ Partner(file, j) \in j + 1 .. i - 1 /\ <<file[j], file[Partner(file, j)]>> \in Matching
       \/ \A q \in j + 1 .. i : Level(file, q) > Level(file, j)
  /\ \A d \in 1 .. Len(stack) : \E j \in 1 .. i - 1 :
       /\ file[j] = stack[d]
       /\ Level(file, j) = d - 1
       /\ \A q \in j + 1 .. i : Level(file, q) >= d

Lexed == /\ text \in Seq(Tokens)
         /\ full \in BOOLEAN
         /\ at \in 1 .. Len(text) + 1
         /\ Nest(text, at, open)

\* The tokens of one byte differ.
LEMMA TokenNames ==
  /\ \A t \in Openers : t \notin Closers /\ t # Semicolon /\ t # "end" /\ t # "fault"
  /\ \A t \in Closers : t \notin Openers /\ t # Semicolon /\ t # "end" /\ t # "fault"
  /\ Semicolon \notin Openers /\ Semicolon \notin Closers /\ Semicolon # "end" /\ Semicolon # "fault"
  /\ BraceOpen \in Openers /\ ParenOpen \in Openers /\ BracketOpen \in Openers
  /\ BraceClose \in Closers /\ ParenClose \in Closers /\ BracketClose \in Closers
  /\ "end" \notin Openers /\ "end" \notin Closers /\ "fault" \notin Openers /\ "fault" \notin Closers
BY Zenon DEF Openers, Closers, BraceOpen, ParenOpen, BracketOpen, BraceClose, ParenClose, BracketClose, Semicolon

(***************************************************************************)
(* Least places and recursive functions.                                   *)
(***************************************************************************)
Below == {p \in Nat \X Nat : p[1] < p[2]}

\* The least place of a set of them.
LEMMA LeastFacts ==
  ASSUME NEW P, P \subseteq Nat
  PROVE  /\ P = {} => Least(P) = 0
         /\ P # {} => Least(P) \in P /\ \A j \in P : Least(P) <= j
<1> CASE P = {}
  BY DEF Least
<1> CASE P # {}
  <2>1. IsWellFoundedOn(Below, Nat)
    BY NatLessThanWellFounded DEF OpToRel, Below
  <2>2. PICK x \in P : \A y \in P : ~(<<y, x>> \in Below)
    BY <2>1, WFMin, Zenon
  <2>3. \E i \in P : \A j \in P : i <= j
    <3>1. ASSUME NEW y \in P PROVE x <= y
      <4>1. x \in Nat /\ y \in Nat /\ <<y, x>> \notin Below
        BY <2>2
      <4>2. ~(y < x)
        BY <4>1 DEF Below
      <4> QED
        BY <4>1, <4>2
    <3> QED
      BY <3>1
  <2> QED
    BY <2>3 DEF Least
<1> QED
  OBVIOUS

\* A place of a set that none is before is the least.
LEMMA LeastIs ==
  ASSUME NEW P, P \subseteq Nat, NEW k \in P, \A j \in P : k <= j
  PROVE  Least(P) = k
<1>1. Least(P) \in P /\ Least(P) <= k
  BY LeastFacts
<1>2. k <= Least(P)
  BY <1>1
<1>3. Least(P) \in Nat /\ k \in Nat
  BY <1>1
<1> QED
  BY <1>1, <1>2, <1>3

\* Induction, by the least number that a set lacks.
LEMMA SetInduction ==
  ASSUME NEW S, 0 \in S, \A n \in Nat : n \in S => n + 1 \in S
  PROVE  Nat \subseteq S
<1> SUFFICES ASSUME NEW k \in Nat, k \notin S PROVE FALSE
  OBVIOUS
<1> DEFINE T == Nat \ S
<1>1. T \subseteq Nat /\ T # {}
  OBVIOUS
<1> HIDE DEF T
<1>2. Least(T) \in T /\ \A j \in T : Least(T) <= j
  BY <1>1, LeastFacts
<1>3. Least(T) \in Nat /\ Least(T) # 0 /\ Least(T) \notin S
  BY <1>2 DEF T
<1>4. Least(T) - 1 \in Nat /\ (Least(T) - 1) + 1 = Least(T)
  BY <1>3
<1>5. Least(T) - 1 \notin T
  BY <1>2, <1>3, <1>4
<1> QED
  BY <1>3, <1>4, <1>5 DEF T

\* A function may refer to itself at the next place, if a measure falls.
Falls(S, V, M, m, next, stop, base, join) ==
  /\ M \in Nat /\ m \in [S -> 0 .. M]
  /\ next \in [S -> S] /\ base \in [S -> V] /\ join \in [S -> [V -> V]]
  /\ \A x \in S : x \notin stop => m[next[x]] < m[x]

\* There is a function that is defined by itself at a next place, if a measure falls there.
LEMMA RecursionExists ==
  ASSUME NEW S, NEW V, NEW M, NEW m, NEW next, NEW stop, NEW base, NEW join,
         Falls(S, V, M, m, next, stop, base, join)
  PROVE  \E f \in [S -> V] : \A x \in S : f[x] = IF x \in stop THEN base[x] ELSE join[x][f[next[x]]]
<1> USE DEF Falls
<1> DEFINE Meets(f, x) == f[x] = IF x \in stop THEN base[x] ELSE join[x][f[next[x]]]
           T == {n \in Nat : \E f \in [S -> V] : \A x \in S : m[x] < n => Meets(f, x)}
<1>1. 0 \in T
  <2>1. \A x \in S : ~(m[x] < 0)
    OBVIOUS
  <2> QED
    BY <2>1
<1>2. ASSUME NEW n \in Nat, n \in T PROVE n + 1 \in T
  <2>1. PICK f \in [S -> V] : \A x \in S : m[x] < n => Meets(f, x)
    BY <1>2
  <2> DEFINE g == [x \in S |-> IF x \in stop THEN base[x] ELSE join[x][f[next[x]]]]
  <2>2. g \in [S -> V]
    OBVIOUS
  <2>3. ASSUME NEW x \in S, m[x] < n + 1 PROVE Meets(g, x)
    <3>1. CASE x \in stop
      BY <3>1
    <3>2. CASE x \notin stop
      <4>1. next[x] \in S /\ m[next[x]] < n
        BY <2>3, <3>2
      <4>2. f[next[x]] = g[next[x]]
        BY <4>1, <2>1
      <4>3. g[x] = join[x][f[next[x]]]
        BY <3>2
      <4> QED
        BY <3>2, <4>2, <4>3
    <3> QED
      BY <3>1, <3>2
  <2> HIDE DEF g
  <2>4. \A x \in S : m[x] < n + 1 => Meets(g, x)
    BY <2>3
  <2> QED
    BY <2>2, <2>4
<1>3. M + 1 \in T
  <2> HIDE DEF T
  <2> QED
    BY <1>1, <1>2, SetInduction
<1>4. PICK f \in [S -> V] : \A x \in S : m[x] < M + 1 => Meets(f, x)
  BY <1>3
<1>5. \A x \in S : m[x] < M + 1
  OBVIOUS
<1> QED
  BY <1>4, <1>5

\* The skips of a cursor, step by step.
GroupStep(file, j, f) ==
  [stack \in Seq(Openers) |->
     IF j > Len(file) \/ ~Tracks(stack, file[j]) THEN 0
     ELSE IF Track(stack, file[j]) = <<>> THEN j ELSE f[j + 1][Track(stack, file[j])]]
IsGroupEnd(file, f) == f = [j \in Nat |-> GroupStep(file, j, f)]
LineStep(file, j, f) ==
  [stack \in Seq(Openers) |->
     IF j > Len(file) \/ ~Tracks(stack, file[j]) THEN 0
     ELSE IF stack = <<>> /\ file[j] = Semicolon THEN j ELSE f[j + 1][Track(stack, file[j])]]
IsLineEnd(file, f) == f = [j \in Nat |-> LineStep(file, j, f)]

GroupFrom(file) == CHOOSE f : IsGroupEnd(file, f)
LineFrom(file) == CHOOSE f : IsLineEnd(file, f)

\* What is open after a token are openers.
LEMMA TrackType ==
  ASSUME NEW stack \in Seq(Openers), NEW t, Tracks(stack, t)
  PROVE  Track(stack, t) \in Seq(Openers)
<1>1. CASE t \in Openers
  BY <1>1 DEF Track
<1>2. CASE t \in Closers
  <2>1. Len(stack) \in Nat /\ stack # <<>>
    BY <1>2 DEF Tracks
  <2>2. t \notin Openers
    BY <1>2, TokenNames
  <2>3. Len(stack) - 1 \in 0 .. Len(stack)
    BY <2>1, EmptySeq
  <2>4. SubSeq(stack, 1, Len(stack) - 1) \in Seq(Openers)
    BY <2>3, <2>1, SubSeqProperties
  <2> QED
    BY <1>2, <2>2, <2>4 DEF Track
<1>3. CASE t \notin Openers /\ t \notin Closers
  BY <1>3 DEF Track
<1> QED
  BY <1>1, <1>2, <1>3

\* GroupEnd is defined step by step: the recursive function in it exists.
LEMMA GroupFromFacts ==
  ASSUME NEW file, Len(file) \in Nat
  PROVE  /\ GroupFrom(file) = [j \in Nat |-> GroupStep(file, j, GroupFrom(file))]
         /\ \A i : GroupEnd(file, i) = GroupFrom(file)[i][<<>>]
<1> DEFINE S == Nat
           V == [Seq(Openers) -> Nat]
           M == Len(file) + 1
           m == [j \in S |-> IF j > Len(file) THEN 0 ELSE M - j]
           next == [j \in S |-> j + 1]
           stop == {j \in Nat : j > Len(file)}
           base == [j \in S |-> [stack \in Seq(Openers) |-> 0]]
           join == [j \in S |-> [v \in V |-> [stack \in Seq(Openers) |->
                     IF ~Tracks(stack, file[j]) THEN 0
                     ELSE IF Track(stack, file[j]) = <<>> THEN j ELSE v[Track(stack, file[j])]]]]
<1>1. M \in Nat /\ m \in [S -> 0 .. M] /\ next \in [S -> S] /\ base \in [S -> V]
  OBVIOUS
<1>2. join \in [S -> [V -> V]]
  BY TrackType
<1>3. \A x \in S : x \notin stop => m[next[x]] < m[x]
  OBVIOUS
<1> HIDE DEF S, V, M, m, next, stop, base, join
<1>4. PICK f \in [S -> V] : \A x \in S : f[x] = IF x \in stop THEN base[x] ELSE join[x][f[next[x]]]
  <2>1. Falls(S, V, M, m, next, stop, base, join)
    BY <1>1, <1>2, <1>3 DEF Falls
  <2> QED
    BY <2>1, RecursionExists
<1>5. ASSUME NEW j \in Nat PROVE f[j] = GroupStep(file, j, f)
  <2>1. f[j + 1] \in V
    BY <1>4 DEF S
  <2>2. f[j] = IF j \in stop THEN base[j] ELSE join[j][f[j + 1]]
    BY <1>4 DEF next, S
  <2> QED
    BY <2>1, <2>2 DEF GroupStep, base, join, stop, S
<1>6. IsGroupEnd(file, f)
  <2>1. f = [j \in Nat |-> f[j]]
    BY <1>4 DEF S
  <2> QED
    BY <2>1, <1>5 DEF IsGroupEnd
<1>7. IsGroupEnd(file, GroupFrom(file))
  BY <1>6, Zenon DEF GroupFrom
<1>8. \A i : GroupEnd(file, i) = GroupFrom(file)[i][<<>>]
  BY Zenon DEF GroupEnd, GroupFrom, IsGroupEnd, GroupStep
<1>9. GroupFrom(file) = [j \in Nat |-> GroupStep(file, j, GroupFrom(file))]
  BY <1>7, Zenon DEF IsGroupEnd
<1> QED
  BY <1>8, <1>9

\* The same of LineEnd.
LEMMA LineFromFacts ==
  ASSUME NEW file, Len(file) \in Nat
  PROVE  /\ LineFrom(file) = [j \in Nat |-> LineStep(file, j, LineFrom(file))]
         /\ \A i : LineEnd(file, i) = LineFrom(file)[i][<<>>]
<1> DEFINE S == Nat
           V == [Seq(Openers) -> Nat]
           M == Len(file) + 1
           m == [j \in S |-> IF j > Len(file) THEN 0 ELSE M - j]
           next == [j \in S |-> j + 1]
           stop == {j \in Nat : j > Len(file)}
           base == [j \in S |-> [stack \in Seq(Openers) |-> 0]]
           join == [j \in S |-> [v \in V |-> [stack \in Seq(Openers) |->
                     IF ~Tracks(stack, file[j]) THEN 0
                     ELSE IF stack = <<>> /\ file[j] = Semicolon THEN j ELSE v[Track(stack, file[j])]]]]
<1>1. M \in Nat /\ m \in [S -> 0 .. M] /\ next \in [S -> S] /\ base \in [S -> V]
  OBVIOUS
<1>2. join \in [S -> [V -> V]]
  BY TrackType
<1>3. \A x \in S : x \notin stop => m[next[x]] < m[x]
  OBVIOUS
<1> HIDE DEF S, V, M, m, next, stop, base, join
<1>4. PICK f \in [S -> V] : \A x \in S : f[x] = IF x \in stop THEN base[x] ELSE join[x][f[next[x]]]
  <2>1. Falls(S, V, M, m, next, stop, base, join)
    BY <1>1, <1>2, <1>3 DEF Falls
  <2> QED
    BY <2>1, RecursionExists
<1>5. ASSUME NEW j \in Nat PROVE f[j] = LineStep(file, j, f)
  <2>1. f[j + 1] \in V
    BY <1>4 DEF S
  <2>2. f[j] = IF j \in stop THEN base[j] ELSE join[j][f[j + 1]]
    BY <1>4 DEF next, S
  <2> QED
    BY <2>1, <2>2 DEF LineStep, base, join, stop, S
<1>6. IsLineEnd(file, f)
  <2>1. f = [j \in Nat |-> f[j]]
    BY <1>4 DEF S
  <2> QED
    BY <2>1, <1>5 DEF IsLineEnd
<1>7. IsLineEnd(file, LineFrom(file))
  BY <1>6, Zenon DEF LineFrom
<1>8. \A i : LineEnd(file, i) = LineFrom(file)[i][<<>>]
  BY Zenon DEF LineEnd, LineFrom, IsLineEnd, LineStep
<1>9. LineFrom(file) = [j \in Nat |-> LineStep(file, j, LineFrom(file))]
  BY <1>7, Zenon DEF IsLineEnd
<1> QED
  BY <1>8, <1>9

\* The end of an entry is behind its key.
LEMMA StopFacts ==
  ASSUME NEW file \in Seq(Tokens), NEW i \in Nat, NEW read \in BOOLEAN
  PROVE  /\ Partner(file, i) = 0 \/ Partner(file, i) \in i + 1 .. Len(file)
         /\ LineStop(file, i) = 0 \/ LineStop(file, i) \in i + 1 .. Len(file)
         /\ BlockStop(file, i, read) = 0 \/ BlockStop(file, i, read) \in i + 2 .. Len(file)
         /\ EntryEnd(file, i, read) = 0 \/ EntryEnd(file, i, read) \in i + 1 .. Len(file)
<1>0. Len(file) \in Nat
  OBVIOUS
<1>1. ASSUME NEW k \in Nat PROVE Partner(file, k) = 0 \/ Partner(file, k) \in k + 1 .. Len(file)
  <2> DEFINE P == {j \in k + 1 .. Len(file) : Level(file, j + 1) = Level(file, k)}
  <2>1. P \subseteq Nat /\ P \subseteq k + 1 .. Len(file)
    OBVIOUS
  <2>2. Partner(file, k) = Least(P)
    BY DEF Partner
  <2> HIDE DEF P
  <2> QED
    BY <2>1, <2>2, LeastFacts
<1>2. LineStop(file, i) = 0 \/ LineStop(file, i) \in i + 1 .. Len(file)
  <2> DEFINE P == {j \in i + 1 .. Len(file) :
                     /\ file[j] = Semicolon
                     /\ Level(file, j) = Level(file, i)
                     /\ \A k \in i .. j : Level(file, i) <= Level(file, k)}
  <2>1. P \subseteq Nat /\ P \subseteq i + 1 .. Len(file)
    <3>1. P \subseteq i + 1 .. Len(file)
      BY Zenon
    <3>2. i + 1 .. Len(file) \subseteq Nat
      BY <1>0
    <3> QED
      BY <3>1, <3>2, Zenon
  <2>2. LineStop(file, i) = Least(P)
    BY DEF LineStop
  <2> HIDE DEF P
  <2> QED
    BY <2>1, <2>2, LeastFacts
<1>3. BlockStop(file, i, read) = 0 \/ BlockStop(file, i, read) \in i + 2 .. Len(file)
  <2>1. i + 1 \in Nat /\ (i + 1) + 1 = i + 2
    OBVIOUS
  <2>2. Partner(file, i + 1) = 0 \/ Partner(file, i + 1) \in i + 2 .. Len(file)
    BY <2>1, <1>1
  <2>3. ASSUME TokenAt(file, Partner(file, i + 1) + 1) = Semicolon
        PROVE  Partner(file, i + 1) + 1 <= Len(file)
    BY <2>3, TokenNames DEF TokenAt
  <2>4. \/ BlockStop(file, i, read) = Partner(file, i + 1)
        \/ /\ TokenAt(file, Partner(file, i + 1) + 1) = Semicolon
           /\ BlockStop(file, i, read) = Partner(file, i + 1) + 1
           /\ Partner(file, i + 1) # 0
    BY Zenon DEF BlockStop
  <2>5. PICK brace : brace = Partner(file, i + 1)
    OBVIOUS
  <2>6. brace = 0 \/ brace \in i + 2 .. Len(file)
    BY <2>2, <2>5
  <2>7. CASE BlockStop(file, i, read) = brace
    BY <2>6, <2>7
  <2>8. CASE TokenAt(file, brace + 1) = Semicolon /\ BlockStop(file, i, read) = brace + 1 /\ brace # 0
    <3>1. brace + 1 <= Len(file)
      BY <2>3, <2>5, <2>8
    <3>2. brace \in i + 2 .. Len(file)
      BY <2>6, <2>8
    <3>3. brace + 1 \in i + 2 .. Len(file)
      BY <1>0, <3>1, <3>2
    <3> QED
      BY <2>8, <3>3
  <2> QED
    BY <2>4, <2>5, <2>7, <2>8
<1>4. EntryEnd(file, i, read) = 0 \/ EntryEnd(file, i, read) \in i + 1 .. Len(file)
  BY <1>0, <1>2, <1>3 DEF EntryEnd
<1> QED
  BY <1>1, <1>2, <1>3, <1>4

\* The keys of a block, entry by entry.
LEMMA KeysFacts ==
  ASSUME NEW file \in Seq(Tokens), NEW i \in Nat, NEW last \in Int, NEW blocks
  PROVE  /\ i > last => Keys(file, i, last, blocks) = {}
         /\ i <= last =>
              Keys(file, i, last, blocks) =
                {i} \cup IF EntryEnd(file, i, file[i] \in blocks) = 0 THEN {}
                         ELSE Keys(file, EntryEnd(file, i, file[i] \in blocks) + 1, last, blocks)
<1> DEFINE End(k) == EntryEnd(file, k, file[k] \in blocks)
           S == Nat
           V == SUBSET Nat
           M == IF last < 0 THEN 0 ELSE last + 1
           m == [k \in S |-> IF k > last THEN 0 ELSE M - k]
           next == [k \in S |-> IF End(k) = 0 THEN k ELSE End(k) + 1]
           stop == {k \in S : k > last \/ End(k) = 0}
           base == [k \in S |-> IF k > last THEN {} ELSE {k}]
           join == [k \in S |-> [v \in V |-> {k} \cup v]]
           Is(f) == f = [k \in Nat |-> IF k > last THEN {}
                                       ELSE {k} \cup IF End(k) = 0 THEN {} ELSE f[End(k) + 1]]
<1>0. ASSUME NEW k \in Nat PROVE End(k) \in Nat /\ (End(k) = 0 \/ End(k) > k)
  <2>1. (file[k] \in blocks) \in BOOLEAN
    OBVIOUS
  <2>2. End(k) = 0 \/ End(k) \in k + 1 .. Len(file)
    BY <2>1, StopFacts
  <2> HIDE DEF End
  <2> QED
    BY <2>2
<1> HIDE DEF End
<1>1. M \in Nat /\ m \in [S -> 0 .. M] /\ next \in [S -> S] /\ base \in [S -> V]
  <2>1. m \in [S -> 0 .. M] /\ M \in Nat
    OBVIOUS
  <2>2. next \in [S -> S]
    BY <1>0
  <2>3. base \in [S -> V]
    OBVIOUS
  <2> QED
    BY <2>1, <2>2, <2>3
<1>2. join \in [S -> [V -> V]]
  OBVIOUS
<1>3. ASSUME NEW x \in S, x \notin stop PROVE m[next[x]] < m[x]
  <2>1. x \in Nat /\ x <= last /\ End(x) # 0 /\ End(x) \in Nat /\ End(x) > x
    BY <1>0, <1>3
  <2>2. next[x] = End(x) + 1 /\ next[x] \in S
    BY <2>1
  <2>3. m[x] = M - x /\ M = last + 1
    BY <2>1
  <2>4. m[next[x]] = IF next[x] > last THEN 0 ELSE M - next[x]
    BY <2>2
  <2> QED
    BY <2>1, <2>2, <2>3, <2>4
<1> HIDE DEF S, V, M, m, next, stop, base, join
<1>4. PICK f \in [S -> V] : \A x \in S : f[x] = IF x \in stop THEN base[x] ELSE join[x][f[next[x]]]
  <2>1. Falls(S, V, M, m, next, stop, base, join)
    BY <1>1, <1>2, <1>3 DEF Falls
  <2> QED
    BY <2>1, RecursionExists
<1>5. ASSUME NEW k \in Nat
      PROVE  f[k] = IF k > last THEN {} ELSE {k} \cup IF End(k) = 0 THEN {} ELSE f[End(k) + 1]
  <2>1. k \in S /\ next[k] \in S /\ f[next[k]] \in V
    BY <1>1, <1>4 DEF S
  <2>2. f[k] = IF k \in stop THEN base[k] ELSE join[k][f[next[k]]]
    BY <1>4, <2>1
  <2>3. k \in stop <=> k > last \/ End(k) = 0
    BY <2>1 DEF stop
  <2>4. base[k] = IF k > last THEN {} ELSE {k}
    BY <2>1 DEF base
  <2>5. join[k][f[next[k]]] = {k} \cup f[next[k]]
    BY <2>1 DEF join
  <2>6. End(k) # 0 => next[k] = End(k) + 1
    BY <2>1 DEF next
  <2> QED
    BY <2>2, <2>3, <2>4, <2>5, <2>6
<1>6. Is(f)
  <2>1. f = [k \in Nat |-> f[k]]
    BY <1>4 DEF S
  <2> QED
    BY <2>1, <1>5
<1> DEFINE F == CHOOSE g : Is(g)
<1>7. Is(F)
  BY <1>6, Zenon
<1>8. \A k : Keys(file, k, last, blocks) = F[k]
  BY Zenon DEF Keys, End
<1> HIDE DEF F
<1>9. \A k \in Nat : F[k] = IF k > last THEN {} ELSE {k} \cup IF End(k) = 0 THEN {} ELSE F[End(k) + 1]
  BY <1>7
<1>10. Keys(file, i, last, blocks) = F[i] /\ Keys(file, End(i) + 1, last, blocks) = F[End(i) + 1]
  BY <1>8
<1>11. F[i] = IF i > last THEN {} ELSE {i} \cup IF End(i) = 0 THEN {} ELSE F[End(i) + 1]
  BY <1>9
<1>12. /\ i > last => Keys(file, i, last, blocks) = {}
       /\ i <= last => Keys(file, i, last, blocks) =
                        {i} \cup IF End(i) = 0 THEN {} ELSE Keys(file, End(i) + 1, last, blocks)
  BY <1>10, <1>11
<1> QED
  BY <1>12 DEF End
-----------------------------------------------------------------------------
(***************************************************************************)
(* Levels.                                                                 *)
(***************************************************************************)
Count(file, S, i) == Cardinality({j \in 1 .. i : file[j] \in S})

\* The number of the tokens of a kind, token by token.
LEMMA CountFacts ==
  ASSUME NEW file, NEW S, NEW i \in Nat
  PROVE  /\ Count(file, S, 0) = 0
         /\ Count(file, S, i) \in Nat
         /\ Count(file, S, i + 1) = Count(file, S, i) + (IF file[i + 1] \in S THEN 1 ELSE 0)
<1> DEFINE C(k) == {j \in 1 .. k : file[j] \in S}
<1>1. ASSUME NEW k \in Nat PROVE IsFiniteSet(C(k)) /\ Cardinality(C(k)) \in Nat
  <2>1. IsFiniteSet(1 .. k)
    BY FS_Interval
  <2>2. C(k) \subseteq 1 .. k
    OBVIOUS
  <2> QED
    BY <2>1, <2>2, FS_Subset, FS_CardinalityType
<1>2. Cardinality(C(0)) = 0
  <2>1. C(0) = {}
    OBVIOUS
  <2> QED
    BY <2>1, FS_EmptySet
<1>5. \A k : Count(file, S, k) = Cardinality(C(k))
  BY DEF Count
<1>3. CASE file[i + 1] \in S
  <2>1. C(i + 1) = C(i) \cup {i + 1} /\ i + 1 \notin C(i)
    BY <1>3
  <2> HIDE DEF C
  <2>2. Cardinality(C(i) \cup {i + 1}) = Cardinality(C(i)) + 1
    BY <1>1, <2>1, FS_AddElement
  <2> QED
    BY <1>1, <1>2, <1>3, <1>5, <2>1, <2>2
<1>4. CASE file[i + 1] \notin S
  <2>1. C(i + 1) = C(i)
    BY <1>4
  <2> HIDE DEF C
  <2> QED
    BY <1>1, <1>2, <1>4, <1>5, <2>1
<1> QED
  BY <1>3, <1>4

Step(t) == IF t \in Openers THEN 1 ELSE IF t \in Closers THEN -1 ELSE 0

\* The level of a place, token by token.
LEMMA LevelFacts ==
  ASSUME NEW file
  PROVE  /\ Level(file, 1) = 0
         /\ \A i \in Nat : i > 0 => /\ Level(file, i) \in Int
                                    /\ Level(file, i + 1) = Level(file, i) + Step(file[i])
<1>1. Level(file, 1) = 0
  <2>1. Level(file, 1) = Count(file, Openers, 0) - Count(file, Closers, 0)
    <3>1. 1 - 1 = 0
      OBVIOUS
    <3> QED
      BY <3>1, Zenon DEF Level, Count
  <2> QED
    BY <2>1, CountFacts
<1>2. ASSUME NEW i \in Nat, i > 0
      PROVE  Level(file, i) \in Int /\ Level(file, i + 1) = Level(file, i) + Step(file[i])
  <2>1. PICK k \in Nat : i = k + 1
    BY <1>2, i - 1 \in Nat
  <2> DEFINE O(m) == Count(file, Openers, m)
             C(m) == Count(file, Closers, m)
  <2>2. O(k) \in Nat /\ O(k + 1) = O(k) + (IF file[k + 1] \in Openers THEN 1 ELSE 0)
    BY CountFacts
  <2>3. C(k) \in Nat /\ C(k + 1) = C(k) + (IF file[k + 1] \in Closers THEN 1 ELSE 0)
    BY CountFacts
  <2>7. i - 1 = k /\ (i + 1) - 1 = k + 1
    BY <2>1
  <2>4. Level(file, i) = O(k) - C(k)
    BY <2>7, Zenon DEF Level, Count
  <2>5. Level(file, i + 1) = O(k + 1) - C(k + 1)
    BY <2>7, Zenon DEF Level, Count
  <2>6. file[i] \in Openers => file[i] \notin Closers
    BY TokenNames
  <2> HIDE DEF O, C
  <2> QED
    BY <2>1, <2>2, <2>3, <2>4, <2>5, <2>6 DEF Step
<1> QED
  BY <1>1, <1>2

\* The same of the places of a file.
LEMMA LevelType ==
  ASSUME NEW file \in Seq(Tokens)
  PROVE  \A i \in 1 .. Len(file) + 1 : Level(file, i) \in Int
BY LevelFacts

\* The delimiter that closes the one at i is the first behind which there is its level.
LEMMA PartnerIs ==
  ASSUME NEW file \in Seq(Tokens), NEW i \in Nat, NEW k \in i + 1 .. Len(file),
         Level(file, k + 1) = Level(file, i),
         \A j \in i + 1 .. k - 1 : Level(file, j + 1) # Level(file, i)
  PROVE  Partner(file, i) = k
<1> DEFINE P == {j \in i + 1 .. Len(file) : Level(file, j + 1) = Level(file, i)}
<1>1. P \subseteq Nat /\ k \in P
  OBVIOUS
<1>2. ASSUME NEW j \in P PROVE k <= j
  <2>1. j \in i + 1 .. Len(file) /\ Level(file, j + 1) = Level(file, i)
    OBVIOUS
  <2> QED
    BY <2>1
<1> HIDE DEF P
<1>3. Least(P) = k
  BY <1>1, <1>2, LeastIs
<1> QED
  BY <1>3 DEF P, Partner

\* Where the delimiter is that closes the one at i, if there is one.
LEMMA PartnerFacts ==
  ASSUME NEW file \in Seq(Tokens), NEW i \in Nat
  PROVE  /\ Partner(file, i) # 0 =>
              /\ Partner(file, i) \in i + 1 .. Len(file)
              /\ Level(file, Partner(file, i) + 1) = Level(file, i)
         /\ \A k \in i + 1 .. Len(file) : Level(file, k + 1) = Level(file, i) =>
              Partner(file, i) \in i + 1 .. k
<1> DEFINE P == {j \in i + 1 .. Len(file) : Level(file, j + 1) = Level(file, i)}
<1>0. Len(file) \in Nat
  OBVIOUS
<1>1. P \subseteq i + 1 .. Len(file) /\ \A j \in P : Level(file, j + 1) = Level(file, i)
  BY Zenon
<1>2. P \subseteq Nat
  BY <1>1
<1>3. Partner(file, i) = Least(P)
  BY DEF Partner
<1>4. \A k \in i + 1 .. Len(file) : Level(file, k + 1) = Level(file, i) => k \in P
  OBVIOUS
<1> HIDE DEF P
<1>5. P # {} => Partner(file, i) \in P /\ \A k \in P : Partner(file, i) <= k
  BY <1>2, <1>3, LeastFacts
<1>6. P = {} => Partner(file, i) = 0
  BY <1>2, <1>3, LeastFacts
<1> DEFINE p == Partner(file, i)
<1> HIDE DEF p
<1>7. P # {} => p \in P /\ \A k \in P : p <= k
  BY <1>5 DEF p
<1>8. ASSUME p # 0 PROVE p \in i + 1 .. Len(file) /\ Level(file, p + 1) = Level(file, i)
  BY <1>1, <1>6, <1>7, <1>8 DEF p
<1>9. ASSUME NEW k \in i + 1 .. Len(file), Level(file, k + 1) = Level(file, i)
      PROVE  p \in i + 1 .. k
  <2>1. k \in P
    BY <1>4, <1>9
  <2>2. p \in i + 1 .. Len(file) /\ p <= k
    BY <1>1, <1>7, <2>1
  <2> QED
    BY <2>2
<1> QED
  BY <1>8, <1>9 DEF p

\* The first elements of a sequence.
LEMMA FrontFacts ==
  ASSUME NEW S, NEW s \in Seq(S), NEW n \in 0 .. Len(s)
  PROVE  /\ SubSeq(s, 1, n) \in Seq(S)
         /\ Len(SubSeq(s, 1, n)) = n
         /\ \A d \in 1 .. n : SubSeq(s, 1, n)[d] = s[d]
<1>1. CASE n = 0
  <2>1. SubSeq(s, 1, n) = <<>>
    BY <1>1, SubSeqEmpty
  <2> QED
    BY <1>1, <2>1
<1>2. CASE n > 0
  <2>1. \A d \in 1 .. n : s[d] \in S
    OBVIOUS
  <2>2. 1 \in Int /\ n \in Int /\ 1 <= n
    BY <1>2
  <2> DEFINE f == SubSeq(s, 1, n)
  <2>3. f \in Seq(S) /\ Len(f) = n
    BY <2>1, <2>2, SubSeqProperties
  <2>4. ASSUME NEW d \in 1 .. n PROVE f[d] = s[d]
    <3>1. d \in 1 .. n - 1 + 1
      OBVIOUS
    <3>2. f[d] = s[1 + d - 1]
      BY <2>1, <2>2, <3>1, SubSeqProperties
    <3>3. 1 + d - 1 = d
      OBVIOUS
    <3> QED
      BY <3>2, <3>3
  <2> QED
    BY <2>3, <2>4 DEF f
<1> QED
  BY <1>1, <1>2
-----------------------------------------------------------------------------
(***************************************************************************)
(* The delimiters that are open.                                           *)
(***************************************************************************)
\* The parts of Nest.
Known(file, i) == \A j \in 1 .. i : Level(file, j) \in 0 .. MaxNesting
Closed(file, i, j) == Partner(file, j) \in j + 1 .. i - 1 /\ <<file[j], file[Partner(file, j)]>> \in Matching
Unclosed(file, i, j) == \A q \in j + 1 .. i : Level(file, q) > Level(file, j)
Opens(file, i, stack, d, j) == /\ file[j] = stack[d]
                               /\ Level(file, j) = d - 1
                               /\ \A q \in j + 1 .. i : Level(file, q) >= d

\* Nest by its parts.
LEMMA NestParts ==
  ASSUME NEW file, NEW i, NEW stack
  PROVE  Nest(file, i, stack) <=>
           /\ stack \in Seq(Openers)
           /\ Len(stack) = Level(file, i)
           /\ Known(file, i)
           /\ \A j \in 1 .. i - 1 : file[j] # "fault"
           /\ \A j \in 1 .. i - 1 : file[j] \in Openers => Closed(file, i, j) \/ Unclosed(file, i, j)
           /\ \A d \in 1 .. Len(stack) : \E j \in 1 .. i - 1 : Opens(file, i, stack, d, j)
BY Zenon DEF Nest, Known, Closed, Unclosed, Opens

\* The delimiters after a token.
LEMMA TrackFacts ==
  ASSUME NEW stack \in Seq(Openers), NEW t, Tracks(stack, t)
  PROVE  /\ Track(stack, t) \in Seq(Openers)
         /\ t \in Openers => /\ Track(stack, t) = Append(stack, t)
                             /\ Len(Track(stack, t)) = Len(stack) + 1
                             /\ Len(stack) < MaxNesting
                             /\ Track(stack, t)[Len(stack) + 1] = t
         /\ t \in Closers => /\ Len(Track(stack, t)) = Len(stack) - 1
                             /\ Len(stack) > 0
                             /\ <<stack[Len(stack)], t>> \in Matching
         /\ t \notin Openers \cup Closers => Track(stack, t) = stack
         /\ \A d \in 1 .. Len(stack) : d <= Len(Track(stack, t)) => Track(stack, t)[d] = stack[d]
<1>0. Track(stack, t) \in Seq(Openers)
  BY TrackType
<1>1. CASE t \in Openers
  <2>1. Track(stack, t) = Append(stack, t) /\ t \notin Closers
    BY <1>1, TokenNames DEF Track
  <2> QED
    BY <1>0, <1>1, <2>1 DEF Tracks
<1>2. CASE t \in Closers
  <2>1. Track(stack, t) = SubSeq(stack, 1, Len(stack) - 1) /\ t \notin Openers
    BY <1>2, TokenNames DEF Track
  <2>2. stack # <<>> /\ <<stack[Len(stack)], t>> \in Matching
    BY <1>2 DEF Tracks
  <2>3. Len(stack) \in Nat /\ Len(stack) > 0
    BY <2>2
  <2>6. Len(stack) - 1 \in 0 .. Len(stack)
    BY <2>3
  <2>4. Len(SubSeq(stack, 1, Len(stack) - 1)) = Len(stack) - 1
    BY <2>6, FrontFacts
  <2>5. \A d \in 1 .. Len(stack) - 1 : SubSeq(stack, 1, Len(stack) - 1)[d] = stack[d]
    BY <2>6, FrontFacts
  <2> QED
    BY <1>0, <1>2, <2>1, <2>2, <2>3, <2>4, <2>5
<1>3. CASE t \notin Openers \cup Closers
  BY <1>0, <1>3 DEF Track
<1> QED
  BY <1>1, <1>2, <1>3

\* The levels around a token.
LEMMA LevelStep ==
  ASSUME NEW file \in Seq(Tokens), NEW i \in 1 .. Len(file)
  PROVE  /\ Level(file, i) \in Int /\ Level(file, i + 1) \in Int
         /\ file[i] \in Openers => Level(file, i + 1) = Level(file, i) + 1
         /\ file[i] \in Closers => Level(file, i + 1) = Level(file, i) - 1
         /\ file[i] \notin Openers \cup Closers => Level(file, i + 1) = Level(file, i)
<1>1. i \in Nat /\ i > 0 /\ i + 1 > 0 /\ i + 1 \in Nat
  OBVIOUS
<1>2. Level(file, i) \in Int /\ Level(file, i + 1) \in Int /\ Level(file, i + 1) = Level(file, i) + Step(file[i])
  BY <1>1, LevelFacts
<1>3. file[i] \in Closers => file[i] \notin Openers
  BY TokenNames
<1> QED
  BY <1>2, <1>3 DEF Step

\* An opening delimiter that has not been closed and whose level is back is closed by the last token.
LEMMA ClosedNow ==
  ASSUME NEW file \in Seq(Tokens), NEW i \in 1 .. Len(file), NEW j \in 1 .. i - 1,
         Unclosed(file, i, j), Level(file, i + 1) = Level(file, j)
  PROVE  Partner(file, j) = i
<1>1. j \in Nat /\ i \in j + 1 .. Len(file)
  OBVIOUS
<1>2. ASSUME NEW q \in j + 1 .. i - 1 PROVE Level(file, q + 1) # Level(file, j)
  <2>1. q + 1 \in j + 1 .. i
    BY <1>1
  <2>2. Level(file, q + 1) > Level(file, j)
    BY <2>1 DEF Unclosed
  <2>3. Level(file, j) \in Int
    BY LevelType
  <2> QED
    BY <2>2, <2>3
<1> QED
  BY <1>1, <1>2, PartnerIs

\* The innermost delimiter that is open is closed by a closing token.
LEMMA Innermost ==
  ASSUME NEW file \in Seq(Tokens), NEW i \in 1 .. Len(file), NEW stack \in Seq(Openers),
         NEW j \in 1 .. i - 1, Len(stack) > 0, Opens(file, i, stack, Len(stack), j),
         file[i] \in Closers, Len(stack) = Level(file, i)
  PROVE  Partner(file, j) = i
<1>1. Level(file, i + 1) = Level(file, j)
  BY LevelStep DEF Opens
<1>2. Unclosed(file, i, j)
  <2> SUFFICES ASSUME NEW q \in j + 1 .. i PROVE Level(file, q) > Level(file, j)
    BY DEF Unclosed
  <2>1. Level(file, q) >= Len(stack) /\ Level(file, j) = Len(stack) - 1
    BY DEF Opens
  <2>2. Level(file, q) \in Int /\ Len(stack) \in Nat
    BY LevelType
  <2> QED
    BY <2>1, <2>2
<1> QED
  BY <1>1, <1>2, ClosedNow

\* The lexer keeps account of the delimiters.
LEMMA NestStep ==
  ASSUME MaxNesting \in Nat, NEW file \in Seq(Tokens), NEW i \in 1 .. Len(file), NEW stack,
         Nest(file, i, stack), Lexes(stack, file[i])
  PROVE  Nest(file, i + 1, Track(stack, file[i]))
<1> DEFINE t == file[i]
           after == Track(stack, t)
<1>0. /\ stack \in Seq(Openers)
      /\ Len(stack) = Level(file, i)
      /\ Known(file, i)
      /\ \A j \in 1 .. i - 1 : file[j] # "fault"
      /\ \A j \in 1 .. i - 1 : file[j] \in Openers => Closed(file, i, j) \/ Unclosed(file, i, j)
      /\ \A d \in 1 .. Len(stack) : \E j \in 1 .. i - 1 : Opens(file, i, stack, d, j)
  BY NestParts, Zenon
<1>1. Tracks(stack, t) /\ t # "fault"
  BY DEF Lexes
<1>2. i \in Nat /\ i > 0 /\ (i + 1) - 1 = i
  OBVIOUS
<1>3. /\ after \in Seq(Openers)
      /\ t \in Openers => Len(after) = Len(stack) + 1 /\ Len(stack) < MaxNesting /\ after[Len(stack) + 1] = t
      /\ t \in Closers => Len(after) = Len(stack) - 1 /\ Len(stack) > 0
      /\ t \notin Openers \cup Closers => after = stack
      /\ \A d \in 1 .. Len(stack) : d <= Len(after) => after[d] = stack[d]
  BY <1>0, <1>1, TrackFacts
<1> HIDE DEF after
<1>4. Len(stack) \in Nat /\ Len(after) \in Nat /\ Len(after) = Level(file, i + 1) /\ Len(after) <= MaxNesting
      /\ Len(after) <= Len(stack) + 1 /\ Len(after) >= Len(stack) - 1
  <2>1. Level(file, i) \in 0 .. MaxNesting
    BY <1>0, <1>2 DEF Known
  <2> QED
    BY <1>0, <1>3, <2>1, LevelStep
<1>5. Known(file, i + 1)
  BY <1>0, <1>2, <1>4 DEF Known
<1>6. \A j \in 1 .. i : file[j] # "fault"
  BY <1>0, <1>1
<1>7. ASSUME NEW j \in 1 .. i, file[j] \in Openers
      PROVE  Closed(file, i + 1, j) \/ Unclosed(file, i + 1, j)
  <2>1. CASE j = i
    <3>1. Level(file, i + 1) > Level(file, i)
      BY LevelStep, <1>7, <2>1
    <3> QED
      BY <2>1, <3>1 DEF Unclosed
  <2>2. CASE j # i /\ Closed(file, i, j)
    BY <1>2, <2>2 DEF Closed
  <2>3. CASE j # i /\ Unclosed(file, i, j) /\ Level(file, i + 1) > Level(file, j)
    BY <1>2, <2>3 DEF Unclosed
  <2>4. CASE j # i /\ Unclosed(file, i, j) /\ ~(Level(file, i + 1) > Level(file, j))
    <3>1. j \in 1 .. i - 1
      BY <2>4
    <3>2. Level(file, i) > Level(file, j)
      BY <3>1, <2>4 DEF Unclosed
    <3>3. Level(file, j) \in Int /\ Level(file, i) \in Int
      BY LevelType, <3>1
    <3>4. file[i] \in Closers /\ Level(file, i + 1) = Level(file, i) - 1 /\ Level(file, i + 1) = Level(file, j)
      BY LevelStep, <3>2, <3>3, <2>4
    <3>5. Partner(file, j) = i
      BY <3>1, <3>4, <2>4, ClosedNow
    <3>6. Len(stack) > 0 /\ <<stack[Len(stack)], t>> \in Matching
      BY <1>0, <1>1, <3>4, TrackFacts
    <3>7. PICK k \in 1 .. i - 1 : Opens(file, i, stack, Len(stack), k)
      BY <1>0, <1>4, <3>6
    <3>8. Level(file, k) = Level(file, j) /\ \A q \in k + 1 .. i : Level(file, q) > Level(file, j)
      <4>1. Level(file, k) = Len(stack) - 1 /\ \A q \in k + 1 .. i : Level(file, q) >= Len(stack)
        BY <3>7 DEF Opens
      <4>2. Level(file, j) = Len(stack) - 1
        BY <1>0, <3>4
      <4>3. ASSUME NEW q \in k + 1 .. i PROVE Level(file, q) > Level(file, j)
        <5>1. Level(file, q) \in Int /\ Level(file, q) >= Len(stack)
          BY <4>1, LevelType
        <5> QED
          BY <1>4, <4>2, <5>1
      <4> QED
        BY <4>1, <4>2, <4>3
    <3>9. k = j
      <4>1. CASE k < j
        <5>1. j \in k + 1 .. i
          BY <4>1, <3>1
        <5> QED
          BY <5>1, <3>3, <3>8
      <4>2. CASE j < k
        <5>1. k \in j + 1 .. i
          BY <4>2
        <5> QED
          BY <5>1, <2>4, <3>3, <3>8 DEF Unclosed
      <4> QED
        BY <4>1, <4>2, <3>1
    <3>10. file[j] = stack[Len(stack)]
      BY <3>7, <3>9 DEF Opens
    <3> QED
      BY <1>2, <3>1, <3>5, <3>6, <3>10 DEF Closed
  <2> QED
    BY <1>0, <1>7, <2>1, <2>2, <2>3, <2>4
<1>8. ASSUME NEW d \in 1 .. Len(after) PROVE \E j \in 1 .. i : Opens(file, i + 1, after, d, j)
  <2>1. CASE d <= Len(stack)
    <3>1. PICK j \in 1 .. i - 1 : Opens(file, i, stack, d, j)
      BY <1>0, <1>4, <2>1
    <3>2. after[d] = stack[d]
      BY <1>3, <1>4, <2>1
    <3>3. Level(file, i + 1) >= d
      BY <1>4
    <3>4. Opens(file, i + 1, after, d, j)
      BY <3>1, <3>2, <3>3 DEF Opens
    <3> QED
      BY <3>4
  <2>2. CASE d > Len(stack)
    <3>1. d = Len(stack) + 1 /\ Len(after) = Len(stack) + 1
      BY <1>4, <2>2
    <3>2. t \in Openers
      BY <1>3, <1>4, <3>1
    <3>3. after[d] = t
      BY <1>3, <3>1, <3>2
    <3>4. Opens(file, i + 1, after, d, i)
      BY <1>0, <1>4, <3>1, <3>3 DEF Opens
    <3> QED
      BY <3>4, <1>2
  <2> QED
    BY <1>4, <2>1, <2>2
<1>9. Nest(file, i + 1, after)
  BY <1>2, <1>3, <1>4, <1>5, <1>6, <1>7, <1>8, NestParts
<1> QED
  BY <1>9 DEF after

\* A file whose end is reached with no delimiter open is whole.
LEMMA NestEnds ==
  ASSUME NEW file \in Seq(Tokens), Nest(file, Len(file) + 1, <<>>)
  PROVE  Whole(file)
<1>0. /\ Len(<<>>) = Level(file, Len(file) + 1)
      /\ Known(file, Len(file) + 1)
      /\ \A j \in 1 .. (Len(file) + 1) - 1 : file[j] # "fault"
      /\ \A j \in 1 .. (Len(file) + 1) - 1 :
           file[j] \in Openers => Closed(file, Len(file) + 1, j) \/ Unclosed(file, Len(file) + 1, j)
  BY NestParts, Zenon
<1>1. Len(file) \in Nat /\ Level(file, Len(file) + 1) = 0 /\ (Len(file) + 1) - 1 = Len(file)
  BY <1>0
<1>2. ASSUME NEW i \in 1 .. Len(file)
      PROVE  file[i] # "fault" /\ Level(file, i + 1) \in 0 .. MaxNesting
  BY <1>0, <1>1, i + 1 \in 1 .. Len(file) + 1 DEF Known
<1>3. ASSUME NEW i \in 1 .. Len(file), file[i] \in Openers
      PROVE  <<file[i], file[Partner(file, i)]>> \in Matching
  <2>1. Closed(file, Len(file) + 1, i) \/ Unclosed(file, Len(file) + 1, i)
    BY <1>0, <1>1, <1>3
  <2>2. Level(file, i) >= 0
    BY <1>0, <1>1 DEF Known
  <2>3. ~Unclosed(file, Len(file) + 1, i)
    <3>1. Len(file) + 1 \in i + 1 .. Len(file) + 1
      BY <1>1
    <3> QED
      BY <1>1, <2>2, <3>1, LevelType DEF Unclosed
  <2> QED
    BY <2>1, <2>3 DEF Closed
<1> QED
  BY <1>1, <1>2, <1>3 DEF Whole

\* The lexer has a token for every place of a file that is whole, and its end.
LEMMA WholeLexes ==
  ASSUME MaxNesting \in Nat, NEW file \in Seq(Tokens), Whole(file),
         NEW i \in 1 .. Len(file) + 1, NEW stack, Nest(file, i, stack)
  PROVE  Lexes(stack, TokenAt(file, i))
<1>0. /\ stack \in Seq(Openers)
      /\ Len(stack) = Level(file, i)
      /\ \A d \in 1 .. Len(stack) : \E j \in 1 .. i - 1 : Opens(file, i, stack, d, j)
  BY NestParts, Zenon
<1>1. CASE i = Len(file) + 1
  <2>1. TokenAt(file, i) = "end"
    BY <1>1 DEF TokenAt
  <2>2. Len(stack) = 0
    BY <1>0, <1>1 DEF Whole
  <2>3. stack = <<>>
    BY <1>0, <2>2
  <2> QED
    BY <2>1, <2>3, TokenNames DEF Lexes, Tracks
<1>2. CASE i \in 1 .. Len(file)
  <2>1. TokenAt(file, i) = file[i] /\ file[i] \in Tokens
    BY <1>2 DEF TokenAt
  <2>2. file[i] # "fault" /\ file[i] # "end"
    BY <1>2, <2>1, TokenNames DEF Whole, Tokens, Structural, Ordinary, Keywords, Numbers, Counts, Components
  <2>3. Level(file, i + 1) \in 0 .. MaxNesting
    BY <1>2 DEF Whole
  <2>4. file[i] \in Openers => Len(stack) < MaxNesting
    BY <1>0, <1>2, <2>3, LevelStep
  <2>5. ASSUME file[i] \in Closers
        PROVE  stack # <<>> /\ <<stack[Len(stack)], file[i]>> \in Matching
    <3>1. Len(stack) > 0 /\ Len(stack) \in Nat
      BY <1>0, <1>2, <2>3, <2>5, LevelStep
    <3>2. PICK j \in 1 .. i - 1 : Opens(file, i, stack, Len(stack), j)
      BY <1>0, <3>1
    <3>3. Partner(file, j) = i
      BY <1>0, <1>2, <2>5, <3>1, <3>2, Innermost
    <3>4. file[j] = stack[Len(stack)] /\ stack[Len(stack)] \in Openers
      BY <1>0, <3>1, <3>2 DEF Opens
    <3>5. <<file[j], file[Partner(file, j)]>> \in Matching
      BY <1>2, <3>4 DEF Whole
    <3> QED
      BY <3>1, <3>3, <3>4, <3>5
  <2> QED
    BY <2>1, <2>2, <2>4, <2>5 DEF Lexes, Tracks
<1> QED
  BY <1>1, <1>2

\* Nothing is open at the begin of a file.
LEMMA NestBegins ==
  ASSUME MaxNesting \in Nat, NEW file
  PROVE  Nest(file, 1, <<>>)
<1>1. Level(file, 1) = 0
  BY LevelFacts
<1>2. Known(file, 1)
  BY <1>1 DEF Known
<1>3. <<>> \in Seq(Openers) /\ Len(<<>>) = 0
  OBVIOUS
<1> QED
  <2>1. 1 .. 1 - 1 = {} /\ 1 .. Len(<<>>) = {}
    OBVIOUS
  <2> QED
    BY <1>1, <1>2, <1>3, <2>1, NestParts, Zenon
-----------------------------------------------------------------------------
(***************************************************************************)
(* Goals.                                                                  *)
(***************************************************************************)
IsSeq(s) == s \in Seq({s[k] : k \in 1 .. Len(s)})

\* Every sequence is one of its own elements.
LEMMA SeqIs == ASSUME NEW S, NEW s \in Seq(S) PROVE IsSeq(s) /\ Len(s) \in Nat
<1>1. Len(s) \in Nat /\ \A k \in 1 .. Len(s) : s[k] \in {s[i] : i \in 1 .. Len(s)}
  OBVIOUS
<1>2. s = [k \in 1 .. Len(s) |-> s[k]]
  BY LenProperties
<1> DEFINE R == {s[i] : i \in 1 .. Len(s)}
<1>3. s \in [1 .. Len(s) -> R]
  BY <1>1, <1>2
<1> HIDE DEF R
<1>4. s \in Seq(R)
  BY <1>1, <1>3, SeqDef
<1> QED
  BY <1>1, <1>4 DEF IsSeq, R

Joined(r, s, t) ==
  /\ IsSeq(r)
  /\ Len(s) \in Nat /\ Len(t) \in Nat /\ Len(r) = Len(s) + Len(t)
  /\ \A k \in 1 .. Len(s) : r[k] = s[k]
  /\ \A k \in 1 .. Len(t) : r[Len(s) + k] = t[k]

\* The elements of two sequences that are joined.
LEMMA ConcatFacts ==
  ASSUME NEW s, NEW t, IsSeq(s), IsSeq(t), NEW r, r = s \o t
  PROVE  Joined(r, s, t)
<1> DEFINE S == {s[k] : k \in 1 .. Len(s)}
           T == {t[k] : k \in 1 .. Len(t)}
           U == S \cup T
<1>1. s \in Seq(S) /\ t \in Seq(T)
  BY DEF IsSeq
<1> HIDE DEF S, T
<1>2. s \in Seq(U) /\ t \in Seq(U)
  BY <1>1, SeqMonotonic
<1> HIDE DEF U
<1>3. /\ s \o t \in Seq(U)
      /\ Len(s \o t) = Len(s) + Len(t)
      /\ \A i \in 1 .. Len(s) + Len(t) : (s \o t)[i] = IF i <= Len(s) THEN s[i] ELSE t[i - Len(s)]
  BY <1>2, ConcatProperties, Zenon
<1>4. Len(s) \in Nat /\ Len(t) \in Nat
  BY <1>2
<1>5. \A k \in 1 .. Len(s) : (s \o t)[k] = s[k]
  BY <1>3, <1>4
<1>6. ASSUME NEW k \in 1 .. Len(t) PROVE (s \o t)[Len(s) + k] = t[k]
  <2>1. Len(s) + k \in 1 .. Len(s) + Len(t) /\ ~(Len(s) + k <= Len(s)) /\ Len(s) + k - Len(s) = k
    BY <1>4
  <2> QED
    BY <1>3, <2>1
<1>7. IsSeq(s \o t)
  BY <1>3, SeqIs
<1> QED
  BY <1>3, <1>4, <1>5, <1>6, <1>7 DEF Joined

\* The elements behind the first.
LEMMA TailFacts ==
  ASSUME NEW s, IsSeq(s), Len(s) > 0
  PROVE  /\ IsSeq(Tail(s))
         /\ Head(s) = s[1]
         /\ Len(Tail(s)) = Len(s) - 1
         /\ \A k \in 1 .. Len(s) - 1 : Tail(s)[k] = s[k + 1]
<1>1. PICK S : S = {s[k] : k \in 1 .. Len(s)}
  OBVIOUS
<1>2. s \in Seq(S)
  BY <1>1 DEF IsSeq
<1>3. s # <<>>
  OBVIOUS
<1>4. Tail(s) \in Seq(S) /\ Len(Tail(s)) = Len(s) - 1
      /\ \A k \in 1 .. Len(Tail(s)) : Tail(s)[k] = s[k + 1]
  BY <1>2, <1>3, HeadTailProperties, Zenon
<1>5. IsSeq(Tail(s))
  BY <1>4, SeqIs
<1>6. Head(s) = s[1]
  OBVIOUS
<1> QED
  BY <1>4, <1>5, <1>6

\* The elements of sequences that are written down.
LEMMA Tuples ==
  /\ IsSeq(<<>>) /\ Len(<<>>) = 0
  /\ \A a : IsSeq(<<a>>) /\ Len(<<a>>) = 1 /\ <<a>>[1] = a
  /\ \A a, b : IsSeq(<<a, b>>) /\ Len(<<a, b>>) = 2 /\ <<a, b>>[1] = a /\ <<a, b>>[2] = b
  /\ \A a, b, c : /\ IsSeq(<<a, b, c>>) /\ Len(<<a, b, c>>) = 3
                  /\ <<a, b, c>>[1] = a /\ <<a, b, c>>[2] = b /\ <<a, b, c>>[3] = c
<1>1. IsSeq(<<>>)
  BY SeqIs, <<>> \in Seq({})
<1>2. ASSUME NEW a PROVE IsSeq(<<a>>)
  BY SeqIs, <<a>> \in Seq({a})
<1>3. ASSUME NEW a, NEW b PROVE IsSeq(<<a, b>>)
  BY SeqIs, <<a, b>> \in Seq({a, b})
<1>4. ASSUME NEW a, NEW b, NEW c PROVE IsSeq(<<a, b, c>>)
  BY SeqIs, <<a, b, c>> \in Seq({a, b, c})
<1> QED
  BY <1>1, <1>2, <1>3, <1>4

\* What a goal is for.
GoalOK(g) == /\ g.rule = "expect" => g.of \in Structural
             /\ g.rule = "opener" => g.of.count \in Nat
             /\ g.rule = "file" => g = Goal("file")

GoalsOK == /\ IsSeq(goals) /\ Len(goals) \in Nat /\ Len(goals) > 0
           /\ goals[Len(goals)] = Goal("file")
           /\ \A k \in 1 .. Len(goals) : GoalOK(goals[k])

GoalsFor(then) == IsSeq(then) /\ \A k \in 1 .. Len(then) : GoalOK(then[k])

\* More goals come before those there are.
LEMMA Push ==
  ASSUME GoalsOK, NEW then, GoalsFor(then), Go(then \o <<Head(goals)>>)
  PROVE  /\ GoalsOK'
         /\ Len(goals') = Len(then) + Len(goals)
         /\ \A k \in 1 .. Len(then) : goals'[k] = then[k]
         /\ \A k \in 1 .. Len(goals) : goals'[Len(then) + k] = goals[k]
<1>1. IsSeq(then) /\ Len(then) \in Nat /\ \A k \in 1 .. Len(then) : GoalOK(then[k])
  BY SeqIs DEF GoalsFor, IsSeq
<1>2. /\ IsSeq(goals) /\ Len(goals) \in Nat /\ Len(goals) > 0
      /\ goals[Len(goals)] = Goal("file")
      /\ \A k \in 1 .. Len(goals) : GoalOK(goals[k])
  BY DEF GoalsOK
<1> DEFINE h == Head(goals)
           t == Tail(goals)
           f == then \o <<h>>
<1>3. /\ IsSeq(t) /\ h = goals[1] /\ Len(t) = Len(goals) - 1
      /\ \A k \in 1 .. Len(goals) - 1 : t[k] = goals[k + 1]
  BY <1>2, TailFacts
<1>4. goals' = f \o t
  BY DEF Go
<1> HIDE DEF h, t
<1>5. /\ IsSeq(f) /\ Len(f) = Len(then) + 1
      /\ \A k \in 1 .. Len(then) : f[k] = then[k]
      /\ f[Len(then) + 1] = h
  <2>1. IsSeq(<<h>>) /\ Len(<<h>>) = 1 /\ <<h>>[1] = h
    BY Tuples
  <2> QED
    <3>1. Joined(f, then, <<h>>)
      BY <1>1, <2>1, ConcatFacts
    <3> HIDE DEF f
    <3> QED
      BY <2>1, <3>1 DEF Joined
<1> HIDE DEF f
<1>6. /\ IsSeq(goals') /\ Len(goals') = Len(f) + Len(t)
      /\ \A k \in 1 .. Len(f) : goals'[k] = f[k]
      /\ \A k \in 1 .. Len(t) : goals'[Len(f) + k] = t[k]
  <2>1. Joined(goals', f, t)
    BY <1>3, <1>4, <1>5, ConcatFacts
  <2> QED
    BY <2>1 DEF Joined
<1>7. Len(goals') = Len(then) + Len(goals)
  BY <1>1, <1>2, <1>3, <1>5, <1>6
<1>8. \A k \in 1 .. Len(then) : goals'[k] = then[k]
  BY <1>1, <1>5, <1>6
<1>9. ASSUME NEW k \in 1 .. Len(goals) PROVE goals'[Len(then) + k] = goals[k]
  <2>1. CASE k = 1
    BY <1>1, <1>3, <1>5, <1>6, <2>1
  <2>2. CASE k # 1
    <3>1. k - 1 \in 1 .. Len(t) /\ Len(f) + (k - 1) = Len(then) + k /\ (k - 1) + 1 = k
      BY <1>1, <1>2, <1>3, <1>5, <2>2
    <3>2. goals'[Len(f) + (k - 1)] = t[k - 1]
      BY <1>6, <3>1
    <3>3. t[k - 1] = goals[(k - 1) + 1]
      BY <1>3, <3>1
    <3> QED
      BY <3>1, <3>2, <3>3
  <2> QED
    BY <2>1, <2>2
<1>10. goals'[Len(goals')] = Goal("file")
  BY <1>2, <1>7, <1>9
<1>11. ASSUME NEW k \in 1 .. Len(goals') PROVE GoalOK(goals'[k])
  <2>1. CASE k <= Len(then)
    BY <1>1, <1>8, <2>1
  <2>2. CASE k > Len(then)
    <3>1. k - Len(then) \in 1 .. Len(goals) /\ Len(then) + (k - Len(then)) = k
      BY <1>1, <1>2, <1>7, <2>2
    <3>2. goals'[Len(then) + (k - Len(then))] = goals[k - Len(then)]
      BY <1>9, <3>1
    <3> QED
      BY <1>2, <3>1, <3>2
  <2> QED
    BY <1>1, <2>1, <2>2
<1>12. GoalsOK'
  BY <1>1, <1>2, <1>6, <1>7, <1>10, <1>11 DEF GoalsOK, GoalOK
<1> QED
  BY <1>7, <1>8, <1>9, <1>12

\* The first goal is replaced by others.
LEMMA Pop ==
  ASSUME GoalsOK, NEW then, GoalsFor(then), Go(then), Len(goals) > 1
  PROVE  /\ GoalsOK'
         /\ Len(goals') = Len(then) + Len(goals) - 1
         /\ \A k \in 1 .. Len(then) : goals'[k] = then[k]
         /\ \A k \in 2 .. Len(goals) : goals'[Len(then) + k - 1] = goals[k]
<1>1. IsSeq(then) /\ Len(then) \in Nat /\ \A k \in 1 .. Len(then) : GoalOK(then[k])
  BY SeqIs DEF GoalsFor, IsSeq
<1>2. /\ IsSeq(goals) /\ Len(goals) \in Nat /\ Len(goals) > 1
      /\ goals[Len(goals)] = Goal("file")
      /\ \A k \in 1 .. Len(goals) : GoalOK(goals[k])
  BY DEF GoalsOK
<1> DEFINE t == Tail(goals)
<1>3. /\ IsSeq(t) /\ Len(t) = Len(goals) - 1
      /\ \A k \in 1 .. Len(goals) - 1 : t[k] = goals[k + 1]
  BY <1>2, TailFacts
<1>4. goals' = then \o t
  BY DEF Go
<1> HIDE DEF t
<1>6. /\ IsSeq(goals') /\ Len(goals') = Len(then) + Len(t)
      /\ \A k \in 1 .. Len(then) : goals'[k] = then[k]
      /\ \A k \in 1 .. Len(t) : goals'[Len(then) + k] = t[k]
  <2>1. Joined(goals', then, t)
    BY <1>1, <1>3, <1>4, ConcatFacts
  <2> QED
    BY <2>1 DEF Joined
<1>7. Len(goals') = Len(then) + Len(goals) - 1
  BY <1>1, <1>2, <1>3, <1>6
<1>9. ASSUME NEW k \in 2 .. Len(goals) PROVE goals'[Len(then) + k - 1] = goals[k]
  <2>1. k - 1 \in 1 .. Len(t) /\ Len(then) + (k - 1) = Len(then) + k - 1 /\ (k - 1) + 1 = k
    BY <1>1, <1>2, <1>3
  <2>2. goals'[Len(then) + (k - 1)] = t[k - 1]
    BY <1>6, <2>1
  <2>3. t[k - 1] = goals[(k - 1) + 1]
    BY <1>3, <2>1
  <2> QED
    BY <2>1, <2>2, <2>3
<1>10. goals'[Len(goals')] = Goal("file")
  BY <1>2, <1>7, <1>9
<1>11. ASSUME NEW k \in 1 .. Len(goals') PROVE GoalOK(goals'[k])
  <2>1. CASE k <= Len(then)
    BY <1>1, <1>6, <2>1
  <2>2. CASE k > Len(then)
    <3> DEFINE j == k - Len(then) + 1
    <3>1. j \in 2 .. Len(goals) /\ Len(then) + j - 1 = k
      BY <1>1, <1>2, <1>7, <2>2
    <3> HIDE DEF j
    <3>2. goals'[Len(then) + j - 1] = goals[j]
      BY <1>9, <3>1
    <3> QED
      BY <1>2, <3>1, <3>2
  <2> QED
    BY <1>1, <2>1, <2>2
<1>12. GoalsOK'
  BY <1>1, <1>2, <1>6, <1>7, <1>10, <1>11 DEF GoalsOK, GoalOK
<1> QED
  BY <1>6, <1>7, <1>9, <1>12
-----------------------------------------------------------------------------
(***************************************************************************)
(* The reader keeps account of the delimiters and of its goals.            *)
(***************************************************************************)
Heads == {"file", "header", "patch"}

\* What each rule can use.
LEMMA UsableFacts ==
  /\ Rule = "file" => Usable = Plain \cup {"end"}
  /\ Rule \in {"header", "boundary", "patch"} => Usable = Plain \cup {BraceClose}
  /\ Rule = "expect" => Usable = {Of}
  /\ Rule = "semicolon?" => Usable = Tokens \cup {"end"}
  /\ Rule = "scalar" => Usable = Ordinary
  /\ Rule = "exponents" => Usable \subseteq Numbers \cup {BracketClose}
  /\ Rule = "value" => Usable = Plain
  /\ Rule = "uniform" => Usable = Plain \cup Openers
  /\ Rule = "list" => Usable = DOMAIN Components
  /\ Rule = "count" => Usable = DOMAIN Counts
  /\ Rule = "opener" => Usable \subseteq {ParenOpen}
  /\ Rule = "number" => Usable = Numbers
  /\ Rule \in {"exact", "line"} => Usable = Plain \cup Openers
  /\ Rule = "group" => Usable = Tokens
  /\ Rule = "rest" => Usable = IF local = <<>> THEN Tokens \ Closers ELSE Tokens
BY DEF Usable

\* The kinds of tokens: what is structural, what is not and what is no token.
LEMMA TokenKinds ==
  /\ Plain \subseteq Tokens /\ Openers \subseteq Tokens /\ Closers \subseteq Tokens
  /\ Ordinary \subseteq Tokens /\ Numbers \subseteq Tokens /\ Structural \subseteq Tokens
  /\ DOMAIN Components \subseteq Tokens /\ DOMAIN Counts \subseteq Tokens
  /\ "end" \notin Tokens
  /\ Plain \cap Structural = {}
  /\ "fault" \notin Plain \cup Structural
  /\ Tokens = Structural \cup Plain \cup {"fault"}
<1>1. ASSUME NEW t \in Structural PROVE t \notin Plain /\ t # "end" /\ t # "fault"
  <2>1. t \notin Numbers
    BY <1>1, Zenon DEF Structural, Openers, Closers, BraceOpen, ParenOpen, BracketOpen, BraceClose,
                      ParenClose, BracketClose, Semicolon, Numbers, Counts
  <2>2. t \notin DOMAIN Components
    BY <1>1, Zenon DEF Structural, Openers, Closers, BraceOpen, ParenOpen, BracketOpen, BraceClose,
                      ParenClose, BracketClose, Semicolon, Components
  <2>3. t \notin Keywords \cup {"word", "inf", "quoted", "end", "fault"}
    BY <1>1, Zenon DEF Structural, Openers, Closers, BraceOpen, ParenOpen, BracketOpen, BraceClose,
                      ParenClose, BracketClose, Semicolon, Keywords
  <2> QED BY <2>1, <2>2, <2>3 DEF Plain, Ordinary
<1>2. "end" \notin Plain /\ "fault" \notin Plain
  BY DEF Plain, Ordinary, Keywords, Numbers, Counts, Components
<1> QED
  BY <1>1, <1>2 DEF Plain, Tokens, Structural, Ordinary, Numbers

\* The reader is at a place of the file or behind the last one.
LEMMA AtFacts ==
  ASSUME Lexed
  PROVE  at \in Nat /\ Len(text) \in Nat /\ at >= 1 /\ at <= Len(text) + 1 /\ text \in Seq(Tokens)
BY DEF Lexed

\* A token that is taken is one of the file.
LEMMA Taken ==
  ASSUME Lexed, Accepts, Peek # "end"
  PROVE  /\ at \in 1 .. Len(text) /\ Peek = text[at] /\ Peek \in Tokens
         /\ at \in Nat /\ Len(text) \in Nat /\ ~(at > Len(text))
<1>1. at \in 1 .. Len(text) + 1 /\ text \in Seq(Tokens) /\ Len(text) \in Nat
  BY DEF Lexed
<1>2. at <= Len(text)
  BY <1>1 DEF Peek, TokenAt
<1> QED
  BY <1>1, <1>2 DEF Peek, TokenAt

\* The lexer keeps account of the delimiters when a token is taken.
LEMMA LexedStep ==
  ASSUME MaxNesting \in Nat, Lexed, Accepts, Peek # "end", TakeToken
  PROVE  Lexed'
<1>1. at \in 1 .. Len(text) /\ Peek = text[at]
  BY Taken
<1>2. Lexes(open, text[at])
  BY <1>1 DEF Accepts
<1>3. text \in Seq(Tokens) /\ Nest(text, at, open) /\ full \in BOOLEAN /\ Len(text) \in Nat
  BY DEF Lexed
<1>4. Nest(text, at + 1, Track(open, text[at]))
  BY <1>1, <1>2, <1>3, NestStep
<1>5. at' = at + 1 /\ open' = Track(open, text[at]) /\ text' = text /\ full' = full
  BY <1>1 DEF TakeToken
<1>6. at' \in 1 .. Len(text) + 1
  BY <1>1, <1>3, <1>5
<1>7. Nest(text', at', open')
  BY <1>4, <1>5
<1> QED
  BY <1>3, <1>5, <1>6, <1>7 DEF Lexed
-----------------------------------------------------------------------------
(***************************************************************************)
(* What is skipped.                                                        *)
(***************************************************************************)
SkipFirst == TokenAt(text, skip.from)
ExactLast == IF SkipFirst \in Openers THEN GroupEnd(text, skip.from) ELSE skip.from
SkipPlace == IF skip.by = "exact" THEN SkipExact(text, skip.from) ELSE SkipLine(text, skip.from)

\* The n-th goal is the loop whose entry is skipped.
Waits(n) == Len(goals) >= n /\ goals[n].rule \in Heads

SkipStarts == Rule = skip.by /\ Waits(2) /\ at = skip.from
SkipEnds == /\ goals[1] = Expect(Semicolon) /\ Waits(2) /\ at > skip.from
            /\ skip.by = "exact" /\ SkipFirst \in (Plain \cup Openers) \ {BraceOpen} /\ ExactLast = at - 1
SkipsGroup == /\ Rule = "group" /\ Waits(3) /\ at > skip.from
              /\ goals[2] = IF SkipFirst = BraceOpen THEN Goal("semicolon?") ELSE Expect(Semicolon)
              /\ SkipFirst \in Openers /\ (SkipFirst = BraceOpen \/ skip.by = "exact")
              /\ local \in Seq(Openers)
              /\ GroupEnd(text, skip.from) = GroupFrom(text)[at][local]
SkipsOptional == /\ Rule = "semicolon?" /\ Waits(2) /\ at > skip.from
                 /\ SkipFirst = BraceOpen /\ GroupEnd(text, skip.from) = at - 1
SkipsRest == /\ Rule = "rest" /\ Waits(2) /\ at > skip.from
             /\ skip.by = "line" /\ SkipFirst \in (Plain \cup Openers) \ {BraceOpen}
             /\ local \in Seq(Openers)
             /\ LineEnd(text, skip.from) = LineFrom(text)[at][local]
Skipped == Rule \in Heads /\ at > skip.from /\ SkipPlace = at

SkipInv == skip.by # "none" =>
             /\ skip.by \in {"exact", "line"}
             /\ skip.from \in Nat /\ skip.from > 0
             /\ \/ SkipStarts \/ SkipEnds \/ SkipsGroup \/ SkipsOptional \/ SkipsRest \/ Skipped

\* The steps of a cursor.
LEMMA GroupChain ==
  ASSUME NEW file, Len(file) \in Nat, NEW i \in Nat, NEW stack \in Seq(Openers)
  PROVE  /\ GroupEnd(file, i) = GroupFrom(file)[i][<<>>]
         /\ GroupFrom(file)[i][stack] =
              IF i > Len(file) \/ ~Tracks(stack, file[i]) THEN 0
              ELSE IF Track(stack, file[i]) = <<>> THEN i
              ELSE GroupFrom(file)[i + 1][Track(stack, file[i])]
<1> DEFINE f == GroupFrom(file)
<1>1. f = [j \in Nat |-> GroupStep(file, j, f)] /\ GroupEnd(file, i) = f[i][<<>>]
  BY GroupFromFacts, Zenon
<1> HIDE DEF f
<1>2. f[i] = GroupStep(file, i, f)
  BY <1>1
<1> QED
  BY <1>1, <1>2 DEF GroupStep, f

\* The same of a line.
LEMMA LineChain ==
  ASSUME NEW file, Len(file) \in Nat, NEW i \in Nat, NEW stack \in Seq(Openers)
  PROVE  /\ LineEnd(file, i) = LineFrom(file)[i][<<>>]
         /\ LineFrom(file)[i][stack] =
              IF i > Len(file) \/ ~Tracks(stack, file[i]) THEN 0
              ELSE IF stack = <<>> /\ file[i] = Semicolon THEN i
              ELSE LineFrom(file)[i + 1][Track(stack, file[i])]
<1> DEFINE f == LineFrom(file)
<1>1. f = [j \in Nat |-> LineStep(file, j, f)] /\ LineEnd(file, i) = f[i][<<>>]
  BY LineFromFacts, Zenon
<1> HIDE DEF f
<1>2. f[i] = LineStep(file, i, f)
  BY <1>1
<1> QED
  BY <1>1, <1>2 DEF LineStep, f

\* The first element.
LEMMA AppendNone == ASSUME NEW p PROVE Append(<<>>, p) = <<p>>
OBVIOUS

\* The first delimiter of a group or a line.
LEMMA FirstTrack ==
  ASSUME MaxNesting \in Nat, Lexed, Accepts, Peek \in Plain \cup Openers
  PROVE  /\ Tracks(<<>>, Peek) /\ Track(<<>>, Peek) \in Seq(Openers)
         /\ Peek \in Openers => Track(<<>>, Peek) = <<Peek>> /\ <<Peek>> # <<>>
<1>1. Tracks(open, Peek) /\ open \in Seq(Openers)
  BY NestParts DEF Accepts, Lexes, Lexed
<1>2. Peek \notin Closers
  BY TokenKinds, TokenNames DEF Structural
<1>3. Peek \in Openers => 0 < MaxNesting
  BY <1>1 DEF Tracks
<1>4. Tracks(<<>>, Peek)
  BY <1>2, <1>3 DEF Tracks
<1>5. <<>> \in Seq(Openers)
  OBVIOUS
<1>6. ASSUME Peek \in Openers PROVE Track(<<>>, Peek) = <<Peek>>
  <2>1. Track(<<>>, Peek) = Append(<<>>, Peek)
    BY <1>4, <1>5, <1>6, TrackFacts
  <2> QED
    BY <2>1, AppendNone
<1> QED
  BY <1>4, <1>5, <1>6, TrackType

SkipState == Lexed /\ GoalsOK /\ SkipInv

\* The first goal.
LEMMA Goals1 ==
  ASSUME GoalsOK
  PROVE  /\ Rule = goals[1].rule /\ Of = goals[1].of /\ Head(goals) = goals[1]
         /\ Len(goals) \in Nat
         /\ GoalOK(goals[1])
<1>1. Len(goals) \in Nat /\ Len(goals) > 0 /\ Head(goals) = goals[1]
  BY TailFacts DEF GoalsOK
<1>2. GoalOK(goals[1])
  BY <1>1 DEF GoalsOK
<1> QED
  BY <1>1, <1>2 DEF Rule, Of

\* A goal that is not the last.
LEMMA NotLast == ASSUME GoalsOK, Rule # "file" PROVE Len(goals) > 1
BY Goals1 DEF GoalsOK, Goal

\* The goals that are written down.
LEMMA Literals ==
  /\ \A r : Goal(r).rule = r
  /\ \A r, o : GoalOf(r, o).rule = r /\ GoalOf(r, o).of = o
  /\ \A t : Expect(t).rule = "expect" /\ Expect(t).of = t
  /\ \A r : r \notin {"expect", "opener"} => GoalOK(Goal(r))
  /\ \A t \in Structural : GoalOK(Expect(t))
  /\ \A r, o : r \notin {"expect", "opener", "file"} => GoalOK(GoalOf(r, o))
BY DEF Goal, GoalOf, Expect, GoalOK

\* The same for none, one, two or three goals.
LEMMA PopNone ==
  ASSUME GoalsOK, Rule # "file", Go(<<>>)
  PROVE  /\ GoalsOK' /\ Len(goals') = Len(goals) - 1 /\ Len(goals) > 1 /\ Rule' = goals[2].rule
         /\ \A k \in 1 .. Len(goals') : goals'[k] = goals[k + 1]
<1>1. Len(goals) > 1 /\ Len(goals) \in Nat
  BY NotLast, Goals1
<1>2. GoalsFor(<<>>) /\ Len(<<>>) = 0
  BY Tuples DEF GoalsFor
<1>3. GoalsOK' /\ Len(goals') = 0 + Len(goals) - 1 /\ \A k \in 2 .. Len(goals) : goals'[0 + k - 1] = goals[k]
  BY <1>1, <1>2, Pop
<1>4. \A k \in 1 .. Len(goals) - 1 : goals'[k] = goals[k + 1]
  <2> SUFFICES ASSUME NEW k \in 1 .. Len(goals) - 1 PROVE goals'[k] = goals[k + 1]
    OBVIOUS
  <2>1. k + 1 \in 2 .. Len(goals) /\ 0 + (k + 1) - 1 = k
    BY <1>1
  <2>2. goals'[0 + (k + 1) - 1] = goals[k + 1]
    BY <1>3, <2>1
  <2> QED
    BY <2>1, <2>2
<1>5. Rule' = goals'[1].rule
  BY <1>3, TailFacts DEF GoalsOK, Rule
<1>6. goals'[1] = goals[2]
  BY <1>1, <1>4
<1> QED
  BY <1>1, <1>3, <1>4, <1>5, <1>6

\* One goal takes the place of the first.
LEMMA PopOne ==
  ASSUME GoalsOK, Rule # "file", NEW a, GoalOK(a), Go(<<a>>)
  PROVE  /\ GoalsOK' /\ Len(goals') = Len(goals) /\ Len(goals) > 1 /\ Rule' = a.rule
         /\ goals'[1] = a
         /\ \A k \in 2 .. Len(goals) : goals'[k] = goals[k]
<1>1. Len(goals) > 1 /\ Len(goals) \in Nat
  BY NotLast, Goals1
<1>2. GoalsFor(<<a>>) /\ Len(<<a>>) = 1 /\ <<a>>[1] = a
  <2>1. IsSeq(<<a>>) /\ Len(<<a>>) = 1 /\ <<a>>[1] = a
    BY Tuples
  <2> QED
    BY <2>1 DEF GoalsFor
<1>3. /\ GoalsOK' /\ Len(goals') = 1 + Len(goals) - 1 /\ goals'[1] = a
      /\ \A k \in 2 .. Len(goals) : goals'[1 + k - 1] = goals[k]
  <2> DEFINE then == <<a>>
  <2>1. GoalsFor(then) /\ Len(then) = 1 /\ then[1] = a /\ Go(then)
    BY <1>2
  <2> HIDE DEF then
  <2>2. /\ GoalsOK' /\ Len(goals') = Len(then) + Len(goals) - 1
        /\ \A k \in 1 .. Len(then) : goals'[k] = then[k]
        /\ \A k \in 2 .. Len(goals) : goals'[Len(then) + k - 1] = goals[k]
    BY <1>1, <2>1, Pop
  <2> QED
    BY <2>1, <2>2
<1>4. \A k \in 2 .. Len(goals) : goals'[k] = goals[k]
  BY <1>1, <1>3
<1>5. Rule' = goals'[1].rule
  BY <1>3, TailFacts DEF GoalsOK, Rule
<1> QED
  BY <1>1, <1>3, <1>4, <1>5

\* Two of them.
LEMMA PopTwo ==
  ASSUME GoalsOK, Rule # "file", NEW a, NEW b, GoalOK(a), GoalOK(b), Go(<<a, b>>)
  PROVE  /\ GoalsOK' /\ Len(goals') = Len(goals) + 1 /\ Len(goals) > 1 /\ Rule' = a.rule
         /\ goals'[1] = a /\ goals'[2] = b
         /\ \A k \in 2 .. Len(goals) : goals'[k + 1] = goals[k]
<1>1. Len(goals) > 1 /\ Len(goals) \in Nat
  BY NotLast, Goals1
<1> DEFINE then == <<a, b>>
<1>2. GoalsFor(then) /\ Len(then) = 2 /\ then[1] = a /\ then[2] = b /\ Go(then)
  <2>1. IsSeq(<<a, b>>) /\ Len(<<a, b>>) = 2 /\ <<a, b>>[1] = a /\ <<a, b>>[2] = b
    BY Tuples
  <2> QED
    BY <2>1 DEF GoalsFor
<1> HIDE DEF then
<1>3. /\ GoalsOK' /\ Len(goals') = Len(then) + Len(goals) - 1
      /\ \A k \in 1 .. Len(then) : goals'[k] = then[k]
      /\ \A k \in 2 .. Len(goals) : goals'[Len(then) + k - 1] = goals[k]
  BY <1>1, <1>2, Pop
<1>4. \A k \in 2 .. Len(goals) : goals'[k + 1] = goals[k]
  <2> SUFFICES ASSUME NEW k \in 2 .. Len(goals) PROVE goals'[k + 1] = goals[k]
    OBVIOUS
  <2>1. Len(then) + k - 1 = k + 1
    BY <1>2
  <2>2. goals'[Len(then) + k - 1] = goals[k]
    BY <1>3
  <2> QED
    BY <2>1, <2>2
<1>5. Rule' = goals'[1].rule
  BY <1>3, TailFacts DEF GoalsOK, Rule
<1> QED
  BY <1>1, <1>2, <1>3, <1>4, <1>5

\* Where an entry is skipped the rules tell how far it is.
LEMMA SkipRules ==
  ASSUME GoalsOK, SkipInv, skip.by # "none"
  PROVE  /\ skip.by \in {"exact", "line"} /\ skip.from \in Nat /\ skip.from > 0
         /\ Rule \in {"exact", "line"} => SkipStarts
         /\ Rule = "expect" => SkipEnds
         /\ Rule = "group" => SkipsGroup
         /\ Rule = "semicolon?" => SkipsOptional
         /\ Rule = "rest" => SkipsRest
         /\ Rule \in Heads => Skipped
         /\ Rule \in {"exact", "line", "expect", "group", "semicolon?", "rest"} \cup Heads
<1>1. SkipStarts => Rule \in {"exact", "line"}
  BY DEF SkipStarts, SkipInv
<1>2. SkipEnds => Rule = "expect"
  BY Goals1, Literals DEF SkipEnds
<1>3. SkipsGroup => Rule = "group"
  BY DEF SkipsGroup
<1>4. SkipsOptional => Rule = "semicolon?"
  BY DEF SkipsOptional
<1>5. SkipsRest => Rule = "rest"
  BY DEF SkipsRest
<1>6. Skipped => Rule \in Heads
  BY DEF Skipped
<1>7. /\ skip.by \in {"exact", "line"} /\ skip.from \in Nat /\ skip.from > 0
      /\ \/ SkipStarts \/ SkipEnds \/ SkipsGroup \/ SkipsOptional \/ SkipsRest \/ Skipped
  BY DEF SkipInv
<1> QED
  BY <1>1, <1>2, <1>3, <1>4, <1>5, <1>6, <1>7 DEF Heads

\* The first token of an entry that is skipped exactly.
LEMMA FirstOfExact ==
  ASSUME MaxNesting \in Nat, SkipState, SkipFirstOfExact
  PROVE  GoalsOK' /\ SkipInv'
<1> USE DEF SkipState
<1>1. Rule = "exact" /\ Accepts /\ at' = at + 1 /\ text' = text /\ skip' = skip
  BY DEF SkipFirstOfExact, Reading, TakeToken
<1>2. Peek \in Plain \cup Openers /\ Peek # "end"
  BY <1>1, UsableFacts, TokenKinds DEF Accepts
<1>3. at \in 1 .. Len(text) /\ Peek = text[at] /\ Len(text) \in Nat
  BY <1>1, <1>2, Taken DEF Lexed
<1>5. ASSUME skip.by # "none"
      PROVE  /\ skip.by = "exact" /\ skip.from = at /\ skip.from \in Nat /\ skip.from > 0
             /\ goals[2].rule \in Heads /\ SkipFirst = Peek
  BY <1>1, <1>5, SkipRules DEF SkipStarts, Waits, SkipFirst, Peek
<1>6. CASE Peek \in Plain /\ Go(<<Expect(Semicolon)>>)
  <2>2. GoalsOK' /\ Len(goals') = Len(goals) /\ goals'[1] = Expect(Semicolon) /\ goals'[2] = goals[2] /\ Len(goals) > 1
    <3>1. GoalOK(Expect(Semicolon))
      BY Literals DEF Structural
    <3>2. PICK a : a = Expect(Semicolon)
      OBVIOUS
    <3>3. GoalOK(a) /\ Go(<<a>>)
      BY <1>6, <3>1, <3>2
    <3>4. GoalsOK' /\ Len(goals') = Len(goals) /\ goals'[1] = a /\ Len(goals) > 1
          /\ \A k \in 2 .. Len(goals) : goals'[k] = goals[k]
      BY <1>1, <3>3, PopOne
    <3>5. 2 \in 2 .. Len(goals)
      BY <3>4, Goals1
    <3> QED
      BY <3>2, <3>4, <3>5
  <2>3. ASSUME skip.by # "none" PROVE SkipEnds'
    <3>1. SkipFirst' = Peek /\ Peek \notin Openers /\ Peek # BraceOpen
      BY <1>1, <1>5, <1>6, <2>3, TokenKinds, TokenNames DEF SkipFirst, Structural
    <3>2. ExactLast' = skip.from
      BY <1>1, <3>1 DEF ExactLast
    <3>3. Waits(2)'
      BY <1>5, <2>2, <2>3, Goals1 DEF Waits
    <3>4. at' > skip'.from /\ ExactLast' = at' - 1
      BY <1>1, <1>3, <1>5, <2>3, <3>2
    <3>5. skip'.by = "exact" /\ SkipFirst' \in (Plain \cup Openers) \ {BraceOpen}
      BY <1>1, <1>5, <1>6, <2>3, <3>1
    <3> QED
      BY <2>2, <3>3, <3>4, <3>5 DEF SkipEnds
  <2>4. skip'.by # "none" => skip'.by \in {"exact", "line"} /\ skip'.from \in Nat /\ skip'.from > 0 /\ SkipEnds'
    BY <1>1, <1>5, <2>3
  <2> QED
    BY <2>2, <2>4 DEF SkipInv
<1>7. CASE /\ Peek \in Openers
           /\ Go(<<Goal("group"), IF Peek = BraceOpen THEN Goal("semicolon?") ELSE Expect(Semicolon)>>)
           /\ local' = <<Peek>>
  <2> DEFINE last == IF Peek = BraceOpen THEN Goal("semicolon?") ELSE Expect(Semicolon)
  <2>1. GoalOK(Goal("group")) /\ GoalOK(last) /\ Goal("group").rule = "group"
    BY Literals DEF Structural
  <2>2. Go(<<Goal("group"), last>>)
    BY <1>7
  <2> HIDE DEF last
  <2>3. GoalsOK' /\ Len(goals') = Len(goals) + 1 /\ Rule' = "group" /\ goals'[2] = last
        /\ goals'[2 + 1] = goals[2] /\ Len(goals) > 1
    BY <1>1, <2>1, <2>2, PopTwo, Goals1
  <2>4. ASSUME skip.by # "none" PROVE SkipsGroup'
    <3>1. SkipFirst' = Peek
      BY <1>1, <1>5, <2>4 DEF SkipFirst
    <3>3. local' = <<text[at]>> /\ text[at] \in Openers
      BY <1>3, <1>7
    <3>4. GroupEnd(text, skip.from) = GroupFrom(text)[at + 1][local']
      <4>1. Tracks(<<>>, text[at]) /\ Track(<<>>, text[at]) = <<text[at]>> /\ <<text[at]>> # <<>>
        BY <1>1, <1>2, <1>3, <1>7, FirstTrack
      <4>2. <<>> \in Seq(Openers) /\ at \in Nat /\ ~(at > Len(text))
        BY <1>3
      <4>3. GroupEnd(text, at) = GroupFrom(text)[at + 1][<<text[at]>>]
        BY <1>3, <4>1, <4>2, GroupChain
      <4> QED
        BY <1>5, <2>4, <3>3, <4>3
    <3>5. (GroupEnd(text, skip.from) = GroupFrom(text)[at][local])'
      BY <1>1, <3>4
    <3>6. Waits(3)'
      BY <1>5, <2>3, <2>4, Goals1 DEF Waits
    <3>7. at' > skip'.from /\ skip'.by = "exact"
      BY <1>1, <1>3, <1>5, <2>4
    <3>8. goals'[2] = IF SkipFirst' = BraceOpen THEN Goal("semicolon?") ELSE Expect(Semicolon)
      BY <2>3, <3>1 DEF last
    <3>9. local' \in Seq(Openers)
      BY <3>3
    <3>10. SkipFirst' \in Openers
      BY <1>7, <3>1
    <3> QED
      BY <2>3, <3>5, <3>6, <3>7, <3>8, <3>9, <3>10 DEF SkipsGroup
  <2>5. skip'.by # "none" => skip'.by \in {"exact", "line"} /\ skip'.from \in Nat /\ skip'.from > 0 /\ SkipsGroup'
    BY <1>1, <1>5, <2>4
  <2> QED
    BY <2>3, <2>5 DEF SkipInv
<1> QED
  BY <1>6, <1>7 DEF SkipFirstOfExact

\* SkipInv', if an entry is still skipped.
LEMMA SkipOn ==
  ASSUME GoalsOK, SkipInv, skip' = skip,
         skip.by # "none" => \/ SkipStarts' \/ SkipEnds' \/ SkipsGroup' \/ SkipsOptional' \/ SkipsRest' \/ Skipped'
  PROVE  SkipInv'
<1>1. CASE skip.by = "none"
  BY <1>1 DEF SkipInv
<1>2. CASE skip.by # "none"
  <2>1. /\ skip.by \in {"exact", "line"} /\ skip.from \in Nat /\ skip.from > 0
        /\ \/ SkipStarts' \/ SkipEnds' \/ SkipsGroup' \/ SkipsOptional' \/ SkipsRest' \/ Skipped'
    BY <1>2, SkipRules
  <2> QED
    BY <2>1 DEF SkipInv
<1> QED
  BY <1>1, <1>2

\* The first token of an entry that is skipped as a line.
LEMMA FirstOfLine ==
  ASSUME MaxNesting \in Nat, SkipState, SkipFirstOfLine
  PROVE  GoalsOK' /\ SkipInv'
<1> USE DEF SkipState
<1>1. Rule = "line" /\ Accepts /\ at' = at + 1 /\ text' = text /\ skip' = skip /\ local' = Track(<<>>, Peek)
  BY DEF SkipFirstOfLine, Reading, TakeToken
<1>2. Peek \in Plain \cup Openers /\ Peek # "end"
  BY <1>1, UsableFacts, TokenKinds DEF Accepts
<1>3. at \in 1 .. Len(text) /\ Peek = text[at] /\ at \in Nat /\ Len(text) \in Nat
  BY <1>1, <1>2, Taken
<1>4. Tracks(<<>>, text[at]) /\ local' \in Seq(Openers) /\ <<>> \in Seq(Openers) /\ ~(at > Len(text))
      /\ (text[at] \in Openers => local' = <<text[at]>> /\ <<text[at]>> # <<>>)
  BY <1>1, <1>2, <1>3, FirstTrack
<1>5. ASSUME skip.by # "none"
      PROVE  /\ skip.by = "line" /\ skip.from = at /\ goals[2].rule \in Heads /\ SkipFirst = Peek
             /\ SkipFirst' = Peek /\ at' > skip'.from
  <2>1. skip.by = "line" /\ skip.from = at /\ goals[2].rule \in Heads /\ SkipFirst = Peek
    BY <1>1, <1>5, SkipRules DEF SkipStarts, Waits, SkipFirst, Peek
  <2> QED
    BY <1>1, <1>3, <2>1 DEF SkipFirst
<1>6. CASE Peek = BraceOpen
  <2>1. GoalOK(Goal("group")) /\ GoalOK(Goal("semicolon?")) /\ Goal("group").rule = "group"
    BY Literals
  <2>2. Go(<<Goal("group"), Goal("semicolon?")>>)
    BY <1>6 DEF SkipFirstOfLine
  <2>3. GoalsOK' /\ Len(goals') = Len(goals) + 1 /\ Rule' = "group" /\ goals'[2] = Goal("semicolon?")
        /\ goals'[2 + 1] = goals[2] /\ Len(goals) > 1
    BY <1>1, <2>1, <2>2, PopTwo, Goals1
  <2>4. ASSUME skip.by # "none" PROVE SkipsGroup'
    <3>1. text[at] \in Openers
      BY <1>3, <1>6, TokenNames
    <3>2. GroupEnd(text, at) = GroupFrom(text)[at + 1][<<text[at]>>]
      <4>1. /\ GroupEnd(text, at) = GroupFrom(text)[at][<<>>]
            /\ GroupFrom(text)[at][<<>>] =
                 IF at > Len(text) \/ ~Tracks(<<>>, text[at]) THEN 0
                 ELSE IF Track(<<>>, text[at]) = <<>> THEN at
                 ELSE GroupFrom(text)[at + 1][Track(<<>>, text[at])]
        BY <1>3, <1>4, GroupChain
      <4>2. Track(<<>>, text[at]) = <<text[at]>> /\ <<text[at]>> # <<>>
        BY <1>1, <1>3, <1>4, <3>1
      <4> QED
        BY <1>3, <1>4, <4>1, <4>2
    <3>3. (GroupEnd(text, skip.from) = GroupFrom(text)[at][local])'
      BY <1>1, <1>4, <1>5, <2>4, <3>1, <3>2
    <3>4. Waits(3)'
      BY <1>5, <2>3, <2>4, Goals1 DEF Waits
    <3>5. SkipFirst' = BraceOpen /\ SkipFirst' \in Openers
      BY <1>5, <1>6, <2>4, TokenNames
    <3> QED
      BY <1>4, <1>5, <2>3, <2>4, <3>3, <3>4, <3>5 DEF SkipsGroup
  <2> QED
    BY <1>1, <2>3, <2>4, SkipOn
<1>7. CASE Peek # BraceOpen
  <2>1. GoalOK(Goal("rest")) /\ Goal("rest").rule = "rest"
    BY Literals
  <2>2. Go(<<Goal("rest")>>)
    BY <1>7 DEF SkipFirstOfLine
  <2>3. GoalsOK' /\ Len(goals') = Len(goals) /\ Rule' = "rest"
        /\ goals'[2] = goals[2] /\ Len(goals) > 1
    BY <1>1, <2>1, <2>2, PopOne, Goals1
  <2>4. ASSUME skip.by # "none" PROVE SkipsRest'
    <3>1. text[at] # Semicolon /\ Track(<<>>, text[at]) = local'
      BY <1>1, <1>2, <1>3, TokenKinds, TokenNames DEF Structural
    <3>2. LineEnd(text, at) = LineFrom(text)[at + 1][local']
      <4>1. /\ LineEnd(text, at) = LineFrom(text)[at][<<>>]
            /\ LineFrom(text)[at][<<>>] =
                 IF at > Len(text) \/ ~Tracks(<<>>, text[at]) THEN 0
                 ELSE IF <<>> = <<>> /\ text[at] = Semicolon THEN at
                 ELSE LineFrom(text)[at + 1][Track(<<>>, text[at])]
        BY <1>3, <1>4, LineChain
      <4> QED
        BY <1>3, <1>4, <3>1, <4>1
    <3>3. (LineEnd(text, skip.from) = LineFrom(text)[at][local])'
      BY <1>1, <1>5, <2>4, <3>2
    <3>4. Waits(2)'
      BY <1>5, <2>3, <2>4 DEF Waits
    <3>5. SkipFirst' \in (Plain \cup Openers) \ {BraceOpen} /\ skip'.by = "line"
      BY <1>1, <1>2, <1>5, <1>7, <2>4
    <3> QED
      BY <1>4, <1>5, <2>3, <2>4, <3>3, <3>4, <3>5 DEF SkipsRest
  <2> QED
    BY <1>1, <2>3, <2>4, SkipOn
<1> QED
  BY <1>6, <1>7

\* A token of a group.
LEMMA Group ==
  ASSUME MaxNesting \in Nat, SkipState, TakeGroup
  PROVE  GoalsOK' /\ SkipInv'
<1> USE DEF SkipState
<1>1. Rule = "group" /\ Accepts /\ at' = at + 1 /\ text' = text /\ skip' = skip /\ local' = Track(local, Peek)
      /\ Tracks(local, Peek)
  BY DEF TakeGroup, Reading, TakeToken, Accepts
<1>2. Peek # "end"
  BY <1>1, UsableFacts, TokenKinds DEF Accepts
<1>3. at \in 1 .. Len(text) /\ Peek = text[at] /\ at \in Nat /\ Len(text) \in Nat /\ ~(at > Len(text))
  BY <1>1, <1>2, Taken
<1>5. ASSUME skip.by # "none"
      PROVE  /\ SkipsGroup /\ SkipFirst' = SkipFirst /\ at' > skip'.from /\ skip.from \in Nat
             /\ local' \in Seq(Openers)
             /\ GroupEnd(text, skip.from) = IF local' = <<>> THEN at ELSE GroupFrom(text)[at + 1][local']
  <2>1. SkipsGroup /\ skip.from \in Nat
    BY <1>1, <1>5, SkipRules
  <2>2. local \in Seq(Openers) /\ at > skip.from /\ GroupEnd(text, skip.from) = GroupFrom(text)[at][local]
    BY <2>1 DEF SkipsGroup
  <2>3. local' \in Seq(Openers)
    BY <1>1, <2>2, TrackType
  <2>4. GroupFrom(text)[at][local] = IF local' = <<>> THEN at ELSE GroupFrom(text)[at + 1][local']
    BY <1>1, <1>3, <2>2, GroupChain
  <2>5. SkipFirst' = SkipFirst
    BY <1>1 DEF SkipFirst
  <2> QED
    BY <1>1, <1>3, <2>1, <2>2, <2>3, <2>4, <2>5
<1>6. CASE local' = <<>>
  <2>2. Go(<<>>)
    BY <1>1, <1>6 DEF TakeGroup
  <2>3. GoalsOK' /\ Len(goals') = Len(goals) - 1 /\ Len(goals) > 1 /\ Rule' = goals[2].rule
        /\ \A k \in 1 .. Len(goals') : goals'[k] = goals[k + 1]
    BY <1>1, <2>2, PopNone
  <2>4. ASSUME skip.by # "none" PROVE SkipEnds' \/ SkipsOptional'
    <3>1. Waits(3) /\ SkipFirst \in Openers /\ (SkipFirst = BraceOpen \/ skip.by = "exact")
          /\ goals[2] = IF SkipFirst = BraceOpen THEN Goal("semicolon?") ELSE Expect(Semicolon)
      BY <1>5, <2>4 DEF SkipsGroup
    <3>2. Len(goals) \in Nat /\ Len(goals) > 2 /\ goals[3].rule \in Heads
      BY <3>1, Goals1 DEF Waits
    <3>3. goals'[1] = goals[2] /\ goals'[2] = goals[3] /\ Len(goals') > 1
      <4>1. 1 \in 1 .. Len(goals') /\ 2 \in 1 .. Len(goals') /\ 1 + 1 = 2 /\ 2 + 1 = 3
        BY <2>3, <3>2
      <4> QED
        BY <2>3, <3>2, <4>1
    <3>4. Waits(2)'
      BY <3>2, <3>3 DEF Waits
    <3>5. (GroupEnd(text, skip.from) = at - 1)'
      BY <1>1, <1>3, <1>5, <1>6, <2>4
    <3>6. CASE SkipFirst = BraceOpen
      <4>1. Rule' = "semicolon?"
        BY <2>3, <3>1, <3>6, Literals
      <4> QED
        BY <1>5, <2>4, <3>4, <3>5, <3>6, <4>1 DEF SkipsOptional
    <3>7. CASE SkipFirst # BraceOpen
      <4>1. goals'[1] = Expect(Semicolon) /\ skip'.by = "exact"
        BY <1>1, <3>1, <3>3, <3>7
      <4>2. SkipFirst' \in (Plain \cup Openers) \ {BraceOpen} /\ ExactLast' = at' - 1
        BY <1>5, <2>4, <3>1, <3>5, <3>7 DEF ExactLast
      <4> QED
        BY <1>5, <2>4, <3>4, <4>1, <4>2 DEF SkipEnds
    <3> QED
      BY <3>6, <3>7
  <2> QED
    BY <1>1, <2>3, <2>4, SkipOn
<1>7. CASE local' # <<>>
  <2>1. goals' = goals
    BY <1>1, <1>7 DEF TakeGroup
  <2>2. GoalsOK'
    BY <2>1 DEF GoalsOK
  <2>3. ASSUME skip.by # "none" PROVE SkipsGroup'
    <3>1. (GroupEnd(text, skip.from) = GroupFrom(text)[at][local])'
      BY <1>1, <1>5, <1>7, <2>3
    <3>2. Rule' = Rule /\ Waits(3)' = Waits(3)
      BY <2>1 DEF Rule, Waits
    <3> QED
      BY <1>1, <1>5, <2>1, <2>3, <3>1, <3>2 DEF SkipsGroup
  <2> QED
    BY <1>1, <2>2, <2>3, SkipOn
<1> QED
  BY <1>6, <1>7

\* A token of a line.
LEMMA RestOfLine ==
  ASSUME MaxNesting \in Nat, SkipState, TakeRest
  PROVE  GoalsOK' /\ SkipInv'
<1> USE DEF SkipState
<1>1. Rule = "rest" /\ Accepts /\ at' = at + 1 /\ text' = text /\ skip' = skip /\ local' = Track(local, Peek)
      /\ Tracks(local, Peek)
  BY DEF TakeRest, Reading, TakeToken, Accepts
<1>2. Peek # "end"
  BY <1>1, UsableFacts, TokenKinds DEF Accepts
<1>3. at \in 1 .. Len(text) /\ Peek = text[at] /\ at \in Nat /\ Len(text) \in Nat /\ ~(at > Len(text))
  BY <1>1, <1>2, Taken
<1>5. ASSUME skip.by # "none"
      PROVE  /\ SkipsRest /\ SkipFirst' = SkipFirst /\ at' > skip'.from /\ skip.from \in Nat
             /\ local' \in Seq(Openers)
             /\ LineEnd(text, skip.from) = IF local = <<>> /\ Peek = Semicolon THEN at
                                           ELSE LineFrom(text)[at + 1][local']
  <2>1. SkipsRest /\ skip.from \in Nat
    BY <1>1, <1>5, SkipRules
  <2>2. local \in Seq(Openers) /\ at > skip.from /\ LineEnd(text, skip.from) = LineFrom(text)[at][local]
    BY <2>1 DEF SkipsRest
  <2>3. local' \in Seq(Openers)
    BY <1>1, <2>2, TrackType
  <2>4. LineFrom(text)[at][local] = IF local = <<>> /\ Peek = Semicolon THEN at ELSE LineFrom(text)[at + 1][local']
    BY <1>1, <1>3, <2>2, LineChain
  <2>5. SkipFirst' = SkipFirst
    BY <1>1 DEF SkipFirst
  <2> QED
    BY <1>1, <1>3, <2>1, <2>2, <2>3, <2>4, <2>5
<1>6. CASE local = <<>> /\ Peek = Semicolon
  <2>2. Go(<<>>)
    BY <1>6 DEF TakeRest
  <2>3. GoalsOK' /\ Rule' = goals[2].rule
    BY <1>1, <2>2, PopNone
  <2>4. ASSUME skip.by # "none" PROVE Skipped'
    <3>1. Waits(2) /\ SkipFirst \in (Plain \cup Openers) \ {BraceOpen} /\ skip.by = "line"
      BY <1>5, <2>4 DEF SkipsRest
    <3>2. goals[2].rule \in Heads
      BY <3>1 DEF Waits
    <3>3. LineEnd(text, skip.from) = at
      BY <1>5, <1>6, <2>4
    <3>4. SkipFirst \notin Closers \cup {Semicolon, "end"} /\ SkipFirst # BraceOpen
      BY <3>1, TokenKinds, TokenNames DEF Structural
    <3>5. SkipLine(text, skip.from) = at + 1
      BY <1>3, <3>3, <3>4 DEF SkipLine, SkipFirst
    <3>6. SkipPlace' = at'
      BY <1>1, <3>1, <3>5 DEF SkipPlace
    <3> QED
      BY <1>5, <2>3, <2>4, <3>2, <3>6 DEF Skipped
  <2> QED
    BY <1>1, <2>3, <2>4, SkipOn
<1>7. CASE ~(local = <<>> /\ Peek = Semicolon)
  <2>1. goals' = goals
    BY <1>7 DEF TakeRest
  <2>2. GoalsOK'
    BY <2>1 DEF GoalsOK
  <2>3. ASSUME skip.by # "none" PROVE SkipsRest'
    <3>1. (LineEnd(text, skip.from) = LineFrom(text)[at][local])'
      BY <1>1, <1>5, <1>7, <2>3
    <3>2. Rule' = Rule /\ Waits(2)' = Waits(2)
      BY <2>1 DEF Rule, Waits
    <3> QED
      BY <1>1, <1>5, <2>1, <2>3, <3>1, <3>2 DEF SkipsRest
  <2> QED
    BY <1>1, <2>2, <2>3, SkipOn
<1> QED
  BY <1>6, <1>7

\* The token that ends an entry, or any other that is expected.
LEMMA Expected ==
  ASSUME MaxNesting \in Nat, SkipState, ReadExpected
  PROVE  GoalsOK' /\ SkipInv'
<1> USE DEF SkipState
<1>1. Rule = "expect" /\ Accepts /\ at' = at + 1 /\ text' = text /\ skip' = skip /\ Go(<<>>)
  BY DEF ReadExpected, Reading, TakeToken
<1>2. Peek = Of
  BY <1>1, UsableFacts DEF Accepts
<1>3. GoalsOK' /\ Rule' = goals[2].rule
  BY <1>1, PopNone
<1>4. ASSUME skip.by # "none" PROVE Skipped'
  <2>1. SkipEnds /\ skip.from \in Nat /\ skip.from > 0
    BY <1>1, <1>4, SkipRules
  <2>2. goals[2].rule \in Heads
    BY <2>1 DEF SkipEnds, Waits
  <2>3. Peek = Semicolon
    BY <1>2, <2>1, Goals1, Literals DEF SkipEnds
  <2>4. at > skip.from /\ skip.by = "exact" /\ SkipFirst \in (Plain \cup Openers) \ {BraceOpen} /\ ExactLast = at - 1
    BY <2>1 DEF SkipEnds
  <2>5. SkipFirst \notin Closers \cup {Semicolon, "end"}
    BY <2>4, TokenKinds, TokenNames DEF Structural
  <2>6. at \in Nat /\ TokenAt(text, at) = Semicolon
    BY <2>3, AtFacts DEF Peek
  <2>7. (at - 1) + 1 = at /\ at - 1 # 0 /\ (at - 1) + 2 = at + 1
    BY <2>1, <2>4, <2>6
  <2> DEFINE last == IF TokenAt(text, skip.from) \in Openers THEN GroupEnd(text, skip.from) ELSE skip.from
  <2>9. last = at - 1
    BY <2>4 DEF ExactLast, SkipFirst
  <2>8. SkipExact(text, skip.from) = last + 2
    <3>1. TokenAt(text, last + 1) = Semicolon /\ last # 0
      BY <2>6, <2>7, <2>9
    <3> HIDE DEF last
    <3>2. TokenAt(text, skip.from) \notin Closers \cup {Semicolon, "end"}
      BY <2>5 DEF SkipFirst
    <3> QED
      BY <3>1, <3>2 DEF SkipExact, last
  <2>10. SkipPlace' = at'
    BY <1>1, <2>4, <2>7, <2>8, <2>9 DEF SkipPlace
  <2>11. at' > skip'.from
    BY <1>1, <2>1, <2>4, <2>6
  <2> QED
    BY <1>3, <2>2, <2>10, <2>11 DEF Skipped
<1> QED
  BY <1>1, <1>3, <1>4, SkipOn

\* The semicolon that may be behind a block.
LEMMA Optional ==
  ASSUME MaxNesting \in Nat, SkipState, ReadOptional
  PROVE  GoalsOK' /\ SkipInv'
<1> USE DEF SkipState
<1>1. Rule = "semicolon?" /\ text' = text /\ skip' = skip /\ Go(<<>>) /\ at' = IF Peek = Semicolon THEN at + 1 ELSE at
  BY DEF ReadOptional, Reading, TakeToken, Leave
<1>3. GoalsOK' /\ Rule' = goals[2].rule
  BY <1>1, PopNone
<1>4. ASSUME skip.by # "none" PROVE Skipped'
  <2>1. SkipsOptional /\ skip.from \in Nat /\ skip.from > 0 /\ skip.by \in {"exact", "line"}
    BY <1>1, <1>4, SkipRules
  <2>2. goals[2].rule \in Heads
    BY <2>1 DEF SkipsOptional, Waits
  <2>4. at > skip.from /\ TokenAt(text, skip.from) = BraceOpen /\ GroupEnd(text, skip.from) = at - 1
    BY <2>1 DEF SkipsOptional, SkipFirst
  <2>6. at \in Nat
    BY AtFacts
  <2>7. (at - 1) + 1 = at /\ at - 1 # 0 /\ (at - 1) + 2 = at + 1
    BY <2>1, <2>4, <2>6
  <2>5. BraceOpen \in Openers /\ BraceOpen \notin Closers \cup {Semicolon, "end"}
    BY TokenNames
  <2> DEFINE last == GroupEnd(text, skip.from)
  <2>3. last # 0 /\ last + 1 = at /\ last + 2 = at + 1
    BY <2>4, <2>7
  <2> HIDE DEF last
  <2>8. SkipExact(text, skip.from) = IF TokenAt(text, last + 1) = Semicolon THEN last + 2 ELSE last + 1
    BY <2>3, <2>4, <2>5 DEF SkipExact, last
  <2>9. SkipLine(text, skip.from) = IF TokenAt(text, last + 1) = Semicolon THEN last + 2 ELSE last + 1
    BY <2>3, <2>4, <2>5 DEF SkipLine, last
  <2>10. SkipPlace = IF TokenAt(text, last + 1) = Semicolon THEN last + 2 ELSE last + 1
    BY <2>8, <2>9 DEF SkipPlace
  <2>11. SkipPlace = at'
    BY <1>1, <2>3, <2>10 DEF Peek
  <2>12. SkipPlace' = at'
    BY <1>1, <2>11 DEF SkipPlace
  <2>13. at' > skip'.from
    BY <1>1, <2>1, <2>4, <2>6
  <2> QED
    BY <1>1, <1>3, <2>2, <2>12, <2>13 DEF Skipped
<1> QED
  BY <1>1, <1>3, <1>4, SkipOn

\* Where nothing is skipped any more.
LEMMA NoneSkipped ==
  ASSUME GoalsOK, SkipInv, Rule \notin {"exact", "line", "expect", "group", "semicolon?", "rest"} \cup Heads
  PROVE  skip.by = "none"
BY SkipRules

\* Nothing is said of no entry.
LEMMA SkipNone == ASSUME skip'.by = "none" PROVE SkipInv'
BY DEF SkipInv

\* Nothing is skipped by NoSkip.
LEMMA NoSkipFacts == NoSkip.by = "none"
BY DEF NoSkip

\* One goal, or three of them, before those there are.
LEMMA PushOne ==
  ASSUME GoalsOK, NEW a, GoalOK(a), Go(<<a>> \o <<Head(goals)>>)
  PROVE  GoalsOK' /\ Len(goals') = Len(goals) + 1 /\ Len(goals) \in Nat /\ Len(goals) > 0
         /\ Rule' = a.rule /\ goals'[2] = goals[1]
<1> DEFINE then == <<a>>
<1>1. GoalsFor(then) /\ Len(then) = 1 /\ then[1] = a /\ Go(then \o <<Head(goals)>>)
  <2>1. IsSeq(<<a>>) /\ Len(<<a>>) = 1 /\ <<a>>[1] = a
    BY Tuples
  <2> QED
    BY <2>1 DEF GoalsFor
<1> HIDE DEF then
<1>2. /\ GoalsOK' /\ Len(goals') = Len(then) + Len(goals)
      /\ \A k \in 1 .. Len(then) : goals'[k] = then[k]
      /\ \A k \in 1 .. Len(goals) : goals'[Len(then) + k] = goals[k]
  BY <1>1, Push
<1>3. Len(goals) \in Nat /\ Len(goals) > 0
  BY DEF GoalsOK
<1>4. goals'[1 + 1] = goals[1] /\ goals'[1] = a /\ Len(goals') = Len(goals) + 1
  BY <1>1, <1>2, <1>3
<1>5. Rule' = goals'[1].rule
  BY <1>2, TailFacts DEF GoalsOK, Rule
<1> QED
  BY <1>2, <1>3, <1>4, <1>5

\* Any goals before those there are.
LEMMA PushMore ==
  ASSUME GoalsOK, NEW then, GoalsFor(then), Go(then \o <<Head(goals)>>)
  PROVE  GoalsOK'
BY Push

\* A sequence of two goals.
LEMMA ForTwo ==
  ASSUME NEW a, NEW b, GoalOK(a), GoalOK(b)
  PROVE  GoalsFor(<<a, b>>)
<1> DEFINE then == <<a, b>>
<1>1. IsSeq(then) /\ Len(then) = 2 /\ then[1] = a /\ then[2] = b
  BY Tuples
<1> HIDE DEF then
<1>2. GoalsFor(then)
  BY <1>1 DEF GoalsFor
<1> QED
  BY <1>2 DEF then

\* A sequence of one goal.
LEMMA ForOne == ASSUME NEW a, GoalOK(a) PROVE GoalsFor(<<a>>)
<1> DEFINE then == <<a>>
<1>1. IsSeq(then) /\ Len(then) = 1 /\ then[1] = a
  BY Tuples
<1> HIDE DEF then
<1>2. GoalsFor(then)
  BY <1>1 DEF GoalsFor
<1> QED
  BY <1>2 DEF then

\* A sequence of three goals.
LEMMA ForThree ==
  ASSUME NEW a, NEW b, NEW c, GoalOK(a), GoalOK(b), GoalOK(c)
  PROVE  GoalsFor(<<a, b, c>>)
<1> DEFINE then == <<a, b, c>>
<1>1. IsSeq(then) /\ Len(then) = 3 /\ then[1] = a /\ then[2] = b /\ then[3] = c
  BY Tuples
<1> HIDE DEF then
<1>2. GoalsFor(then)
  BY <1>1 DEF GoalsFor
<1> QED
  BY <1>2 DEF then

\* An entry that is not known is about to be skipped.
LEMMA UnknownStep ==
  ASSUME SkipState, Accepts, Peek # "end", Rule \in Heads, NEW by \in {"exact", "line"}, Unknown(by)
  PROVE  GoalsOK' /\ SkipInv'
<1> USE DEF SkipState
<1>1. Go(<<Goal(by)>> \o <<Head(goals)>>) /\ skip' = [by |-> by, from |-> at + 1] /\ at' = at + 1
  BY DEF Unknown, TakeToken
<1>2. GoalOK(Goal(by)) /\ Goal(by).rule = by
  BY Literals
<1>3. PICK a : a = Goal(by)
  OBVIOUS
<1>4. GoalOK(a) /\ a.rule = by /\ Go(<<a>> \o <<Head(goals)>>)
  BY <1>1, <1>2, <1>3
<1>5. GoalsOK' /\ Len(goals') = Len(goals) + 1 /\ Len(goals) \in Nat /\ Len(goals) > 0
      /\ Rule' = by /\ goals'[2] = goals[1]
  BY <1>4, PushOne
<1>6. Waits(2)'
  BY <1>5, Goals1 DEF Waits
<1>7. at \in Nat
  BY AtFacts
<1>8. skip'.by = by /\ skip'.from = at + 1
  BY <1>1
<1>9. SkipStarts'
  BY <1>1, <1>5, <1>6, <1>8 DEF SkipStarts
<1>10. SkipInv'
  BY <1>7, <1>8, <1>9 DEF SkipInv
<1> QED
  BY <1>5, <1>10

\* The key of an entry that is read.
LEMMA EntryStep ==
  ASSUME SkipState, NEW then, GoalsFor(then), Entry(then)
  PROVE  GoalsOK' /\ SkipInv'
<1>1. Go(then \o <<Head(goals)>>) /\ skip' = NoSkip
  BY DEF Entry
<1>2. GoalsOK'
  BY <1>1, PushMore DEF SkipState
<1> QED
  BY <1>1, <1>2, NoSkipFacts, SkipNone

\* The end of a loop over entries.
LEMMA EndLoopStep ==
  ASSUME SkipState, Rule # "file", NEW then, EndLoop(then)
  PROVE  GoalsOK' /\ SkipInv'
<1>1. Go(<<>>) /\ skip' = NoSkip
  BY DEF EndLoop
<1>2. GoalsOK'
  BY <1>1, PopNone DEF SkipState
<1> QED
  BY <1>1, <1>2, NoSkipFacts, SkipNone

\* The goals of a block.
LEMMA BlockGoals ==
  ASSUME NEW rule, rule \notin {"expect", "opener"}
  PROVE  GoalsFor(<<Expect(BraceOpen), Goal(rule), Expect(BraceClose)>>)
<1>1. GoalOK(Goal(rule)) /\ GoalOK(Expect(BraceOpen)) /\ GoalOK(Expect(BraceClose))
  BY Literals, TokenNames DEF Structural
<1> QED
  BY <1>1, ForThree

\* The goals of a word.
LEMMA ScalarGoals ==
  ASSUME NEW slot
  PROVE  GoalsFor(<<GoalOf("scalar", slot), Expect(Semicolon)>>)
<1>1. GoalOK(GoalOf("scalar", slot)) /\ GoalOK(Expect(Semicolon))
  BY Literals DEF Structural
<1> QED
  BY <1>1, ForTwo

\* The goal of a value.
LEMMA ValueGoals ==
  ASSUME NEW slot
  PROVE  GoalsFor(<<GoalOf("value", slot)>>)
<1>1. GoalOK(GoalOf("value", slot))
  BY Literals
<1> QED
  BY <1>1, ForOne

\* A fourth element.
LEMMA ConcatThree == ASSUME NEW a, NEW b, NEW c, NEW d PROVE <<a, b, c>> \o <<d>> = <<a, b, c, d>>
<1>1. <<a, b, c>> \in Seq({a, b, c, d}) /\ <<d>> \in Seq({a, b, c, d}) /\ <<a, b, c, d>> \in Seq({a, b, c, d})
  OBVIOUS
<1>2. <<a, b, c>> \o <<d>> \in Seq({a, b, c, d}) /\ Len(<<a, b, c>> \o <<d>>) = 4
  OBVIOUS
<1>3. \A i \in 1 .. 4 : (<<a, b, c>> \o <<d>>)[i] = <<a, b, c, d>>[i]
  OBVIOUS
<1> QED
  BY <1>1, <1>2, <1>3, SeqEqual

\* The loop over the entries of the file.
LEMMA FileStep ==
  ASSUME MaxNesting \in Nat, SkipState, ReadFile
  PROVE  Lexed' /\ GoalsOK' /\ SkipInv' /\ mode' \in {"reading", "done"}
<1> USE DEF SkipState
<1>0. Rule = "file" /\ Accepts /\ mode = "reading" /\ Rule \in Heads
  BY DEF ReadFile, Reading, Heads
<1>1. CASE Peek = "end" /\ mode' = "done" /\ UNCHANGED <<text, full, at, open, local, goals, found, patches, skip>>
  <2>1. Lexed' /\ GoalsOK'
    BY <1>1 DEF Lexed, GoalsOK
  <2>2. SkipInv'
    BY <1>1 DEF SkipInv, SkipStarts, SkipEnds, SkipsGroup, SkipsOptional, SkipsRest, Skipped,
                Waits, Rule, SkipFirst, ExactLast, SkipPlace
  <2> QED
    BY <1>1, <2>1, <2>2
<1>2. CASE Peek # "end" /\ TakeToken /\ GoalsOK' /\ SkipInv'
  <2>1. Lexed'
    BY <1>0, <1>2, LexedStep
  <2>2. mode' = mode
    BY <1>2 DEF TakeToken
  <2> QED
    BY <1>0, <1>2, <2>1, <2>2
<1>3. CASE Peek = "FoamFile" /\ Entry(<<Expect(BraceOpen), Goal("header"), Expect(BraceClose)>>)
  BY <1>2, <1>3, BlockGoals, EntryStep DEF Entry
<1>4. CASE Peek = "dimensions" /\ Entry(<<Expect(BracketOpen), GoalOf("exponents", 0)>>)
  <2>1. GoalOK(Expect(BracketOpen)) /\ GoalOK(GoalOf("exponents", 0))
    BY Literals, TokenNames DEF Structural
  <2>2. GoalsFor(<<Expect(BracketOpen), GoalOf("exponents", 0)>>)
    BY <2>1, ForTwo
  <2> QED
    BY <1>2, <1>4, <2>2, EntryStep DEF Entry
<1>5. CASE Peek = "internalField" /\ Entry(<<GoalOf("value", "internal")>>)
  BY <1>2, <1>5, ValueGoals, EntryStep DEF Entry
<1>6. CASE /\ Peek = "boundaryField"
           /\ TakeToken
           /\ Go(<<Expect(BraceOpen), Goal("boundary"), Expect(BraceClose), Head(goals)>>)
           /\ skip' = NoSkip
  <2> DEFINE then == <<Expect(BraceOpen), Goal("boundary"), Expect(BraceClose)>>
  <2>1. GoalsFor(then)
    BY BlockGoals
  <2>2. then \o <<Head(goals)>> = <<Expect(BraceOpen), Goal("boundary"), Expect(BraceClose), Head(goals)>>
    BY ConcatThree
  <2>3. Go(then \o <<Head(goals)>>)
    BY <1>6, <2>2
  <2> HIDE DEF then
  <2>4. GoalsOK'
    BY <2>1, <2>3, PushMore
  <2>5. SkipInv'
    BY <1>6, NoSkipFacts, SkipNone
  <2> QED
    BY <1>2, <1>6, <2>4, <2>5
<1>7. CASE Peek \in Plain /\ Unknown("exact")
  <2>1. Peek # "end"
    BY <1>7, TokenKinds
  <2> QED
    BY <1>0, <1>2, <1>7, <2>1, UnknownStep DEF Unknown
<1> QED
  BY <1>1, <1>3, <1>4, <1>5, <1>6, <1>7 DEF ReadFile

\* The loops over the entries of a block.
LEMMA LoopStep ==
  ASSUME MaxNesting \in Nat, SkipState, ReadHeader \/ ReadBoundary \/ ReadPatch
  PROVE  Lexed' /\ GoalsOK' /\ SkipInv' /\ mode' \in {"reading", "done"}
<1> USE DEF SkipState
<1>0. Rule \in {"header", "boundary", "patch"} /\ Accepts /\ mode = "reading" /\ Rule # "file"
  BY DEF ReadHeader, ReadBoundary, ReadPatch, Reading
<1>1. Peek # "end"
  BY <1>0, UsableFacts, TokenKinds, TokenNames DEF Accepts
<1>2. ASSUME TakeToken, GoalsOK', SkipInv' PROVE Lexed' /\ GoalsOK' /\ SkipInv' /\ mode' \in {"reading", "done"}
  BY <1>0, <1>1, <1>2, LexedStep DEF TakeToken
<1>3. ASSUME NEW then, EndLoop(then) PROVE Lexed' /\ GoalsOK' /\ SkipInv' /\ mode' \in {"reading", "done"}
  <2>1. GoalsOK' /\ SkipInv'
    BY <1>0, <1>3, EndLoopStep
  <2>2. UNCHANGED <<text, full, mode, at, open>>
    BY <1>3 DEF EndLoop, Leave
  <2>3. Lexed'
    BY <2>2 DEF Lexed
  <2> QED
    BY <1>0, <2>1, <2>2, <2>3
<1>4. ASSUME NEW then, GoalsFor(then), Entry(then) PROVE Lexed' /\ GoalsOK' /\ SkipInv' /\ mode' \in {"reading", "done"}
  BY <1>2, <1>4, EntryStep DEF Entry
<1>5. ASSUME NEW by \in {"exact", "line"}, Unknown(by), Rule \in Heads
      PROVE Lexed' /\ GoalsOK' /\ SkipInv' /\ mode' \in {"reading", "done"}
  BY <1>0, <1>1, <1>2, <1>5, UnknownStep DEF Unknown
<1>6. CASE ReadHeader
  <2>1. Rule \in Heads
    BY <1>6 DEF ReadHeader, Reading, Heads
  <2>2. \/ EndLoop(patches)
        \/ Entry(<<GoalOf("scalar", Peek), Expect(Semicolon)>>)
        \/ Unknown("exact")
    BY <1>6 DEF ReadHeader
  <2> QED
    BY <1>3, <1>4, <1>5, <2>1, <2>2, ScalarGoals
<1>7. CASE ReadBoundary
  <2>1. \/ EndLoop(patches)
        \/ Entry(<<Expect(BraceOpen), Goal("patch"), Expect(BraceClose)>>)
    BY <1>7 DEF ReadBoundary
  <2> QED
    BY <1>3, <1>4, <2>1, BlockGoals
<1>8. CASE ReadPatch
  <2>1. Rule \in Heads
    BY <1>8 DEF ReadPatch, Reading, Heads
  <2>2. \/ EndLoop(Append(patches, [s \in PatchSlots |-> found[s]]))
        \/ Entry(<<GoalOf("scalar", "type"), Expect(Semicolon)>>)
        \/ Entry(<<GoalOf("value", "value")>>)
        \/ Entry(<<GoalOf("value", "inlet")>>)
        \/ Unknown("line")
    BY <1>8 DEF ReadPatch
  <2> QED
    BY <1>3, <1>4, <1>5, <2>1, <2>2, ScalarGoals, ValueGoals
<1> QED
  BY <1>6, <1>7, <1>8

\* A list has as many goals as places.
LEMMA ItemsFacts ==
  ASSUME NEW count \in Nat, NEW components, NEW number, GoalOK(number)
  PROVE  GoalsFor(Items(count, components, number))
<1>1. CASE components = 1
  <2> DEFINE s == [i \in 1 .. count |-> number]
  <2>1. s \in Seq({number}) /\ Len(s) = count
    OBVIOUS
  <2>2. \A k \in 1 .. Len(s) : s[k] = number
    BY <2>1
  <2> HIDE DEF s
  <2>3. GoalsFor(s)
    BY <2>1, <2>2, SeqIs DEF GoalsFor
  <2> QED
    BY <1>1, <2>3 DEF Items, s
<1>2. CASE components # 1
  <2> DEFINE goal(i) == CASE i % 5 = 1 -> Expect(ParenOpen) [] i % 5 = 0 -> Expect(ParenClose) [] OTHER -> number
             s == [i \in 1 .. 5 * count |-> goal(i)]
             G == {Expect(ParenOpen), Expect(ParenClose), number}
  <2>1. \A i \in 1 .. 5 * count : goal(i) \in G
    OBVIOUS
  <2>2. \A g \in G : GoalOK(g)
    <3>1. GoalOK(Expect(ParenOpen)) /\ GoalOK(Expect(ParenClose))
      BY Literals, TokenNames DEF Structural
    <3> QED
      BY <3>1
  <2> HIDE DEF goal, G
  <2>3. 5 * count \in Nat
    OBVIOUS
  <2>4. s \in Seq(G) /\ Len(s) = 5 * count
    BY <2>1, <2>3
  <2>5. \A k \in 1 .. Len(s) : s[k] \in G
    BY <2>4
  <2> HIDE DEF s
  <2>6. GoalsFor(s)
    BY <2>2, <2>4, <2>5, SeqIs DEF GoalsFor
  <2> QED
    BY <1>2, <2>6 DEF Items, s, goal
<1> QED
  BY <1>1, <1>2

\* Goals with others behind them.
LEMMA ForBoth ==
  ASSUME NEW s, NEW t, GoalsFor(s), GoalsFor(t)
  PROVE  GoalsFor(s \o t)
<1>1. PICK r : r = s \o t
  OBVIOUS
<1>2. Joined(r, s, t)
  BY <1>1, ConcatFacts DEF GoalsFor
<1>3. /\ Len(s) \in Nat /\ Len(t) \in Nat /\ Len(r) = Len(s) + Len(t) /\ IsSeq(r)
      /\ \A k \in 1 .. Len(s) : r[k] = s[k]
      /\ \A k \in 1 .. Len(t) : r[Len(s) + k] = t[k]
  BY <1>2 DEF Joined
<1>4. ASSUME NEW k \in 1 .. Len(r) PROVE GoalOK(r[k])
  <2>1. CASE k <= Len(s)
    BY <1>3, <2>1 DEF GoalsFor
  <2>2. CASE k > Len(s)
    <3>1. k - Len(s) \in 1 .. Len(t) /\ Len(s) + (k - Len(s)) = k
      BY <1>3, <2>2
    <3>2. r[Len(s) + (k - Len(s))] = t[k - Len(s)]
      BY <1>3, <3>1
    <3> QED
      BY <3>1, <3>2 DEF GoalsFor
  <2> QED
    BY <1>3, <2>1, <2>2
<1> QED
  BY <1>1, <1>3, <1>4 DEF GoalsFor

\* What a value, a list or exponents put in the place of their goal.
LEMMA ReplacedBy ==
  ASSUME SkipState, Rule # "file", NEW then, GoalsFor(then), Go(then)
  PROVE  GoalsOK'
BY NotLast, Pop DEF SkipState

\* The entries that are read.
ReadsEntry == \/ ReadScalar \/ ReadExponent \/ ReadValue \/ ReadUniform
              \/ ReadList \/ ReadCount \/ ReadOpener \/ ReadNumber

\* The actions that read an entry keep the invariant.
LEMMA EntryOn ==
  ASSUME MaxNesting \in Nat, SkipState, ReadsEntry
  PROVE  Lexed' /\ GoalsOK' /\ SkipInv' /\ mode' = "reading"
<1> USE DEF SkipState
<1>0. /\ Rule \in {"scalar", "exponents", "value", "uniform", "list", "count", "opener", "number"}
      /\ Accepts /\ mode = "reading" /\ TakeToken /\ skip' = skip
  BY DEF ReadsEntry, ReadScalar, ReadExponent, ReadValue, ReadUniform, ReadList, ReadCount, ReadOpener,
         ReadNumber, Reading
<1>1. Peek # "end"
  <2>1. Peek \in Usable
    BY <1>0 DEF Accepts
  <2>2. Usable \subseteq Tokens
    <3>1. BracketClose \in Tokens /\ ParenOpen \in Tokens
      BY TokenKinds, TokenNames
    <3> QED
      BY <1>0, <3>1, UsableFacts, TokenKinds
  <2> QED
    BY <2>1, <2>2, TokenKinds
<1>2. Lexed' /\ mode' = "reading"
  BY <1>0, <1>1, LexedStep DEF TakeToken
<1>3. skip.by = "none" /\ Rule # "file"
  BY <1>0, NoneSkipped DEF Heads
<1>4. SkipInv'
  BY <1>0, <1>3, SkipNone
<1>5. GoalsFor(<<>>)
  BY Tuples DEF GoalsFor
<1>6. GoalOK(Expect(Semicolon)) /\ GoalOK(Expect(ParenClose))
  BY Literals, TokenNames DEF Structural
<1>7. ASSUME NEW then, GoalsFor(then), Go(then) PROVE GoalsOK'
  BY <1>3, <1>7, ReplacedBy
<1>8. ASSUME ReadScalar \/ ReadNumber PROVE GoalsOK'
  <2>1. Go(<<>>)
    BY <1>8 DEF ReadScalar, ReadNumber
  <2> QED
    BY <1>5, <1>7, <2>1
<1>9. ASSUME ReadExponent PROVE GoalsOK'
  <2>1. GoalsFor(<<GoalOf("exponents", Of + 1)>>) /\ GoalsFor(<<Expect(Semicolon)>>)
    BY <1>6, Literals, ForOne
  <2>2. Go(<<GoalOf("exponents", Of + 1)>>) \/ Go(<<Expect(Semicolon)>>)
    BY <1>9 DEF ReadExponent
  <2> QED
    BY <1>7, <2>1, <2>2
<1>10. ASSUME ReadValue PROVE GoalsOK'
  <2>1. GoalsFor(<<Goal("uniform"), Expect(Semicolon)>>)
    BY <1>6, Literals, ForTwo
  <2>2. GoalsFor(<<GoalOf("list", Of)>>) /\ GoalsFor(<<Goal("rest")>>)
    BY Literals, ForOne
  <2>3. Go(<<Goal("uniform"), Expect(Semicolon)>>) \/ Go(<<GoalOf("list", Of)>>) \/ Go(<<Goal("rest")>>)
    BY <1>10 DEF ReadValue
  <2> QED
    BY <1>7, <2>1, <2>2, <2>3
<1>11. ASSUME ReadUniform PROVE GoalsOK'
  <2>1. GoalsFor(<<Goal("group")>>)
    BY Literals, ForOne
  <2>2. Go(<<>>) \/ Go(<<Goal("group")>>)
    BY <1>11 DEF ReadUniform
  <2> QED
    BY <1>5, <1>7, <2>1, <2>2
<1>12. ASSUME ReadList PROVE GoalsOK'
  <2>1. \A o : GoalsFor(<<GoalOf("count", o)>>)
    BY Literals, ForOne
  <2>2. \E o : Go(<<GoalOf("count", o)>>)
    BY <1>12 DEF ReadList
  <2> QED
    BY <1>7, <2>1, <2>2
<1>13. ASSUME ReadCount PROVE GoalsOK'
  <2>1. Rule = "count" /\ Peek \in DOMAIN Counts
    BY <1>0, <1>13, UsableFacts DEF ReadCount, Reading, Accepts
  <2>2. \A t \in DOMAIN Counts : Counts[t] \in Nat
    BY DEF Counts
  <2>3. PICK g : g = GoalOf("opener", [slot |-> Of.slot, components |-> Of.components, count |-> Counts[Peek]])
    OBVIOUS
  <2>4. g.rule = "opener" /\ g.of.count = Counts[Peek]
    BY <2>3 DEF GoalOf
  <2>5. GoalOK(g)
    BY <2>1, <2>2, <2>4 DEF GoalOK
  <2>6. GoalsFor(<<g>>)
    BY <2>5, ForOne
  <2>7. Go(<<g>>)
    BY <1>13, <2>3 DEF ReadCount
  <2> QED
    BY <1>7, <2>6, <2>7
<1>14. ASSUME ReadOpener PROVE GoalsOK'
  <2>1. Of.count \in Nat
    <3>1. Rule = "opener"
      BY <1>14 DEF ReadOpener, Reading
    <3> QED
      BY <3>1, Goals1 DEF GoalOK
  <2>2. GoalOK(GoalOf("number", Of.slot))
    BY Literals
  <2>3. GoalsFor(Items(Of.count, Of.components, GoalOf("number", Of.slot)))
    BY <2>1, <2>2, ItemsFacts
  <2>4. GoalsFor(<<Expect(ParenClose), Expect(Semicolon)>>)
    BY <1>6, ForTwo
  <2>5. GoalsFor(Items(Of.count, Of.components, GoalOf("number", Of.slot)) \o <<Expect(ParenClose), Expect(Semicolon)>>)
    BY <2>3, <2>4, ForBoth
  <2>6. Go(Items(Of.count, Of.components, GoalOf("number", Of.slot)) \o <<Expect(ParenClose), Expect(Semicolon)>>)
    BY <1>14 DEF ReadOpener
  <2> QED
    BY <1>7, <2>5, <2>6
<1> QED
  BY <1>2, <1>4, <1>8, <1>9, <1>10, <1>11, <1>12, <1>13, <1>14 DEF ReadsEntry

\* The entries that are skipped, and the tokens that are expected.
SkipsEntry == SkipFirstOfExact \/ SkipFirstOfLine \/ TakeGroup \/ TakeRest \/ ReadExpected \/ ReadOptional

\* The actions that skip an entry, or expect a token, keep the invariant.
LEMMA SkipStep ==
  ASSUME MaxNesting \in Nat, SkipState, SkipsEntry
  PROVE  Lexed' /\ GoalsOK' /\ SkipInv' /\ mode' = "reading"
<1> USE DEF SkipState
<1>1. GoalsOK' /\ SkipInv'
  BY FirstOfExact, FirstOfLine, Group, RestOfLine, Expected, Optional DEF SkipsEntry
<1>2. /\ Rule \in {"exact", "line", "group", "rest", "expect", "semicolon?"} /\ Accepts /\ mode = "reading"
      /\ TakeToken \/ Leave
      /\ Rule # "semicolon?" => TakeToken
      /\ Rule = "semicolon?" => (Peek = Semicolon /\ TakeToken) \/ Leave
  BY DEF SkipsEntry, SkipFirstOfExact, SkipFirstOfLine, TakeGroup, TakeRest, ReadExpected, ReadOptional, Reading
<1>3. CASE Leave
  BY <1>1, <1>2, <1>3 DEF Leave, Lexed
<1>4. CASE TakeToken /\ Peek # "end"
  BY <1>1, <1>2, <1>4, LexedStep DEF TakeToken
<1>5. CASE Rule # "semicolon?"
  <2>1. Peek \in Usable
    BY <1>2 DEF Accepts
  <2>2. Rule = "expect" => Of \in Structural
    BY Goals1 DEF GoalOK
  <2>3. Usable \subseteq Tokens
    BY <1>2, <1>5, <2>2, UsableFacts, TokenKinds
  <2>4. Peek # "end"
    BY <2>1, <2>3, TokenKinds
  <2> QED
    BY <1>2, <1>4, <1>5, <2>4
<1> QED
  BY <1>2, <1>3, <1>4, <1>5, TokenNames

\* The inductive invariant of SkipsAgree.
ReaderOK == /\ SkipState
            /\ mode \in {"none", "reading", "done", "refused"}
            /\ mode = "refused" => ~Accepts

\* An error keeps the invariant: the reader stays where it is.
LEMMA RefuseStep ==
  ASSUME ReaderOK, Refuse
  PROVE  ReaderOK'
<1>1. mode' = "refused" /\ ~Accepts /\ UNCHANGED <<text, full, at, open, local, goals, found, patches, skip>>
  BY DEF Refuse
<1>2. Lexed' /\ GoalsOK'
  BY <1>1 DEF ReaderOK, SkipState, Lexed, GoalsOK
<1>3. SkipInv'
  BY <1>1 DEF ReaderOK, SkipState, SkipInv, SkipStarts, SkipEnds, SkipsGroup, SkipsOptional, SkipsRest, Skipped,
              Waits, Rule, SkipFirst, ExactLast, SkipPlace
<1>4. Accepts' = Accepts
  BY <1>1 DEF Accepts, Peek, Usable, Rule, Of, ListFits
<1> QED
  BY <1>1, <1>2, <1>3, <1>4 DEF ReaderOK, SkipState

\* Every action of the reader keeps the invariant.
LEMMA ReadStep ==
  ASSUME MaxNesting \in Nat, ReaderOK, Read
  PROVE  ReaderOK'
<1>1. SkipState
  BY DEF ReaderOK
<1>2. ASSUME Lexed', GoalsOK', SkipInv', mode' \in {"reading", "done"} PROVE ReaderOK'
  BY <1>2 DEF ReaderOK, SkipState
<1>3. CASE ReadFile
  BY <1>1, <1>2, <1>3, FileStep
<1>4. CASE ReadHeader \/ ReadBoundary \/ ReadPatch
  BY <1>1, <1>2, <1>4, LoopStep
<1>5. CASE ReadsEntry
  BY <1>1, <1>2, <1>5, EntryOn
<1>6. CASE SkipsEntry
  BY <1>1, <1>2, <1>6, SkipStep
<1>7. CASE Refuse
  BY <1>7, RefuseStep
<1> QED
  BY <1>3, <1>4, <1>5, <1>6, <1>7 DEF Read, ReadsEntry, SkipsEntry

\* The reader at the begin of a file, and without one.
LEMMA ReadyOK ==
  ASSUME MaxNesting \in Nat, NEW file \in Seq(Tokens), NEW keep \in BOOLEAN, NEW m \in {"none", "reading"},
         Ready(file, keep, m)
  PROVE  ReaderOK
<1>1. text = file /\ full = keep /\ mode = m /\ at = 1 /\ open = <<>> /\ goals = <<Goal("file")>> /\ skip = NoSkip
  BY DEF Ready
<1>2. Nest(text, at, open)
  BY <1>1, NestBegins
<1>3. at \in 1 .. Len(text) + 1
  BY <1>1
<1>4. Lexed
  BY <1>1, <1>2, <1>3 DEF Lexed
<1>5. GoalsOK
  <2>1. PICK g : g = <<Goal("file")>>
    OBVIOUS
  <2>2. IsSeq(g) /\ Len(g) = 1 /\ g[1] = Goal("file")
    BY <2>1, Tuples
  <2>3. GoalOK(Goal("file"))
    BY Literals
  <2> QED
    BY <1>1, <2>1, <2>2, <2>3 DEF GoalsOK
<1>6. SkipInv
  BY <1>1 DEF SkipInv, NoSkip
<1> QED
  BY <1>1, <1>4, <1>5, <1>6 DEF ReaderOK, SkipState

\* The invariant holds when a reading is closed.
LEMMA CloseOK ==
  ASSUME MaxNesting \in Nat, Close
  PROVE  ReaderOK'
<1>1. /\ text' = <<>> /\ full' = FALSE /\ mode' = "none" /\ at' = 1 /\ open' = <<>>
      /\ goals' = <<Goal("file")>> /\ skip' = NoSkip
  BY DEF Close
<1>2. Nest(text', at', open')
  BY <1>1, NestBegins
<1>3. at' \in 1 .. Len(text') + 1 /\ text' \in Seq(Tokens)
  BY <1>1
<1>4. Lexed'
  BY <1>1, <1>2, <1>3 DEF Lexed
<1>5. GoalsOK'
  <2>1. PICK g : g = <<Goal("file")>>
    OBVIOUS
  <2>2. IsSeq(g) /\ Len(g) = 1 /\ g[1] = Goal("file")
    BY <2>1, Tuples
  <2>3. GoalOK(Goal("file"))
    BY Literals
  <2> QED
    BY <1>1, <2>1, <2>2, <2>3 DEF GoalsOK
<1>6. SkipInv'
  BY <1>1, NoSkipFacts, SkipNone
<1> QED
  BY <1>1, <1>4, <1>5, <1>6 DEF ReaderOK, SkipState

\* The invariant stays if the reader does nothing.
LEMMA OKUnchanged ==
  ASSUME ReaderOK, UNCHANGED reader
  PROVE  ReaderOK'
<1>1. UNCHANGED <<text, full, mode, at, open, local, goals, found, patches, skip>>
  BY DEF reader
<1>2. Lexed' /\ GoalsOK'
  BY <1>1 DEF ReaderOK, SkipState, Lexed, GoalsOK
<1>3. SkipInv'
  BY <1>1 DEF ReaderOK, SkipState, SkipInv, SkipStarts, SkipEnds, SkipsGroup, SkipsOptional, SkipsRest, Skipped,
              Waits, Rule, SkipFirst, ExactLast, SkipPlace
<1>4. Accepts' = Accepts
  BY <1>1 DEF Accepts, Peek, Usable, Rule, Of, ListFits
<1> QED
  BY <1>1, <1>2, <1>3, <1>4 DEF ReaderOK, SkipState

\* A place that is 0 is an error of the cursor.
LEMMA ExactFails ==
  ASSUME SkipFirst \in Closers \cup {Semicolon, "end"} \/ ExactLast = 0
         \/ (SkipFirst # BraceOpen /\ TokenAt(text, ExactLast + 1) # Semicolon)
  PROVE  SkipExact(text, skip.from) = 0
<1> DEFINE last == IF TokenAt(text, skip.from) \in Openers THEN GroupEnd(text, skip.from) ELSE skip.from
<1>1. last = ExactLast /\ SkipFirst = TokenAt(text, skip.from)
  BY DEF ExactLast, SkipFirst
<1>2. SkipExact(text, skip.from) =
        IF \/ TokenAt(text, skip.from) \in Closers \cup {Semicolon, "end"}
           \/ last = 0
           \/ TokenAt(text, skip.from) # BraceOpen /\ ~(TokenAt(text, last + 1) = Semicolon)
        THEN 0 ELSE IF TokenAt(text, last + 1) = Semicolon THEN last + 2 ELSE last + 1
  BY Zenon DEF SkipExact
<1> HIDE DEF last
<1> QED
  BY <1>1, <1>2

\* The same of a line.
LEMMA LineFails ==
  ASSUME SkipFirst \in Closers \cup {Semicolon, "end"}
         \/ (SkipFirst = BraceOpen /\ GroupEnd(text, skip.from) = 0)
         \/ (SkipFirst # BraceOpen /\ LineEnd(text, skip.from) = 0)
  PROVE  SkipLine(text, skip.from) = 0
BY DEF SkipLine, SkipFirst

\* What is at hand in a file that is whole.
LEMMA WholePeek ==
  ASSUME MaxNesting \in Nat, Lexed, Whole(text)
  PROVE  /\ Lexes(open, Peek)
         /\ Peek \in Plain \cup Openers \/ Peek \in Closers \cup {Semicolon, "end"}
         /\ Peek = IF at > Len(text) THEN "end" ELSE text[at]
         /\ Peek \in Tokens \cup {"end"}
         /\ Peek = "end" => at > Len(text)
<1>1. text \in Seq(Tokens) /\ at \in 1 .. Len(text) + 1 /\ Len(text) \in Nat /\ Nest(text, at, open)
  BY DEF Lexed
<1>2. Lexes(open, Peek)
  BY <1>1, WholeLexes DEF Peek
<1>3. Peek = IF at > Len(text) THEN "end" ELSE text[at]
  BY <1>1 DEF Peek, TokenAt
<1>4. Peek \in Tokens \cup {"end"}
  BY <1>1, <1>3
<1>5. Peek # "fault"
  BY <1>2 DEF Lexes
<1>6. Peek \in Plain \cup Openers \/ Peek \in Closers \cup {Semicolon, "end"}
  BY <1>4, <1>5, TokenKinds DEF Structural
<1>7. ASSUME Peek = "end", ~(at > Len(text)) PROVE FALSE
  <2>1. text[at] = "end" /\ text[at] \in Tokens
    BY <1>1, <1>3, <1>7
  <2> QED
    BY <2>1, TokenKinds
<1> QED
  BY <1>2, <1>3, <1>4, <1>6, <1>7

\* An entry that the reader cannot skip is an error of the cursor.
LEMMA RefusedFails ==
  ASSUME MaxNesting \in Nat, SkipState, Whole(text), ~Accepts, skip.by # "none", Rule \notin Heads
  PROVE  SkipPlace = 0
<1> USE DEF SkipState
<1>1. /\ skip.by \in {"exact", "line"} /\ skip.from \in Nat /\ skip.from > 0
      /\ Rule \in {"exact", "line", "expect", "group", "semicolon?", "rest"}
  BY SkipRules
<1>2. /\ Lexes(open, Peek)
      /\ Peek \in Plain \cup Openers \/ Peek \in Closers \cup {Semicolon, "end"}
      /\ Peek = IF at > Len(text) THEN "end" ELSE text[at]
      /\ Peek \in Tokens \cup {"end"}
      /\ Peek = "end" => at > Len(text)
  BY WholePeek
<1>3. Peek \notin Usable \/ (Rule \in {"group", "rest"} /\ ~Tracks(local, Peek))
  BY <1>2 DEF Accepts
<1>4. at \in Nat /\ Len(text) \in Nat
  BY AtFacts
<1>5. CASE Rule \in {"exact", "line"}
  <2>1. SkipStarts
    BY <1>5, SkipRules
  <2>2. SkipFirst = Peek
    BY <2>1 DEF SkipStarts, SkipFirst, Peek
  <2>3. Peek \notin Plain \cup Openers
    BY <1>3, <1>5, UsableFacts
  <2>4. SkipFirst \in Closers \cup {Semicolon, "end"}
    BY <1>2, <2>2, <2>3
  <2> QED
    BY <1>1, <2>4, ExactFails, LineFails DEF SkipPlace
<1>6. CASE Rule = "expect"
  <2>1. SkipEnds
    BY <1>6, SkipRules
  <2>2. Peek # Semicolon
    <3>1. goals[1] = Expect(Semicolon)
      BY <2>1 DEF SkipEnds
    <3>2. Of = Semicolon
      BY <3>1, Goals1, Literals
    <3> QED
      BY <1>3, <1>6, <3>2, UsableFacts
  <2>3. skip.by = "exact" /\ SkipFirst # BraceOpen /\ ExactLast = at - 1
    BY <2>1 DEF SkipEnds
  <2>4. (at - 1) + 1 = at
    BY <1>4
  <2>5. TokenAt(text, ExactLast + 1) # Semicolon
    BY <2>2, <2>3, <2>4 DEF Peek
  <2> QED
    BY <2>3, <2>5, ExactFails DEF SkipPlace
<1>7. CASE Rule = "group"
  <2>1. SkipsGroup
    BY <1>7, SkipRules
  <2>2. SkipFirst \in Openers /\ (SkipFirst = BraceOpen \/ skip.by = "exact") /\ local \in Seq(Openers)
        /\ GroupEnd(text, skip.from) = GroupFrom(text)[at][local]
    BY <2>1 DEF SkipsGroup
  <2>3. at > Len(text) \/ ~Tracks(local, text[at])
    BY <1>2, <1>3, <1>7, UsableFacts
  <2>4. GroupFrom(text)[at][local] = 0
    BY <1>4, <2>2, <2>3, GroupChain
  <2>5. GroupEnd(text, skip.from) = 0 /\ ExactLast = 0
    BY <2>2, <2>4 DEF ExactLast
  <2> QED
    BY <1>1, <2>2, <2>5, ExactFails, LineFails DEF SkipPlace
<1>8. CASE Rule = "semicolon?"
  BY <1>2, <1>3, <1>8, UsableFacts
<1>9. CASE Rule = "rest"
  <2>1. SkipsRest
    BY <1>9, SkipRules
  <2>2. skip.by = "line" /\ SkipFirst # BraceOpen /\ local \in Seq(Openers)
        /\ LineEnd(text, skip.from) = LineFrom(text)[at][local]
    BY <2>1 DEF SkipsRest
  <2>3. \/ Peek = "end" \/ ~Tracks(local, Peek)
        \/ local = <<>> /\ Peek \in Closers
    BY <1>2, <1>3, <1>9, UsableFacts
  <2>4. local = <<>> /\ Peek \in Closers => ~Tracks(local, Peek)
    BY DEF Tracks
  <2>5. at > Len(text) \/ ~Tracks(local, text[at])
    BY <1>2, <2>3, <2>4
  <2>6. LineFrom(text)[at][local] = 0
    BY <1>4, <2>2, <2>5, LineChain
  <2> QED
    BY <2>2, <2>6, LineFails DEF SkipPlace
<1> QED
  BY <1>1, <1>5, <1>6, <1>7, <1>8, <1>9

\* The invariant implies that the two ways to skip agree.
LEMMA OKAgrees ==
  ASSUME MaxNesting \in Nat, ReaderOK
  PROVE  SkipsAgree
<1>1. SkipState
  BY DEF ReaderOK
<1>2. ASSUME Whole(text), skip.by # "none", Rule \in Heads
      PROVE  SkipPlace = at
  BY <1>1, <1>2, SkipRules DEF SkipState, Skipped
<1>3. ASSUME Whole(text), skip.by # "none", mode = "refused", Rule \notin Heads
      PROVE  SkipPlace = 0
  BY <1>1, <1>3, RefusedFails DEF ReaderOK
<1> QED
  BY <1>2, <1>3 DEF SkipsAgree, SkipPlace, Heads
-----------------------------------------------------------------------------
(***************************************************************************)
(* Ends of entries and keys.                                               *)
(***************************************************************************)

\* An entry goes on behind a token that neither leaves its block nor ends its line.
LEMMA GoesOn ==
  ASSUME NEW file \in Seq(Tokens), NEW i \in 1 .. Len(file), NEW k \in i + 1 .. Len(file),
         Going(file, i, k), Level(file, k + 1) >= Level(file, i),
         ~(file[k] = Semicolon /\ Level(file, k) = Level(file, i))
  PROVE  Going(file, i, k + 1)
<1>1. i \in Nat /\ k \in Nat /\ Len(file) \in Nat
  OBVIOUS
<1>2. \A j \in i .. k + 1 : j \in i .. k \/ j = k + 1
  BY <1>1
<1>3. \A j \in i + 1 .. (k + 1) - 1 : j \in i + 1 .. k - 1 \/ j = k
  BY <1>1
<1>4. Level(file, i) \in Int /\ Level(file, k + 1) \in Int
  BY <1>1, LevelType
<1> QED
  BY <1>2, <1>3, <1>4 DEF Going

\* An entry begins with its key.
LEMMA GoingStarts ==
  ASSUME NEW file \in Seq(Tokens), NEW i \in 1 .. Len(file), file[i] \in Plain
  PROVE  Going(file, i, i + 1) /\ Level(file, i + 1) = Level(file, i)
<1>1. file[i] \notin Openers \cup Closers
  BY TokenKinds DEF Structural
<1>2. Level(file, i) \in Int /\ Level(file, i + 1) = Level(file, i)
  BY <1>1, LevelStep
<1>3. \A j \in i .. i + 1 : j = i \/ j = i + 1
  OBVIOUS
<1>4. \A j \in i + 1 .. (i + 1) - 1 : FALSE
  OBVIOUS
<1> QED
  BY <1>2, <1>3, <1>4 DEF Going

\* The line of an entry ends at the first semicolon of its level.
LEMMA LineStops ==
  ASSUME NEW file \in Seq(Tokens), NEW i \in 1 .. Len(file), NEW k \in i + 1 .. Len(file),
         Going(file, i, k), file[k] = Semicolon, Level(file, k) = Level(file, i)
  PROVE  LineStop(file, i) = k
<1> DEFINE Ends(j) == /\ file[j] = Semicolon
                      /\ Level(file, j) = Level(file, i)
                      /\ \A q \in i .. j : Level(file, i) <= Level(file, q)
           P == {j \in i + 1 .. Len(file) : Ends(j)}
<1>1. LineStop(file, i) = Least(P)
  BY DEF LineStop
<1>2. i \in Nat /\ k \in Nat /\ Len(file) \in Nat
  OBVIOUS
<1>3. P \subseteq Nat
  BY <1>2
<1>4. k \in P
  BY DEF Going
<1>5. ASSUME NEW j \in P PROVE k <= j
  <2>1. j \in i + 1 .. Len(file) /\ file[j] = Semicolon /\ Level(file, j) = Level(file, i)
    OBVIOUS
  <2>2. j \notin i + 1 .. k - 1
    BY <2>1 DEF Going
  <2> QED
    BY <1>2, <2>1, <2>2
<1> HIDE DEF P
<1> QED
  BY <1>1, <1>3, <1>4, <1>5, LeastIs

\* The line of an entry that has not ended ends later, in its block.
LEMMA LineStopsLater ==
  ASSUME NEW file \in Seq(Tokens), NEW i \in 1 .. Len(file), NEW k \in i + 1 .. Len(file) + 1,
         Going(file, i, k), LineStop(file, i) # 0
  PROVE  /\ LineStop(file, i) \in k .. Len(file)
         /\ file[LineStop(file, i)] = Semicolon
         /\ Level(file, LineStop(file, i)) = Level(file, i)
         /\ \A q \in i .. LineStop(file, i) : Level(file, i) <= Level(file, q)
<1> DEFINE Ends(j) == /\ file[j] = Semicolon
                      /\ Level(file, j) = Level(file, i)
                      /\ \A q \in i .. j : Level(file, i) <= Level(file, q)
           P == {j \in i + 1 .. Len(file) : Ends(j)}
<1>1. LineStop(file, i) = Least(P)
  BY DEF LineStop
<1>2. i \in Nat /\ k \in Nat /\ Len(file) \in Nat
  OBVIOUS
<1>3. P \subseteq Nat
  BY <1>2
<1>4. Least(P) \in P
  <2> HIDE DEF P
  <2> QED
    BY <1>1, <1>3, LeastFacts
<1>5. LineStop(file, i) \in P
  BY <1>1, <1>4
<1>6. PICK e : e = LineStop(file, i)
  OBVIOUS
<1>7. e \in i + 1 .. Len(file) /\ Ends(e)
  BY <1>5, <1>6
<1>8. e \notin i + 1 .. k - 1
  BY <1>7 DEF Going
<1>9. e \in k .. Len(file)
  BY <1>2, <1>7, <1>8
<1> QED
  BY <1>6, <1>7, <1>9

\* Keys of a block, at its begin, behind one more entry, and at its end.
LEMMA TrackStarts ==
  ASSUME NEW file \in Seq(Tokens), NEW s \in 1 .. Len(file) + 1, NEW blocks
  PROVE  OnTrack(file, s, s, blocks) /\ Keys(file, s, s - 1, blocks) = {}
<1>1. s \in Nat /\ s - 1 \in Int /\ s > s - 1
  OBVIOUS
<1>2. Keys(file, s, s - 1, blocks) = {}
  BY <1>1, KeysFacts
<1> QED
  BY <1>2 DEF OnTrack

\* Behind a valid entry the keys so far are those before it and its own.
LEMMA TrackOn ==
  ASSUME NEW file \in Seq(Tokens), NEW s \in Nat, NEW k \in 1 .. Len(file), NEW blocks, s <= k,
         OnTrack(file, s, k, blocks), NEW read \in BOOLEAN, read <=> file[k] \in blocks,
         NEW e, e = EntryEnd(file, k, read), e # 0
  PROVE  /\ e \in k + 1 .. Len(file)
         /\ OnTrack(file, s, e + 1, blocks)
         /\ Keys(file, s, e, blocks) = Keys(file, s, k - 1, blocks) \cup {k}
<1>1. e \in k + 1 .. Len(file)
  <2>1. k \in Nat
    OBVIOUS
  <2> QED
    BY <2>1, StopFacts
<1>2. k \in Nat /\ e \in Nat /\ Len(file) \in Nat /\ e + 1 \in Nat /\ (e + 1) - 1 = e
  BY <1>1
<1>3. ASSUME NEW last \in e .. Len(file)
      PROVE  Keys(file, s, last, blocks) = (Keys(file, s, k - 1, blocks) \cup {k}) \cup Keys(file, e + 1, last, blocks)
  <2>1. last \in Int /\ k <= last /\ last \in k - 1 .. Len(file)
    BY <1>1, <1>2
  <2>2. EntryEnd(file, k, file[k] \in blocks) = e
    <3>1. CASE file[k] \in blocks
      BY <3>1 DEF EntryEnd, BlockStop
    <3>2. CASE file[k] \notin blocks
      BY <3>2 DEF EntryEnd, BlockStop
    <3> QED
      BY <3>1, <3>2
  <2>3. Keys(file, k, last, blocks)
          = {k} \cup IF EntryEnd(file, k, file[k] \in blocks) = 0 THEN {}
                    ELSE Keys(file, EntryEnd(file, k, file[k] \in blocks) + 1, last, blocks)
    BY <1>2, <2>1, KeysFacts
  <2>5. Keys(file, k, last, blocks) = {k} \cup Keys(file, e + 1, last, blocks)
    BY <2>2, <2>3
  <2>4. Keys(file, s, last, blocks) = Keys(file, s, k - 1, blocks) \cup Keys(file, k, last, blocks)
    BY <2>1 DEF OnTrack
  <2> QED
    BY <2>4, <2>5
<1>4. Keys(file, e + 1, e, blocks) = {}
  BY <1>2, KeysFacts
<1>5. Keys(file, s, e, blocks) = Keys(file, s, k - 1, blocks) \cup {k}
  BY <1>1, <1>2, <1>3, <1>4
<1>6. Keys(file, s, e, blocks) \subseteq s .. e
  <2>1. Keys(file, s, k - 1, blocks) \subseteq s .. k - 1
    BY DEF OnTrack
  <2> QED
    BY <1>1, <1>2, <1>5, <2>1
<1>7. OnTrack(file, s, e + 1, blocks)
  BY <1>2, <1>3, <1>5, <1>6 DEF OnTrack
<1> QED
  BY <1>1, <1>5, <1>7

\* Where an entry can begin its key is one of the keys.
LEMMA TrackKey ==
  ASSUME NEW file \in Seq(Tokens), NEW s \in Nat, NEW k \in 1 .. Len(file), NEW blocks,
         OnTrack(file, s, k, blocks), NEW last \in k .. Len(file)
  PROVE  k \in Keys(file, s, last, blocks)
<1>1. last \in k - 1 .. Len(file) /\ last \in Int /\ k \in Nat /\ k <= last
  OBVIOUS
<1>2. k \in Keys(file, k, last, blocks)
  BY <1>1, KeysFacts
<1> QED
  BY <1>1, <1>2 DEF OnTrack

-----------------------------------------------------------------------------
(***************************************************************************)
(* What the entries say, with one more of them.                            *)
(***************************************************************************)

\* The keys are before place k.
Earlier(keys, k) == /\ keys \subseteq Nat /\ IsFiniteSet(keys)
                    /\ k \in Nat /\ k # 0
                    /\ \A j \in keys : j < k

\* The last of several entries with one key.
LEMMA LatestNext ==
  ASSUME NEW file, NEW keys, NEW k, Earlier(keys, k), NEW key
  PROVE  Latest(file, keys \cup {k}, key) = IF file[k] = key THEN k ELSE Latest(file, keys, key)
<1> USE DEF Earlier
<1> DEFINE of == {i \in keys : file[i] = key}
           more == {i \in keys \cup {k} : file[i] = key}
<1>1. Latest(file, keys \cup {k}, key) = IF more = {} THEN 0 ELSE CHOOSE i \in more : \A j \in more : j <= i
  BY DEF Latest
<1>2. Latest(file, keys, key) = IF of = {} THEN 0 ELSE CHOOSE i \in of : \A j \in of : j <= i
  BY DEF Latest
<1>3. CASE file[k] = key
  <2>1. k \in more /\ more \subseteq Nat /\ \A j \in more : j <= k
    <3>1. k \in more
      BY <1>3
    <3>2. ASSUME NEW j \in more PROVE j \in Nat /\ j <= k
      <4>1. j \in keys \/ j = k
        OBVIOUS
      <4> QED
        BY <4>1
    <3> QED
      BY <3>1, <3>2
  <2> HIDE DEF more
  <2> DEFINE c == CHOOSE i \in more : \A j \in more : j <= i
  <2>2. c \in more /\ \A j \in more : j <= c
    BY <2>1, Zenon
  <2> HIDE DEF c
  <2>3. c \in Nat /\ c <= k /\ k <= c
    BY <2>1, <2>2
  <2>4. c = k
    BY <2>3
  <2> QED
    BY <1>1, <1>3, <2>1, <2>4, Zenon DEF c
<1>4. CASE file[k] # key
  <2>1. more = of
    BY <1>4
  <2> HIDE DEF more, of
  <2> QED
    BY <1>1, <1>2, <1>4, <2>1, Zenon
<1> QED
  BY <1>3, <1>4

\* Where there is no key there is no latest one.
LEMMA LatestNone == ASSUME NEW file, NEW key PROVE Latest(file, {}, key) = 0
BY DEF Latest

\* No patches, and one more.
Nth(places, n) == Least({i \in places : Cardinality({j \in places : j <= i}) = n})

\* Where there is no key there is no patch.
LEMMA PatchesBegin == ASSUME NEW file, NEW keep PROVE PatchesAt(file, keep, {}) = <<>>
<1>1. Cardinality({}) = 0
  BY FS_EmptySet
<1>2. PatchesAt(file, keep, {}) = [n \in 1 .. 0 |-> Patch(file, keep, Nth({}, n))]
  BY <1>1, Zenon DEF PatchesAt, Nth
<1>3. 1 .. 0 = {}
  OBVIOUS
<1> DEFINE s == [n \in 1 .. 0 |-> Patch(file, keep, Nth({}, n))]
<1>4. s \in Seq({}) /\ Len(s) = 0
  <2>1. s \in [1 .. 0 -> {}]
    BY <1>3
  <2> HIDE DEF s
  <2> QED
    BY <2>1
<1> HIDE DEF s
<1>5. s = <<>>
  BY <1>4
<1> QED
  BY <1>2, <1>5 DEF s

\* One more patch comes last.
LEMMA PatchesNext ==
  ASSUME NEW file, NEW keep, NEW places, NEW k, Earlier(places, k)
  PROVE  PatchesAt(file, keep, places \cup {k}) = Append(PatchesAt(file, keep, places), Patch(file, keep, k))
<1> USE DEF Earlier
<1> DEFINE c == Cardinality(places)
           more == places \cup {k}
<1>1. c \in Nat /\ Cardinality(more) = c + 1 /\ k \notin places
  <2>1. IsFiniteSet(places) /\ c \in Nat
    BY FS_CardinalityType
  <2>2. k \notin places
    OBVIOUS
  <2>3. Cardinality(more) = c + 1
    BY <2>1, <2>2, FS_AddElement
  <2> QED
    BY <2>1, <2>2, <2>3
<1>2. {j \in more : j <= k} = more
  <2>1. ASSUME NEW j \in more PROVE j <= k
    <3>1. j \in places \/ j = k
      OBVIOUS
    <3> QED
      BY <3>1
  <2> QED
    BY <2>1
<1>3. ASSUME NEW i \in places PROVE {j \in more : j <= i} = {j \in places : j <= i}
  OBVIOUS
<1>4. ASSUME NEW n \in 1 .. c PROVE Nth(more, n) = Nth(places, n)
  <2>1. n # c + 1
    BY <1>1
  <2>2. {i \in more : Cardinality({j \in more : j <= i}) = n}
          = {i \in places : Cardinality({j \in places : j <= i}) = n}
    BY <1>1, <1>2, <1>3, <2>1
  <2> QED
    BY <2>2 DEF Nth
<1>5. Nth(more, c + 1) = k
  <2>1. ASSUME NEW i \in places PROVE Cardinality({j \in more : j <= i}) # c + 1
    <3>1. {j \in more : j <= i} \subseteq places
      OBVIOUS
    <3>2. Cardinality({j \in more : j <= i}) <= c
      BY <3>1, FS_Subset
    <3>3. Cardinality({j \in more : j <= i}) \in Nat
      BY <3>1, FS_Subset, FS_CardinalityType
    <3> QED
      BY <1>1, <3>2, <3>3
  <2>2. {i \in more : Cardinality({j \in more : j <= i}) = c + 1} = {k}
    BY <1>1, <1>2, <2>1
  <2>3. Least({k}) = k
    BY LeastIs, {k} \subseteq Nat, k <= k
  <2> QED
    BY <2>2, <2>3 DEF Nth
<1> DEFINE f == PatchesAt(file, keep, places)
           g == PatchesAt(file, keep, more)
           P(n) == Patch(file, keep, n)
<1>6. f = [n \in 1 .. c |-> P(Nth(places, n))]
  BY Zenon DEF PatchesAt, Nth
<1>7. g = [n \in 1 .. c + 1 |-> P(Nth(more, n))]
  <2>1. g = [n \in 1 .. Cardinality(more) |-> P(Nth(more, n))]
    BY Zenon DEF PatchesAt, Nth
  <2> QED
    BY <1>1, <2>1
<1> HIDE DEF f, g, c, more, P
<1>8. \E S : f \in Seq(S) /\ P(k) \in S
  <2> DEFINE S == {f[n] : n \in 1 .. c} \cup {P(k)}
  <2>1. f \in [1 .. c -> S]
    BY <1>6
  <2> HIDE DEF S
  <2>2. f \in Seq(S)
    BY <1>1, <2>1
  <2>3. P(k) \in S
    BY DEF S
  <2> QED
    BY <2>2, <2>3
<1>9. PICK S : f \in Seq(S) /\ P(k) \in S
  BY <1>8
<1>10. Len(f) = c
  BY <1>1, <1>6
<1>11. /\ Append(f, P(k)) \in Seq(S)
       /\ Len(Append(f, P(k))) = c + 1
       /\ \A n \in 1 .. c : Append(f, P(k))[n] = f[n]
       /\ Append(f, P(k))[c + 1] = P(k)
  BY <1>1, <1>9, <1>10, AppendProperties
<1>12. \A n \in 1 .. c + 1 : Append(f, P(k))[n] = g[n]
  <2> SUFFICES ASSUME NEW n \in 1 .. c + 1 PROVE Append(f, P(k))[n] = g[n]
    OBVIOUS
  <2>1. CASE n = c + 1
    BY <1>5, <1>7, <1>11, <2>1
  <2>2. CASE n # c + 1
    <3>1. n \in 1 .. c
      BY <1>1, <2>2
    <3> QED
      BY <1>4, <1>6, <1>7, <1>11, <3>1
  <2> QED
    BY <2>1, <2>2
<1>13. Append(f, P(k)) = [n \in 1 .. c + 1 |-> Append(f, P(k))[n]]
  BY <1>11, LenProperties
<1>14. Append(f, P(k)) = g
  BY <1>7, <1>12, <1>13
<1> QED
  BY <1>14 DEF f, g, P, more

\* What the file says, with one more entry that is no block.
LEMMA SaysNext ==
  ASSUME NEW file, NEW keep, NEW keys, NEW k, Earlier(keys, k),
         file[k] \notin FileBlocks, NEW s \in FileSlots
  PROVE  Says(file, keep, keys \cup {k}, s) =
           IF s = Slot("file", file[k]) THEN SaysAt(file, keep, s, k) ELSE Says(file, keep, keys, s)
<1> DEFINE more == keys \cup {k}
           L(key) == Latest(file, keys, key)
           M(key) == Latest(file, more, key)
<1>1. \A key : M(key) = IF file[k] = key THEN k ELSE L(key)
  BY LatestNext
<1>2. s \in {"object", "dimensions", "internal"}
  BY DEF FileSlots
<1>3. file[k] # "FoamFile" /\ file[k] # "boundaryField"
  BY DEF FileBlocks
<1>4. /\ Says(file, keep, more, "internal") = ValueAt(file, keep, M("internalField"))
      /\ Says(file, keep, keys, "internal") = ValueAt(file, keep, L("internalField"))
      /\ Says(file, keep, more, "dimensions") = ExponentsAt(file, M("dimensions"))
      /\ Says(file, keep, keys, "dimensions") = ExponentsAt(file, L("dimensions"))
  BY DEF Says
<1>5. /\ Says(file, keep, more, "object") = IF M("FoamFile") = 0 THEN Absent
                                            ELSE WordAt(Latest(file, KeysIn(file, M("FoamFile"), {}), "object"))
      /\ Says(file, keep, keys, "object") = IF L("FoamFile") = 0 THEN Absent
                                            ELSE WordAt(Latest(file, KeysIn(file, L("FoamFile"), {}), "object"))
  BY DEF Says
<1>6. M("FoamFile") = L("FoamFile")
  BY <1>1, <1>3
<1>7. CASE s = "object"
  <2>1. s # Slot("file", file[k])
    BY <1>7 DEF Slot
  <2> QED
    BY <1>5, <1>6, <1>7, <2>1
<1>8. CASE s = "internal"
  <2>1. s = Slot("file", file[k]) <=> file[k] = "internalField"
    BY <1>8 DEF Slot
  <2>2. SaysAt(file, keep, s, k) = ValueAt(file, keep, k)
    BY <1>8 DEF SaysAt
  <2>3. M("internalField") = IF file[k] = "internalField" THEN k ELSE L("internalField")
    BY <1>1
  <2> QED
    BY <1>4, <1>8, <2>1, <2>2, <2>3
<1>9. CASE s = "dimensions"
  <2>1. s = Slot("file", file[k]) <=> file[k] = "dimensions"
    BY <1>9 DEF Slot
  <2>2. SaysAt(file, keep, s, k) = ExponentsAt(file, k)
    BY <1>9 DEF SaysAt
  <2>3. M("dimensions") = IF file[k] = "dimensions" THEN k ELSE L("dimensions")
    BY <1>1
  <2> QED
    BY <1>4, <1>9, <2>1, <2>2, <2>3
<1> QED
  BY <1>2, <1>7, <1>8, <1>9

\* The same of a patch.
LEMMA PatchSaysNext ==
  ASSUME NEW file, NEW keep, NEW keys, NEW k, Earlier(keys, k),
         NEW s \in {"type", "value", "inlet"}
  PROVE  PatchSays(file, keep, keys \cup {k}, s) =
           IF s = Slot("patch", file[k]) THEN SaysAt(file, keep, s, k) ELSE PatchSays(file, keep, keys, s)
<1> DEFINE more == keys \cup {k}
           L(key) == Latest(file, keys, key)
           M(key) == Latest(file, more, key)
<1>1. \A key : M(key) = IF file[k] = key THEN k ELSE L(key)
  BY LatestNext
<1>2. CASE s = "type"
  <2>1. s = Slot("patch", file[k]) <=> file[k] = "type"
    BY <1>2 DEF Slot
  <2>2. SaysAt(file, keep, s, k) = WordAt(k)
    BY <1>2 DEF SaysAt
  <2>3. /\ PatchSays(file, keep, more, s) = WordAt(M("type"))
        /\ PatchSays(file, keep, keys, s) = WordAt(L("type"))
    BY <1>2 DEF PatchSays
  <2>4. M("type") = IF file[k] = "type" THEN k ELSE L("type")
    BY <1>1
  <2> HIDE DEF M, L, more
  <2>5. PatchSays(file, keep, more, s) =
          IF s = Slot("patch", file[k]) THEN SaysAt(file, keep, s, k) ELSE PatchSays(file, keep, keys, s)
    BY <2>1, <2>2, <2>3, <2>4
  <2> QED
    BY <2>5 DEF more
<1>3. CASE s = "value"
  <2>1. s = Slot("patch", file[k]) <=> file[k] = "value"
    BY <1>3 DEF Slot
  <2>2. SaysAt(file, keep, s, k) = ValueAt(file, keep, k)
    BY <1>3 DEF SaysAt
  <2>3. /\ PatchSays(file, keep, more, s) = ValueAt(file, keep, M("value"))
        /\ PatchSays(file, keep, keys, s) = ValueAt(file, keep, L("value"))
    BY <1>3 DEF PatchSays
  <2>4. M("value") = IF file[k] = "value" THEN k ELSE L("value")
    BY <1>1
  <2> HIDE DEF M, L, more
  <2>5. PatchSays(file, keep, more, s) =
          IF s = Slot("patch", file[k]) THEN SaysAt(file, keep, s, k) ELSE PatchSays(file, keep, keys, s)
    BY <2>1, <2>2, <2>3, <2>4
  <2> QED
    BY <2>5 DEF more
<1>4. CASE s = "inlet"
  <2>1. s = Slot("patch", file[k]) <=> file[k] = "inletValue"
    BY <1>4 DEF Slot
  <2>2. SaysAt(file, keep, s, k) = ValueAt(file, keep, k)
    BY <1>4 DEF SaysAt
  <2>3. /\ PatchSays(file, keep, more, s) = ValueAt(file, keep, M("inletValue"))
        /\ PatchSays(file, keep, keys, s) = ValueAt(file, keep, L("inletValue"))
    BY <1>4 DEF PatchSays
  <2>4. M("inletValue") = IF file[k] = "inletValue" THEN k ELSE L("inletValue")
    BY <1>1
  <2> HIDE DEF M, L, more
  <2>5. PatchSays(file, keep, more, s) =
          IF s = Slot("patch", file[k]) THEN SaysAt(file, keep, s, k) ELSE PatchSays(file, keep, keys, s)
    BY <2>1, <2>2, <2>3, <2>4
  <2> QED
    BY <2>5 DEF more
<1> QED
  BY <1>2, <1>3, <1>4

\* Of the patches, too, the file says the same.
LEMMA PatchesSaidNext ==
  ASSUME NEW file, NEW keep, NEW keys, NEW k, Earlier(keys, k),
         file[k] # "boundaryField"
  PROVE  PatchesSaid(file, keep, keys \cup {k}) = PatchesSaid(file, keep, keys)
<1>1. \A key : Latest(file, keys \cup {k}, key) = IF file[k] = key THEN k ELSE Latest(file, keys, key)
  BY LatestNext
<1>2. Latest(file, keys \cup {k}, "boundaryField") = Latest(file, keys, "boundaryField")
  BY <1>1
<1> QED
  BY <1>2 DEF PatchesSaid

-----------------------------------------------------------------------------
(***************************************************************************)
(* From one entry to the next.                                             *)
(***************************************************************************)

\* The keys before the next entry.
LEMMA TrackBefore ==
  ASSUME NEW file, NEW s \in Nat, NEW k \in Nat, k # 0, NEW blocks, OnTrack(file, s, k, blocks)
  PROVE  Earlier(Keys(file, s, k - 1, blocks), k)
<1>1. Keys(file, s, k - 1, blocks) \subseteq s .. k - 1
  BY DEF OnTrack
<1>2. s \in Int /\ k - 1 \in Int
  OBVIOUS
<1>3. IsFiniteSet(Keys(file, s, k - 1, blocks))
  BY <1>1, <1>2, FS_Interval, FS_Subset
<1> QED
  BY <1>1, <1>3 DEF Earlier

\* What the file says after an entry that was read.
LEMMA FileFoundNext ==
  ASSUME NEW file, NEW keep, NEW fnd, NEW pts, NEW keys, NEW k, Earlier(keys, k),
         NEW key, key = file[k], key \notin FileBlocks, NEW slot, slot = Slot("file", key),
         FileFound(file, keep, fnd, pts, keys, slot), Said(file, keep, fnd, slot, k)
  PROVE  FileFound(file, keep, fnd, pts, keys \cup {k}, "none")
<1> DEFINE more == keys \cup {k}
<1>1. slot \in {"none", "internal", "dimensions"} /\ slot # "patches" /\ slot # "class"
  BY DEF Slot
<1>2. pts = PatchesSaid(file, keep, more)
  <2>1. pts = PatchesSaid(file, keep, keys)
    BY <1>1 DEF FileFound
  <2>2. file[k] # "boundaryField"
    BY DEF FileBlocks
  <2> QED
    BY <2>1, <2>2, PatchesSaidNext
<1>3. ASSUME NEW s \in FileSlots PROVE fnd[s] = Says(file, keep, more, s)
  <2>1. Says(file, keep, more, s) = IF s = slot THEN SaysAt(file, keep, s, k) ELSE Says(file, keep, keys, s)
    BY SaysNext
  <2>2. CASE s = slot
    <3>1. s # "none"
      BY DEF FileSlots
    <3>2. fnd[s] = SaysAt(file, keep, s, k)
      BY <1>1, <2>2, <3>1 DEF Said
    <3> QED
      BY <2>1, <2>2, <3>2
  <2>3. CASE s # slot
    <3>1. fnd[s] = Says(file, keep, keys, s)
      BY <2>3 DEF FileFound
    <3> QED
      BY <2>1, <2>3, <3>1
  <2> QED
    BY <2>2, <2>3
<1> HIDE DEF more
<1>4. FileFound(file, keep, fnd, pts, more, "none")
  BY <1>2, <1>3 DEF FileFound
<1> QED
  BY <1>4 DEF more

\* The same of a header and of a patch.
LEMMA HeaderFoundNext ==
  ASSUME NEW file, NEW keep, NEW fnd, NEW keys, NEW k, Earlier(keys, k),
         NEW key, key = file[k], NEW slot, slot = Slot("header", key),
         HeaderFound(file, fnd, keys, slot), Said(file, keep, fnd, slot, k)
  PROVE  HeaderFound(file, fnd, keys \cup {k}, "none")
<1>1. \A ky : Latest(file, keys \cup {k}, ky) = IF file[k] = ky THEN k ELSE Latest(file, keys, ky)
  BY LatestNext
<1>2. slot = "object" <=> key = "object"
  BY DEF Slot
<1>3. SaysAt(file, keep, "object", k) = WordAt(k)
  BY DEF SaysAt
<1>4. slot = "object" => fnd["object"] = SaysAt(file, keep, "object", k)
  BY DEF Said
<1>5. slot # "object" => fnd["object"] = WordAt(Latest(file, keys, "object"))
  BY DEF HeaderFound
<1>6. fnd["object"] = WordAt(Latest(file, keys \cup {k}, "object"))
  BY <1>1, <1>2, <1>3, <1>4, <1>5
<1> QED
  BY <1>6 DEF HeaderFound

\* What is found of a patch after one more of its entries.
LEMMA PatchFoundNext ==
  ASSUME NEW file, NEW keep, NEW fnd, NEW keys, NEW k, Earlier(keys, k),
         NEW key, key = file[k], NEW slot, slot = Slot("patch", key),
         PatchFound(file, keep, fnd, keys, slot), Said(file, keep, fnd, slot, k)
  PROVE  PatchFound(file, keep, fnd, keys \cup {k}, "none")
<1> SUFFICES ASSUME NEW s \in {"type", "value", "inlet"}
             PROVE  fnd[s] = PatchSays(file, keep, keys \cup {k}, s)
  BY DEF PatchFound
<1>1. PatchSays(file, keep, keys \cup {k}, s)
        = IF s = slot THEN SaysAt(file, keep, s, k) ELSE PatchSays(file, keep, keys, s)
  BY PatchSaysNext
<1>2. CASE s = slot
  <2>1. s # "none" /\ s # "class"
    OBVIOUS
  <2>2. fnd[s] = SaysAt(file, keep, s, k)
    BY <1>2, <2>1 DEF Said
  <2> QED
    BY <1>1, <1>2, <2>2
<1>3. CASE s # slot
  <2>1. fnd[s] = PatchSays(file, keep, keys, s)
    BY <1>3 DEF PatchFound
  <2> QED
    BY <1>1, <1>3, <2>1
<1> QED
  BY <1>2, <1>3

\* Where entries can be.
LEMMA BlockPlaces ==
  ASSUME NEW file \in Seq(Tokens), NEW keep, NEW block \in Places4, NEW b, NEW o, NEW k,
         BlockAt(file, keep, block, b, o, k)
  PROVE  /\ k \in 1 .. Len(file) + 1 /\ k \in Nat /\ Len(file) \in Nat
         /\ block = "file" => FileAt(file, keep, k)
         /\ block = "header" => HeaderAt(file, keep, o, k)
         /\ block = "boundary" => BoundaryAt(file, keep, o, k)
         /\ block = "patch" => PatchAt(file, keep, b, o, k)
<1>1. /\ block = "file" => FileAt(file, keep, k)
      /\ block = "header" => HeaderAt(file, keep, o, k)
      /\ block = "boundary" => BoundaryAt(file, keep, o, k)
      /\ block = "patch" => PatchAt(file, keep, b, o, k)
  BY DEF BlockAt
<1>2. Len(file) \in Nat
  OBVIOUS
<1>3. ASSUME NEW i \in 1 .. Len(file), NEW blocks, Inside(file, i, k, blocks) PROVE k \in 1 .. Len(file) + 1
  BY <1>2, <1>3 DEF Inside
<1>4. k \in 1 .. Len(file) + 1
  <2>1. CASE block = "file"
    BY <1>1, <2>1 DEF FileAt
  <2>2. CASE block = "header"
    BY <1>1, <1>3, <2>2 DEF HeaderAt
  <2>3. CASE block = "boundary"
    BY <1>1, <1>3, <2>3 DEF BoundaryAt
  <2>4. CASE block = "patch"
    BY <1>1, <1>3, <2>4 DEF PatchAt
  <2> QED
    BY <2>1, <2>2, <2>3, <2>4 DEF Places4
<1> QED
  BY <1>1, <1>2, <1>4

\* What is found after an entry that was read.
LEMMA FoundNext ==
  ASSUME NEW file \in Seq(Tokens), NEW keep, NEW fnd, NEW pts, NEW block \in {"file", "header", "patch"},
         NEW b, NEW o, NEW k \in 1 .. Len(file), BlockAt(file, keep, block, b, o, k),
         NEW key, key = file[k], block = "file" => key \notin FileBlocks, NEW slot, slot = Slot(block, key),
         FoundIn(file, keep, fnd, pts, block, b, o, k, slot), Said(file, keep, fnd, slot, k),
         NEW read, read = FALSE, NEW e, e = EntryEnd(file, k, read), e # 0
  PROVE  FoundIn(file, keep, fnd, pts, block, b, o, e + 1, "none")
<1>1. block \in Places4 /\ k \in Nat /\ k # 0 /\ Len(file) \in Nat /\ read \in BOOLEAN
  <2>1. block \in Places4
    BY DEF Places4
  <2>2. k \in Nat /\ k # 0 /\ Len(file) \in Nat
    OBVIOUS
  <2> QED
    BY <2>1, <2>2
<1>2. e \in k + 1 .. Len(file) /\ e \in Nat /\ (e + 1) - 1 = e
  <2>1. e \in k + 1 .. Len(file)
    BY <1>1, StopFacts
  <2> QED
    BY <1>1, <2>1
<1>3. CASE block = "file"
  <2>1. FileAt(file, keep, k) /\ key \notin FileBlocks
    BY <1>1, <1>3, BlockPlaces
  <2>2. OnTrack(file, 1, k, FileBlocks) /\ 1 \in Nat /\ 1 <= k /\ (read <=> file[k] \in FileBlocks)
    BY <1>1, <2>1 DEF FileAt
  <2>3. Keys(file, 1, e, FileBlocks) = Keys(file, 1, k - 1, FileBlocks) \cup {k}
    BY <1>1, <2>2, TrackOn
  <2>4. FileBefore(file, e + 1) = FileBefore(file, k) \cup {k}
    BY <1>2, <2>3 DEF FileBefore
  <2>5. Earlier(FileBefore(file, k), k)
    BY <1>1, <2>2, TrackBefore DEF FileBefore
  <2>6. FileFound(file, keep, fnd, pts, FileBefore(file, k), slot) /\ slot = Slot("file", key)
    BY <1>3 DEF FoundIn
  <2>7. FileFound(file, keep, fnd, pts, FileBefore(file, k) \cup {k}, "none")
    BY <2>1, <2>5, <2>6, FileFoundNext
  <2> QED
    BY <1>3, <2>4, <2>7 DEF FoundIn
<1>4. ASSUME NEW i \in 1 .. Len(file), Inside(file, i, k, {})
      PROVE  /\ Before(file, i, e + 1, {}) = Before(file, i, k, {}) \cup {k}
             /\ Earlier(Before(file, i, k, {}), k)
  <2>1. OnTrack(file, i + 2, k, {}) /\ i + 2 \in Nat /\ i + 2 <= k /\ (read <=> file[k] \in {})
    BY <1>4 DEF Inside
  <2>2. Keys(file, i + 2, e, {}) = Keys(file, i + 2, k - 1, {}) \cup {k}
    BY <1>1, <2>1, TrackOn
  <2>3. Before(file, i, e + 1, {}) = Before(file, i, k, {}) \cup {k}
    BY <1>2, <2>2 DEF Before
  <2> QED
    BY <1>1, <2>1, <2>3, TrackBefore DEF Before
<1>5. CASE block = "header"
  <2>1. HeaderAt(file, keep, o, k)
    BY <1>1, <1>5, BlockPlaces
  <2>2. /\ Before(file, o, e + 1, {}) = Before(file, o, k, {}) \cup {k}
        /\ Earlier(Before(file, o, k, {}), k)
    BY <1>4, <2>1 DEF HeaderAt
  <2>3. /\ FileFound(file, keep, fnd, pts, FileBefore(file, o), "object")
        /\ HeaderFound(file, fnd, Before(file, o, k, {}), slot)
        /\ slot = Slot("header", key)
    BY <1>5 DEF FoundIn
  <2>4. HeaderFound(file, fnd, Before(file, o, k, {}) \cup {k}, "none")
    BY <2>2, <2>3, HeaderFoundNext
  <2> QED
    BY <1>5, <2>2, <2>3, <2>4 DEF FoundIn
<1>6. CASE block = "patch"
  <2>1. PatchAt(file, keep, b, o, k)
    BY <1>1, <1>6, BlockPlaces
  <2>2. /\ Before(file, o, e + 1, {}) = Before(file, o, k, {}) \cup {k}
        /\ Earlier(Before(file, o, k, {}), k)
    BY <1>4, <2>1 DEF PatchAt
  <2>3. /\ FileFound(file, keep, fnd, pts, FileBefore(file, b), "patches")
        /\ pts = PatchesAt(file, keep, Before(file, b, o, Tokens))
        /\ fnd["name"] = Value("name", o, 0)
        /\ PatchFound(file, keep, fnd, Before(file, o, k, {}), slot)
        /\ slot = Slot("patch", key)
    BY <1>6 DEF FoundIn
  <2>4. PatchFound(file, keep, fnd, Before(file, o, k, {}) \cup {k}, "none")
    BY <2>2, <2>3, PatchFoundNext
  <2> QED
    BY <1>6, <2>2, <2>3, <2>4 DEF FoundIn
<1> QED
  BY <1>3, <1>5, <1>6

-----------------------------------------------------------------------------
\* The next entry of a file and of a block.
LEMMA FileOn ==
  ASSUME NEW file \in Seq(Tokens), NEW keep, NEW k \in 1 .. Len(file), FileAt(file, keep, k),
         NEW read \in BOOLEAN, read <=> file[k] \in FileBlocks,
         NEW e, e = EntryEnd(file, k, read), e # 0,
         Level(file, e + 1) = Level(file, k), ValidFileEntry(file, keep, k)
  PROVE  /\ FileAt(file, keep, e + 1)
         /\ FileBefore(file, e + 1) = FileBefore(file, k) \cup {k}
         /\ Earlier(FileBefore(file, k), k)
         /\ e \in k + 1 .. Len(file)
<1>1. OnTrack(file, 1, k, FileBlocks) /\ 1 \in Nat /\ 1 <= k /\ k \in Nat /\ k # 0 /\ Len(file) \in Nat
  BY DEF FileAt
<1>2. /\ e \in k + 1 .. Len(file)
      /\ OnTrack(file, 1, e + 1, FileBlocks)
      /\ Keys(file, 1, e, FileBlocks) = Keys(file, 1, k - 1, FileBlocks) \cup {k}
  BY <1>1, TrackOn
<1>3. e \in Nat /\ (e + 1) - 1 = e /\ e + 1 \in 1 .. Len(file) + 1
  BY <1>1, <1>2
<1>4. FileBefore(file, e + 1) = FileBefore(file, k) \cup {k}
  BY <1>2, <1>3 DEF FileBefore
<1>5. Earlier(FileBefore(file, k), k)
  BY <1>1, TrackBefore DEF FileBefore
<1>6. FileAt(file, keep, e + 1)
  <2>1. Level(file, e + 1) = 0 /\ \A j \in FileBefore(file, k) : ValidFileEntry(file, keep, j)
    BY DEF FileAt
  <2>2. \A j \in FileBefore(file, e + 1) : ValidFileEntry(file, keep, j)
    BY <1>4, <2>1
  <2> QED
    BY <1>2, <1>3, <2>1, <2>2 DEF FileAt
<1> QED
  BY <1>2, <1>4, <1>5, <1>6

\* Behind an entry of a block the reader is still inside the block.
LEMMA InsideOn ==
  ASSUME NEW file \in Seq(Tokens), NEW o \in 1 .. Len(file), NEW k \in 1 .. Len(file), NEW blocks,
         Inside(file, o, k, blocks),
         NEW read \in BOOLEAN, read <=> file[k] \in blocks,
         NEW e, e = EntryEnd(file, k, read), e # 0,
         Level(file, e + 1) = Level(file, k), \A q \in k .. e + 1 : Level(file, k) <= Level(file, q)
  PROVE  /\ Inside(file, o, e + 1, blocks)
         /\ Before(file, o, e + 1, blocks) = Before(file, o, k, blocks) \cup {k}
         /\ Earlier(Before(file, o, k, blocks), k)
         /\ e \in k + 1 .. Len(file)
<1>1. /\ OnTrack(file, o + 2, k, blocks) /\ o + 2 \in Nat /\ o + 2 <= k /\ k \in Nat /\ k # 0
      /\ Len(file) \in Nat /\ o \in Nat
  BY DEF Inside
<1>2. /\ e \in k + 1 .. Len(file)
      /\ OnTrack(file, o + 2, e + 1, blocks)
      /\ Keys(file, o + 2, e, blocks) = Keys(file, o + 2, k - 1, blocks) \cup {k}
  BY <1>1, TrackOn
<1>3. e \in Nat /\ (e + 1) - 1 = e /\ e + 1 \in o + 2 .. Len(file) + 1
  BY <1>1, <1>2
<1>4. Before(file, o, e + 1, blocks) = Before(file, o, k, blocks) \cup {k}
  BY <1>2, <1>3 DEF Before
<1>5. Earlier(Before(file, o, k, blocks), k)
  BY <1>1, TrackBefore DEF Before
<1>6. \A q \in o + 2 .. e + 1 : Level(file, q) > Level(file, o)
  <2>1. \A q \in 1 .. Len(file) + 1 : Level(file, q) \in Int
    BY LevelType
  <2>2. Level(file, o) \in Int /\ Level(file, k) \in Int /\ Level(file, k) = Level(file, o) + 1
    BY <2>1 DEF Inside
  <2> SUFFICES ASSUME NEW q \in o + 2 .. e + 1 PROVE Level(file, q) > Level(file, o)
    OBVIOUS
  <2>3. q \in o + 2 .. k \/ q \in k .. e + 1
    BY <1>1, <1>3
  <2>4. Level(file, q) \in Int
    BY <1>1, <1>2, <2>1
  <2>5. CASE q \in o + 2 .. k
    BY <2>5 DEF Inside
  <2>6. CASE q \in k .. e + 1
    BY <2>2, <2>4, <2>6
  <2> QED
    BY <2>3, <2>5, <2>6
<1>7. Inside(file, o, e + 1, blocks)
  BY <1>2, <1>3, <1>6 DEF Inside
<1> QED
  BY <1>2, <1>4, <1>5, <1>7

\* An entry that is read as it has to be: where the next one can be.
LEMMA AtNext ==
  ASSUME NEW file \in Seq(Tokens), NEW keep, NEW block \in {"file", "header", "patch"},
         NEW b, NEW o, NEW k \in 1 .. Len(file), BlockAt(file, keep, block, b, o, k),
         block = "file" => file[k] \notin FileBlocks,
         NEW read, read = FALSE, NEW e, e = EntryEnd(file, k, read), e # 0,
         Level(file, e + 1) = Level(file, k), \A q \in k .. e + 1 : Level(file, k) <= Level(file, q),
         ValidEntry(file, keep, k, block)
  PROVE  BlockAt(file, keep, block, b, o, e + 1)
<1>1. block \in Places4 /\ read \in BOOLEAN
  BY DEF Places4
<1>2. CASE block = "file"
  <2>1. FileAt(file, keep, k) /\ (read <=> file[k] \in FileBlocks)
    BY <1>1, <1>2, BlockPlaces
  <2>2. ValidFileEntry(file, keep, k)
    BY <1>2 DEF ValidFileEntry, FileBlocks
  <2>3. FileAt(file, keep, e + 1)
    BY <1>1, <2>1, <2>2, FileOn
  <2> QED
    BY <1>2, <2>3 DEF BlockAt
<1>3. CASE block = "header"
  <2>1. HeaderAt(file, keep, o, k) /\ (read <=> file[k] \in {})
    BY <1>1, <1>3, BlockPlaces
  <2>2. o \in 1 .. Len(file) /\ Inside(file, o, k, {})
    BY <2>1 DEF HeaderAt
  <2>3. /\ Inside(file, o, e + 1, {})
        /\ Before(file, o, e + 1, {}) = Before(file, o, k, {}) \cup {k}
    BY <1>1, <2>1, <2>2, InsideOn
  <2>4. HeaderAt(file, keep, o, e + 1)
    BY <1>3, <2>1, <2>3 DEF HeaderAt
  <2> QED
    BY <1>3, <2>4 DEF BlockAt
<1>4. CASE block = "patch"
  <2>1. PatchAt(file, keep, b, o, k) /\ (read <=> file[k] \in {})
    BY <1>1, <1>4, BlockPlaces
  <2>2. o \in 1 .. Len(file) /\ Inside(file, o, k, {})
    BY <2>1 DEF PatchAt
  <2>3. /\ Inside(file, o, e + 1, {})
        /\ Before(file, o, e + 1, {}) = Before(file, o, k, {}) \cup {k}
    BY <1>1, <2>1, <2>2, InsideOn
  <2>4. PatchAt(file, keep, b, o, e + 1)
    BY <1>4, <2>1, <2>3 DEF PatchAt
  <2> QED
    BY <1>4, <2>4 DEF BlockAt
<1> QED
  BY <1>2, <1>3, <1>4

\* A block begins.
LEMMA InsideBegins ==
  ASSUME NEW file \in Seq(Tokens), NEW o \in 1 .. Len(file), file[o] \in Plain,
         o + 1 \in 1 .. Len(file), file[o + 1] = BraceOpen, NEW blocks
  PROVE  Inside(file, o, o + 2, blocks) /\ Before(file, o, o + 2, blocks) = {}
<1>1. o \in Nat /\ Len(file) \in Nat /\ o + 2 \in 1 .. Len(file) + 1 /\ (o + 1) + 1 = o + 2
  OBVIOUS
<1>2. Block(file, o)
  BY <1>1 DEF Block, TokenAt
<1>3. Level(file, o) \in Int /\ Level(file, o + 1) = Level(file, o)
  BY GoingStarts, LevelType
<1>4. Level(file, o + 2) = Level(file, o) + 1
  BY <1>1, <1>3, LevelStep, TokenNames
<1>5. \A q \in o + 2 .. o + 2 : q = o + 2
  BY <1>1
<1>6. OnTrack(file, o + 2, o + 2, blocks) /\ Keys(file, o + 2, (o + 2) - 1, blocks) = {}
  BY <1>1, TrackStarts
<1> QED
  BY <1>1, <1>2, <1>3, <1>4, <1>5, <1>6 DEF Inside, Before

\* And ends.
LEMMA InsideEnds ==
  ASSUME NEW file \in Seq(Tokens), NEW o \in 1 .. Len(file), file[o] \in Plain,
         NEW blocks, NEW k \in 1 .. Len(file), Inside(file, o, k, blocks), file[k] = BraceClose,
         NEW read, read = TRUE
  PROVE  /\ EntryEnd(file, o, read) = k
         /\ KeysIn(file, o, blocks) = Before(file, o, k, blocks)
         /\ Level(file, k + 1) = Level(file, o)
         /\ \A q \in o .. k + 1 : Level(file, o) <= Level(file, q)
<1>1. o \in Nat /\ k \in Nat /\ Len(file) \in Nat /\ o + 2 <= k /\ o + 1 \in Nat
  BY DEF Inside
<1>2. \A q \in 1 .. Len(file) + 1 : Level(file, q) \in Int
  BY LevelType
<1>3. Level(file, o) \in Int /\ Level(file, o + 1) = Level(file, o)
  BY <1>2, GoingStarts
<1>4. Level(file, k) = Level(file, o) + 1 /\ \A q \in o + 2 .. k : Level(file, q) > Level(file, o)
  BY DEF Inside
<1>5. Level(file, k + 1) = Level(file, k) - 1
  BY LevelStep, TokenNames
<1>6. Level(file, k + 1) = Level(file, o)
  BY <1>3, <1>4, <1>5
<1>7. Partner(file, o + 1) = k
  <2>1. \A j \in (o + 1) + 1 .. k - 1 : Level(file, j + 1) # Level(file, o + 1)
    <3> SUFFICES ASSUME NEW j \in (o + 1) + 1 .. k - 1 PROVE Level(file, j + 1) # Level(file, o + 1)
      OBVIOUS
    <3>1. j + 1 \in o + 2 .. k /\ j + 1 \in 1 .. Len(file) + 1
      BY <1>1
    <3> QED
      BY <1>2, <1>3, <1>4, <3>1
  <2>2. k \in (o + 1) + 1 .. Len(file)
    BY <1>1
  <2> QED
    BY <1>1, <1>3, <1>6, <2>1, <2>2, PartnerIs
<1>8. EntryEnd(file, o, read) = k
  BY <1>7 DEF EntryEnd, BlockStop, Inside
<1>9. KeysIn(file, o, blocks) = Before(file, o, k, blocks)
  BY <1>7 DEF KeysIn, Before
<1>10. ASSUME NEW q \in o .. k + 1 PROVE Level(file, o) <= Level(file, q)
  <2>1. q = o \/ q = o + 1 \/ q = k + 1 \/ q \in o + 2 .. k
    BY <1>1
  <2>2. q \in 1 .. Len(file) + 1
    BY <1>1
  <2> QED
    BY <1>2, <1>3, <1>4, <1>6, <2>1, <2>2
<1> QED
  BY <1>6, <1>8, <1>9, <1>10

-----------------------------------------------------------------------------
\* What a file says after one more header, boundary or patch.
LEMMA HeaderSays ==
  ASSUME NEW file, NEW keep, NEW fnd, NEW pts, NEW keys, NEW k, Earlier(keys, k), k # 0, file[k] = "FoamFile",
         FileFound(file, keep, fnd, pts, keys, "object"),
         HeaderFound(file, fnd, KeysIn(file, k, {}), "none")
  PROVE  FileFound(file, keep, fnd, pts, keys \cup {k}, "none")
<1> DEFINE more == keys \cup {k}
<1>1. \A key : Latest(file, more, key) = IF file[k] = key THEN k ELSE Latest(file, keys, key)
  BY LatestNext
<1>2. /\ Latest(file, more, "FoamFile") = k
      /\ Latest(file, more, "internalField") = Latest(file, keys, "internalField")
      /\ Latest(file, more, "dimensions") = Latest(file, keys, "dimensions")
  BY <1>1
<1>3. pts = PatchesSaid(file, keep, more)
  <2>1. PatchesSaid(file, keep, more) = PatchesSaid(file, keep, keys)
    BY PatchesSaidNext
  <2> QED
    BY <2>1 DEF FileFound
<1> HIDE DEF more
<1>4. ASSUME NEW s \in FileSlots PROVE fnd[s] = Says(file, keep, more, s)
  <2>1. CASE s = "object"
    <3>1. Says(file, keep, more, s) = WordAt(Latest(file, KeysIn(file, k, {}), "object"))
      BY <1>2, <2>1 DEF Says
    <3>2. fnd["object"] = WordAt(Latest(file, KeysIn(file, k, {}), "object"))
      BY DEF HeaderFound
    <3> QED
      BY <2>1, <3>1, <3>2
  <2>2. CASE s = "internal"
    <3>1. fnd[s] = Says(file, keep, keys, s)
      BY <2>2 DEF FileFound
    <3> QED
      BY <1>2, <2>2, <3>1 DEF Says
  <2>3. CASE s = "dimensions"
    <3>1. fnd[s] = Says(file, keep, keys, s)
      BY <2>3 DEF FileFound
    <3> QED
      BY <1>2, <2>3, <3>1 DEF Says
  <2> QED
    BY <2>1, <2>2, <2>3 DEF FileSlots
<1>5. FileFound(file, keep, fnd, pts, more, "none")
  BY <1>3, <1>4 DEF FileFound
<1> QED
  BY <1>5 DEF more

\* What a file says after one more boundary.
LEMMA BoundarySays ==
  ASSUME NEW file, NEW keep, NEW fnd, NEW pts, NEW keys, NEW k, Earlier(keys, k), k # 0, file[k] = "boundaryField",
         FileFound(file, keep, fnd, pts, keys, "patches"),
         pts = PatchesAt(file, keep, KeysIn(file, k, Tokens))
  PROVE  FileFound(file, keep, fnd, pts, keys \cup {k}, "none")
<1> DEFINE more == keys \cup {k}
<1>1. \A key : Latest(file, more, key) = IF file[k] = key THEN k ELSE Latest(file, keys, key)
  BY LatestNext
<1>2. /\ Latest(file, more, "FoamFile") = Latest(file, keys, "FoamFile")
      /\ Latest(file, more, "internalField") = Latest(file, keys, "internalField")
      /\ Latest(file, more, "dimensions") = Latest(file, keys, "dimensions")
      /\ Latest(file, more, "boundaryField") = k
  BY <1>1
<1> HIDE DEF more
<1>3. pts = PatchesSaid(file, keep, more)
  BY <1>2 DEF PatchesSaid
<1>4. ASSUME NEW s \in FileSlots PROVE fnd[s] = Says(file, keep, more, s)
  <2>1. fnd[s] = Says(file, keep, keys, s)
    BY DEF FileFound, FileSlots
  <2>2. Says(file, keep, more, s) = Says(file, keep, keys, s)
    BY <1>2 DEF Says, FileSlots
  <2> QED
    BY <2>1, <2>2
<1>5. FileFound(file, keep, fnd, pts, more, "none")
  BY <1>3, <1>4 DEF FileFound
<1> QED
  BY <1>5 DEF more

\* Behind a header, a boundary and a patch.
LEMMA HeaderDone ==
  ASSUME NEW file \in Seq(Tokens), NEW keep, NEW fnd, NEW pts, NEW o, NEW k \in 1 .. Len(file),
         HeaderAt(file, keep, o, k), file[k] = BraceClose,
         FileFound(file, keep, fnd, pts, FileBefore(file, o), "object"),
         HeaderFound(file, fnd, Before(file, o, k, {}), "none")
  PROVE  FileAt(file, keep, k + 1) /\ FileFound(file, keep, fnd, pts, FileBefore(file, k + 1), "none")
<1>1. o \in 1 .. Len(file) /\ file[o] = "FoamFile" /\ FileAt(file, keep, o) /\ Inside(file, o, k, {})
  BY DEF HeaderAt
<1>2. o # 0 /\ file[o] \in Plain /\ file[o] \in FileBlocks
  BY <1>1 DEF Plain, Ordinary, Keywords, FileBlocks
<1> DEFINE read == TRUE
<1>3. /\ EntryEnd(file, o, read) = k
      /\ KeysIn(file, o, {}) = Before(file, o, k, {})
      /\ Level(file, k + 1) = Level(file, o)
  BY <1>1, <1>2, InsideEnds
<1>4. ValidFileEntry(file, keep, o)
  BY <1>1, <1>3 DEF ValidFileEntry, ValidHeader, HeaderAt, Inside
<1>5. read \in BOOLEAN /\ (read <=> file[o] \in FileBlocks) /\ k # 0
  BY <1>2
<1>6. /\ FileAt(file, keep, k + 1)
      /\ FileBefore(file, k + 1) = FileBefore(file, o) \cup {o}
      /\ Earlier(FileBefore(file, o), o)
  <2> HIDE DEF read
  <2> QED
    BY <1>1, <1>3, <1>4, <1>5, FileOn
<1>7. FileFound(file, keep, fnd, pts, FileBefore(file, o) \cup {o}, "none")
  BY <1>1, <1>2, <1>3, <1>6, HeaderSays
<1> QED
  BY <1>6, <1>7

\* Behind the closing brace of a boundary the file goes on.
LEMMA BoundaryDone ==
  ASSUME NEW file \in Seq(Tokens), NEW keep, NEW fnd, NEW pts, NEW o, NEW k \in 1 .. Len(file),
         BoundaryAt(file, keep, o, k), file[k] = BraceClose,
         FileFound(file, keep, fnd, pts, FileBefore(file, o), "patches"),
         pts = PatchesAt(file, keep, Before(file, o, k, Tokens))
  PROVE  FileAt(file, keep, k + 1) /\ FileFound(file, keep, fnd, pts, FileBefore(file, k + 1), "none")
<1>1. o \in 1 .. Len(file) /\ file[o] = "boundaryField" /\ FileAt(file, keep, o) /\ Inside(file, o, k, Tokens)
  BY DEF BoundaryAt
<1>2. o # 0 /\ file[o] \in Plain /\ file[o] \in FileBlocks
  BY <1>1 DEF Plain, Ordinary, Keywords, FileBlocks
<1> DEFINE read == TRUE
<1>3. /\ EntryEnd(file, o, read) = k
      /\ KeysIn(file, o, Tokens) = Before(file, o, k, Tokens)
      /\ Level(file, k + 1) = Level(file, o)
  BY <1>1, <1>2, InsideEnds
<1>4. ValidFileEntry(file, keep, o)
  BY <1>1, <1>3 DEF ValidFileEntry, ValidBoundary, BoundaryAt, Inside
<1>5. read \in BOOLEAN /\ (read <=> file[o] \in FileBlocks) /\ k # 0
  BY <1>2
<1>6. /\ FileAt(file, keep, k + 1)
      /\ FileBefore(file, k + 1) = FileBefore(file, o) \cup {o}
      /\ Earlier(FileBefore(file, o), o)
  <2> HIDE DEF read
  <2> QED
    BY <1>1, <1>3, <1>4, <1>5, FileOn
<1>7. FileFound(file, keep, fnd, pts, FileBefore(file, o) \cup {o}, "none")
  BY <1>1, <1>2, <1>3, <1>6, BoundarySays
<1> QED
  BY <1>6, <1>7

\* Behind the closing brace of a patch its boundary goes on.
LEMMA PatchDone ==
  ASSUME NEW file \in Seq(Tokens), NEW keep, NEW b, NEW o, NEW k \in 1 .. Len(file),
         PatchAt(file, keep, b, o, k), file[k] = BraceClose
  PROVE  /\ BoundaryAt(file, keep, b, k + 1)
         /\ Before(file, b, k + 1, Tokens) = Before(file, b, o, Tokens) \cup {o}
         /\ Earlier(Before(file, b, o, Tokens), o)
         /\ KeysIn(file, o, {}) = Before(file, o, k, {})
<1>1. /\ o \in 1 .. Len(file) /\ file[o] \in Plain /\ Inside(file, o, k, {})
      /\ BoundaryAt(file, keep, b, o) /\ b \in 1 .. Len(file) /\ Inside(file, b, o, Tokens)
  BY DEF PatchAt, BoundaryAt
<1> DEFINE read == TRUE
<1>3. /\ EntryEnd(file, o, read) = k
      /\ KeysIn(file, o, {}) = Before(file, o, k, {})
      /\ Level(file, k + 1) = Level(file, o)
      /\ \A q \in o .. k + 1 : Level(file, o) <= Level(file, q)
  BY <1>1, InsideEnds
<1>4. ValidPatch(file, keep, o)
  BY <1>1, <1>3 DEF ValidPatch, PatchAt, Inside
<1>5. read \in BOOLEAN /\ (read <=> file[o] \in Tokens) /\ k # 0
  BY <1>1, TokenKinds
<1>6. /\ Inside(file, b, k + 1, Tokens)
      /\ Before(file, b, k + 1, Tokens) = Before(file, b, o, Tokens) \cup {o}
      /\ Earlier(Before(file, b, o, Tokens), o)
  <2> HIDE DEF read
  <2> QED
    BY <1>1, <1>3, <1>5, InsideOn
<1>7. BoundaryAt(file, keep, b, k + 1)
  BY <1>1, <1>4, <1>6 DEF BoundaryAt
<1> QED
  BY <1>3, <1>6, <1>7

-----------------------------------------------------------------------------
(***************************************************************************)
(* Sequences of goals that are joined.                                     *)
(***************************************************************************)
LEMMA SeqSame ==
  ASSUME NEW s, NEW t, IsSeq(s), IsSeq(t), Len(s) = Len(t), \A k \in 1 .. Len(s) : s[k] = t[k]
  PROVE  s = t
<1> DEFINE S == {s[k] : k \in 1 .. Len(s)}
           T == {t[k] : k \in 1 .. Len(t)}
<1>1. s \in Seq(S) /\ t \in Seq(T)
  BY DEF IsSeq
<1> HIDE DEF S, T
<1>2. s \in Seq(S \cup T) /\ t \in Seq(S \cup T)
  BY <1>1, SeqMonotonic
<1> QED
  BY <1>2, SeqEqual

\* The empty sequence joins nothing.
LEMMA JoinNone == ASSUME NEW s, IsSeq(s) PROVE <<>> \o s = s /\ s \o <<>> = s
<1>1. PICK S : S = {s[k] : k \in 1 .. Len(s)}
  OBVIOUS
<1>2. s \in Seq(S)
  BY <1>1 DEF IsSeq
<1> QED
  BY <1>2, ConcatEmptySeq

\* Joining is associative.
LEMMA JoinThree ==
  ASSUME NEW s, NEW t, NEW u, IsSeq(s), IsSeq(t), IsSeq(u)
  PROVE  (s \o t) \o u = s \o (t \o u) /\ IsSeq(s \o t)
<1> DEFINE S == {s[k] : k \in 1 .. Len(s)}
           T == {t[k] : k \in 1 .. Len(t)}
           U == {u[k] : k \in 1 .. Len(u)}
           A == S \cup T \cup U
<1>1. s \in Seq(S) /\ t \in Seq(T) /\ u \in Seq(U)
  BY DEF IsSeq
<1> HIDE DEF S, T, U
<1>2. s \in Seq(A) /\ t \in Seq(A) /\ u \in Seq(A)
  BY <1>1, SeqMonotonic
<1> HIDE DEF A
<1>3. (s \o t) \o u = s \o (t \o u)
  BY <1>2, ConcatAssociative
<1>4. s \o t \in Seq(A)
  BY <1>2, ConcatProperties
<1> QED
  BY <1>3, <1>4, SeqIs

\* Two and three goals are joined from one each.
LEMMA Pairs ==
  /\ \A a, b : <<a>> \o <<b>> = <<a, b>>
  /\ \A a, b, c : <<a>> \o (<<b>> \o <<c>>) = <<a, b, c>>
<1>1. ASSUME NEW a, NEW b PROVE <<a>> \o <<b>> = <<a, b>>
  <2> DEFINE s == <<a>>
             t == <<b>>
             r == s \o t
             p == <<a, b>>
  <2>1. /\ IsSeq(s) /\ Len(s) = 1 /\ s[1] = a
        /\ IsSeq(t) /\ Len(t) = 1 /\ t[1] = b
        /\ IsSeq(p) /\ Len(p) = 2 /\ p[1] = a /\ p[2] = b
    BY Tuples
  <2> HIDE DEF s, t, p
  <2>2. Joined(r, s, t)
    BY <2>1, ConcatFacts
  <2> HIDE DEF r
  <2>3. IsSeq(r) /\ Len(r) = 2 /\ r[1] = a /\ r[1 + 1] = b
    BY <2>1, <2>2 DEF Joined
  <2>4. \A k \in 1 .. 2 : k = 1 \/ k = 2
    OBVIOUS
  <2>5. r = p
    BY <2>1, <2>3, <2>4, SeqSame
  <2> QED
    BY <2>5 DEF r, p, s, t
<1>2. ASSUME NEW a, NEW b, NEW c PROVE <<a>> \o (<<b>> \o <<c>>) = <<a, b, c>>
  <2> DEFINE s == <<a>>
             t == <<b, c>>
             r == s \o t
             p == <<a, b, c>>
  <2>1. /\ IsSeq(s) /\ Len(s) = 1 /\ s[1] = a
        /\ IsSeq(t) /\ Len(t) = 2 /\ t[1] = b /\ t[2] = c
        /\ IsSeq(p) /\ Len(p) = 3 /\ p[1] = a /\ p[2] = b /\ p[3] = c
    BY Tuples
  <2>0. <<b>> \o <<c>> = t
    BY <1>1
  <2> HIDE DEF s, t, p
  <2>2. Joined(r, s, t)
    BY <2>1, ConcatFacts
  <2> HIDE DEF r
  <2>3. IsSeq(r) /\ Len(r) = 3 /\ r[1] = a /\ r[1 + 1] = b /\ r[1 + 2] = c
    BY <2>1, <2>2 DEF Joined
  <2>4. \A k \in 1 .. 3 : k = 1 \/ k = 2 \/ k = 3
    OBVIOUS
  <2>5. r = p
    BY <2>1, <2>3, <2>4, SeqSame
  <2> QED
    BY <2>0, <2>5 DEF r, p, s
<1> QED
  BY <1>1, <1>2

\* The first goal and the others.
LEMMA HeadJoined ==
  ASSUME NEW a, NEW r, IsSeq(r)
  PROVE  IsSeq(<<a>> \o r) /\ Head(<<a>> \o r) = a /\ Tail(<<a>> \o r) = r
<1> DEFINE s == <<a>>
           g == s \o r
<1>1. IsSeq(s) /\ Len(s) = 1 /\ s[1] = a
  BY Tuples
<1> HIDE DEF s
<1>2. Joined(g, s, r)
  BY <1>1, ConcatFacts
<1> HIDE DEF g
<1>3. IsSeq(g) /\ Len(g) = 1 + Len(r) /\ Len(r) \in Nat /\ g[1] = a /\ \A k \in 1 .. Len(r) : g[1 + k] = r[k]
  BY <1>1, <1>2 DEF Joined
<1>4. IsSeq(Tail(g)) /\ Head(g) = g[1] /\ Len(Tail(g)) = Len(g) - 1 /\ \A k \in 1 .. Len(g) - 1 : Tail(g)[k] = g[k + 1]
  BY <1>3, TailFacts
<1>5. PICK u : u = Tail(g)
  OBVIOUS
<1>6. Len(u) = Len(r) /\ IsSeq(u) /\ \A k \in 1 .. Len(u) : u[k] = r[k]
  <2>1. Len(u) = Len(r) /\ IsSeq(u)
    BY <1>3, <1>4, <1>5
  <2>2. ASSUME NEW k \in 1 .. Len(u) PROVE u[k] = r[k]
    <3>1. k + 1 = 1 + k /\ k \in 1 .. Len(r) /\ k \in 1 .. Len(g) - 1
      BY <1>3, <2>1
    <3> QED
      BY <1>3, <1>4, <1>5, <3>1
  <2> QED
    BY <2>1, <2>2
<1>7. u = r
  BY <1>6, SeqSame
<1> QED
  BY <1>3, <1>4, <1>5, <1>7 DEF g, s

\* What follows when the first goal is reached by way of others.
LEMMA GoalOne ==
  ASSUME NEW a, NEW r, IsSeq(r), goals = <<a>> \o r
  PROVE  /\ Rule = a.rule /\ Of = a.of /\ Head(goals) = a /\ Tail(goals) = r
         /\ Go(<<>>) => goals' = r
         /\ \A x : Go(<<x>>) => goals' = <<x>> \o r
         /\ \A x, y : Go(<<x, y>>) => goals' = <<x, y>> \o r
<1>1. Head(goals) = a /\ Tail(goals) = r
  BY HeadJoined
<1>2. <<>> \o r = r
  BY JoinNone
<1> QED
  BY <1>1, <1>2 DEF Go, Rule, Of

\* What is left of the goals when the first of two is replaced.
LEMMA GoalTwo ==
  ASSUME NEW a, NEW b, NEW r, IsSeq(r), goals = <<a, b>> \o r
  PROVE  /\ Rule = a.rule /\ Of = a.of /\ Head(goals) = a
         /\ Go(<<>>) => goals' = <<b>> \o r
         /\ \A x : Go(<<x>>) => goals' = <<x, b>> \o r
<1> DEFINE s == <<a>>
           t == <<b>>
           m == t \o r
<1>1. IsSeq(s) /\ IsSeq(t)
  BY Tuples
<1>0. s \o t = <<a, b>>
  BY Pairs
<1>2. (s \o t) \o r = s \o m /\ IsSeq(m)
  <2> HIDE DEF s, t
  <2>1. (s \o t) \o r = s \o (t \o r)
    BY <1>1, JoinThree
  <2>2. IsSeq(t \o r)
    <3>1. Joined(m, t, r)
      BY <1>1, ConcatFacts
    <3> QED
      BY <3>1 DEF Joined
  <2> QED
    BY <2>1, <2>2
<1>3. goals = <<a>> \o m
  BY <1>0, <1>2
<1> HIDE DEF m
<1>4. /\ Rule = a.rule /\ Of = a.of /\ Head(goals) = a /\ Tail(goals) = m
      /\ Go(<<>>) => goals' = m
      /\ \A x : Go(<<x>>) => goals' = <<x>> \o m
  BY <1>2, <1>3, GoalOne
<1>5. ASSUME NEW x PROVE <<x>> \o m = <<x, b>> \o r
  <2> DEFINE u == <<x>>
  <2>1. IsSeq(u)
    BY Tuples
  <2>3. u \o t = <<x, b>>
    BY Pairs
  <2> HIDE DEF u, t
  <2>2. (u \o t) \o r = u \o (t \o r)
    BY <1>1, <2>1, JoinThree
  <2> QED
    BY <2>2, <2>3 DEF m, u
<1> QED
  BY <1>4, <1>5 DEF m

-----------------------------------------------------------------------------
(***************************************************************************)
(* A token of an entry.                                                    *)
(***************************************************************************)
Slots == FileSlots \cup PatchSlots

\* Which kinds of values go where.
Fitting(kind, slot) ==
  \/ kind = "value" /\ slot \in {"internal", "value", "inlet"}
  \/ kind = "exponents" /\ slot = "dimensions"
  \/ kind = "word" /\ slot \in {"class", "object", "type"}
  \/ kind \in {"exact", "line"} /\ slot = "none"

EntryAt(kind, slot, i, rest) == /\ i \in 1 .. at - 1
                                /\ text[i] \in Plain
                                /\ Going(text, i, at)
                                /\ IsSeq(rest)
                                /\ Fitting(kind, slot)
                                /\ FoundOK

\* An entry has been read, and it is what it has to be.
Done(kind, slot, i, rest) ==
  /\ goals = rest
  /\ local = <<>>
  /\ Ended(text, i) /\ IsA(kind, text, full, i + 1, To(text, i, FALSE))
  /\ at = EntryEnd(text, i, FALSE) + 1
  /\ Level(text, at) = Level(text, i)
  /\ \A q \in i .. at : Level(text, i) <= Level(text, q)
  /\ Said(text, full, found, slot, i)

\* A step within an entry, and the one that ends it.
Stays(slot) == /\ UNCHANGED <<text, full, mode, patches>>
               /\ FoundOK'
               /\ \A s \in Slots \ {slot} : found'[s] = found[s]
Advances(kind, slot, i, rest) ==
  /\ Stays(slot)
  /\ (Stage(kind, slot, i, rest)' /\ Going(text, i, at)') \/ Done(kind, slot, i, rest)'

\* What is known of a token that is taken.
Token == /\ at \in 1 .. Len(text) /\ Peek = text[at] /\ Peek \in Tokens
         /\ text \in Seq(Tokens) /\ at \in Nat /\ Len(text) \in Nat
         /\ at' = at + 1 /\ text' = text /\ full' = full /\ mode' = mode
         /\ Level(text, at) \in Int /\ Level(text, at + 1) \in Int
         /\ Peek \in Openers => Level(text, at + 1) = Level(text, at) + 1
         /\ Peek \in Closers => Level(text, at + 1) = Level(text, at) - 1
         /\ Peek \notin Openers \cup Closers => Level(text, at + 1) = Level(text, at)

Stack == /\ open \in Seq(Openers) /\ Len(open) = Level(text, at)
         /\ Tracks(open, Peek) /\ open' = Track(open, Peek)
         /\ \A j \in 1 .. at : Level(text, j) \in Nat

\* A token that is taken moves the place and the delimiters.
LEMMA TokenStep ==
  ASSUME Lexed, Accepts, Peek # "end", TakeToken
  PROVE  Token /\ Stack
<1>1. /\ at \in 1 .. Len(text) /\ Peek = text[at] /\ Peek \in Tokens
      /\ at \in Nat /\ Len(text) \in Nat
  BY Taken
<1>2. text \in Seq(Tokens) /\ Nest(text, at, open)
  BY DEF Lexed
<1>3. open \in Seq(Openers) /\ Len(open) = Level(text, at) /\ Known(text, at)
  BY <1>2, NestParts
<1>4. Tracks(open, Peek)
  BY DEF Accepts, Lexes
<1>5. at' = at + 1 /\ text' = text /\ full' = full /\ mode' = mode /\ open' = Track(open, Peek)
  BY DEF TakeToken
<1>6. /\ Level(text, at) \in Int /\ Level(text, at + 1) \in Int
      /\ Peek \in Openers => Level(text, at + 1) = Level(text, at) + 1
      /\ Peek \in Closers => Level(text, at + 1) = Level(text, at) - 1
      /\ Peek \notin Openers \cup Closers => Level(text, at + 1) = Level(text, at)
  BY <1>1, <1>2, LevelStep
<1>7. Token
  BY <1>1, <1>2, <1>5, <1>6 DEF Token
<1>8. \A j \in 1 .. at : Level(text, j) \in Nat
  BY <1>3 DEF Known
<1>9. Stack
  BY <1>3, <1>4, <1>5, <1>8 DEF Stack
<1> QED
  BY <1>7, <1>9

\* A group or a line begins.
LEMMA LocalFirst ==
  ASSUME Token, Stack, Peek \in Openers, local' = <<Peek>>, NEW g, Level(text, g) = Level(text, at)
  PROVE  Local(g)'
<1>1. local' \in Seq(Openers) /\ Len(local') = 1 /\ local'[1] = Peek
  OBVIOUS
<1>2. Level(text', at') = Level(text', g) + Len(local')
  BY <1>1 DEF Token
<1>3. open \in Seq(Openers) /\ Tracks(open, Peek) /\ open' = Track(open, Peek) /\ Len(open) = Level(text, at)
  BY DEF Stack
<1>4. open'[Len(open) + 1] = Peek
  BY <1>3, TrackFacts
<1>5. \A d \in 1 .. Len(local') : local'[d] = open'[Level(text', g) + d]
  <2>1. \A d \in 1 .. 1 : d = 1
    OBVIOUS
  <2>2. open'[Level(text', g) + 1] = Peek
    BY <1>3, <1>4 DEF Token
  <2> QED
    BY <1>1, <2>1, <2>2
<1> QED
  BY <1>1, <1>2, <1>5 DEF Local

\* Where nothing is open, nothing has been opened from a place of the same level on.
LEMMA LocalNone ==
  ASSUME Token, local' = <<>>, NEW g, Level(text, g) = Level(text, at + 1)
  PROVE  Local(g)'
<1>1. local' \in Seq(Openers) /\ Len(local') = 0
  OBVIOUS
<1>2. Level(text', at') = Level(text', g) + Len(local')
  BY <1>1 DEF Token
<1>3. \A d \in 1 .. Len(local') : FALSE
  BY <1>1
<1> QED
  BY <1>1, <1>2, <1>3 DEF Local

\* And goes on.
LEMMA LocalOn ==
  ASSUME Token, Stack, NEW g \in 1 .. at, Local(g), Tracks(local, Peek), local' = Track(local, Peek)
  PROVE  Local(g)' /\ Level(text, at + 1) = Level(text, g) + Len(local') /\ Len(local') \in Nat
<1>1. /\ local \in Seq(Openers) /\ Len(local) \in Nat
      /\ Level(text, at) = Level(text, g) + Len(local)
      /\ \A d \in 1 .. Len(local) : local[d] = open[Level(text, g) + d]
  BY DEF Local
<1>2. /\ open \in Seq(Openers) /\ Len(open) \in Nat /\ Len(open) = Level(text, at)
      /\ Tracks(open, Peek) /\ open' = Track(open, Peek)
      /\ Level(text, g) \in Nat
  BY DEF Stack
<1>3. /\ local' \in Seq(Openers) /\ Len(local') \in Nat
      /\ Peek \in Openers => Len(local') = Len(local) + 1 /\ local'[Len(local) + 1] = Peek
      /\ Peek \in Closers => Len(local') = Len(local) - 1
      /\ Peek \notin Openers \cup Closers => local' = local
      /\ \A d \in 1 .. Len(local) : d <= Len(local') => local'[d] = local[d]
  <2>1. /\ Track(local, Peek) \in Seq(Openers)
        /\ Peek \in Openers => /\ Len(Track(local, Peek)) = Len(local) + 1
                              /\ Track(local, Peek)[Len(local) + 1] = Peek
        /\ Peek \in Closers => Len(Track(local, Peek)) = Len(local) - 1
        /\ Peek \notin Openers \cup Closers => Track(local, Peek) = local
        /\ \A d \in 1 .. Len(local) : d <= Len(Track(local, Peek)) => Track(local, Peek)[d] = local[d]
    BY <1>1, TrackFacts
  <2>2. local' = Track(local, Peek)
    BY <1>1
  <2>3. Len(local') \in Nat
    BY <2>1, <2>2
  <2> QED
    BY <2>1, <2>2, <2>3
<1>4. /\ open' \in Seq(Openers) /\ Len(open') \in Nat
      /\ Peek \in Openers => Len(open') = Len(open) + 1 /\ open'[Len(open) + 1] = Peek
      /\ Peek \in Closers => Len(open') = Len(open) - 1
      /\ Peek \notin Openers \cup Closers => open' = open
      /\ \A d \in 1 .. Len(open) : d <= Len(open') => open'[d] = open[d]
  <2>1. /\ Track(open, Peek) \in Seq(Openers)
        /\ Peek \in Openers => /\ Len(Track(open, Peek)) = Len(open) + 1
                              /\ Track(open, Peek)[Len(open) + 1] = Peek
        /\ Peek \in Closers => Len(Track(open, Peek)) = Len(open) - 1
        /\ Peek \notin Openers \cup Closers => Track(open, Peek) = open
        /\ \A d \in 1 .. Len(open) : d <= Len(Track(open, Peek)) => Track(open, Peek)[d] = open[d]
    BY <1>2, TrackFacts
  <2>2. open' = Track(open, Peek)
    BY <1>2
  <2>3. Len(open') \in Nat
    BY <2>1, <2>2
  <2> QED
    BY <2>1, <2>2, <2>3
<1>5. Peek \in Openers => Peek \notin Closers
  BY TokenNames
<1>6. Level(text, at + 1) = Level(text, g) + Len(local')
  BY <1>1, <1>2, <1>3, <1>5 DEF Token
<1>7. ASSUME NEW d \in 1 .. Len(local') PROVE local'[d] = open'[Level(text, g) + d]
  <2>1. CASE d <= Len(local)
    <3>1. d \in 1 .. Len(local) /\ Level(text, g) + d \in 1 .. Len(open) /\ Level(text, g) + d <= Len(open')
      BY <1>1, <1>2, <1>3, <1>4, <2>1
    <3>2. local'[d] = local[d] /\ open'[Level(text, g) + d] = open[Level(text, g) + d]
      BY <1>3, <1>4, <3>1
    <3> QED
      BY <1>1, <3>1, <3>2
  <2>2. CASE d > Len(local)
    <3>1. Peek \in Openers /\ d = Len(local) + 1
      BY <1>1, <1>3, <2>2
    <3>2. Level(text, g) + d = Len(open) + 1
      BY <1>1, <1>2, <3>1
    <3> QED
      BY <1>3, <1>4, <3>1, <3>2
  <2> QED
    BY <1>1, <1>3, <2>1, <2>2
<1>8. Level(text', at') = Level(text', g) + Len(local') /\ text' = text
  BY <1>6 DEF Token
<1>9. Local(g)'
  BY <1>3, <1>7, <1>8 DEF Local
<1> QED
  BY <1>3, <1>6, <1>9

\* What the lexer has a token for a group or line has, too.
LEMMA LocalTracks ==
  ASSUME MaxNesting \in Nat, Lexed, NEW g \in 1 .. at, Local(g), Lexes(open, Peek), Peek \in Closers => local # <<>>
  PROVE  Tracks(local, Peek)
<1>1. /\ local \in Seq(Openers) /\ Len(local) \in Nat
      /\ Level(text, at) = Level(text, g) + Len(local)
      /\ \A d \in 1 .. Len(local) : local[d] = open[Level(text, g) + d]
  BY DEF Local
<1>2. open \in Seq(Openers) /\ Len(open) = Level(text, at) /\ Known(text, at) /\ Tracks(open, Peek)
  BY NestParts DEF Lexed, Lexes
<1>3. Level(text, g) \in Nat /\ MaxNesting \in Nat
  <2>1. at \in Nat
    BY AtFacts
  <2>2. Level(text, g) \in 0 .. MaxNesting
    BY <1>2 DEF Known
  <2> QED
    BY <2>2
<1>4. ASSUME Peek \in Openers PROVE Len(local) < MaxNesting
  <2>1. Len(open) < MaxNesting
    BY <1>2, <1>4 DEF Tracks
  <2> QED
    BY <1>1, <1>2, <1>3, <2>1
<1>5. ASSUME Peek \in Closers PROVE local # <<>> /\ <<local[Len(local)], Peek>> \in Matching
  <2>1. local # <<>> /\ Len(local) \in 1 .. Len(local)
    BY <1>1, <1>5
  <2>2. local[Len(local)] = open[Len(open)]
    BY <1>1, <1>2, <2>1
  <2> QED
    BY <1>2, <1>5, <2>1, <2>2 DEF Tracks
<1> QED
  BY <1>4, <1>5 DEF Tracks

-----------------------------------------------------------------------------
(***************************************************************************)
(* From one stage of an entry to the next.                                 *)
(***************************************************************************)
Sure == MaxNesting \in Nat /\ Lexed

\* What a step leaves of what was found.
LEMMA StaysSame ==
  ASSUME Token, FoundOK, UNCHANGED <<found, patches>>, NEW slot
  PROVE  Stays(slot)
BY DEF Token, FoundOK, Stays

\* A value that is kept is found, and nothing else changes.
LEMMA StaysKept ==
  ASSUME Token, FoundOK, NEW slot \in Slots, NEW value, Keep(slot, value), UNCHANGED patches
  PROVE  Stays(slot) /\ found'[slot] = value
<1>1. found = [s \in Slots |-> found[s]] /\ found' = [found EXCEPT ![slot] = value]
  BY DEF FoundOK, Slots, Keep
<1>2. found' = [s \in Slots |-> IF s = slot THEN value ELSE found[s]]
  BY <1>1
<1>3. found' = [s \in Slots |-> found'[s]] /\ found'[slot] = value /\ \A s \in Slots \ {slot} : found'[s] = found[s]
  BY <1>2
<1>4. FoundOK'
  BY <1>3 DEF FoundOK, Slots
<1> QED
  BY <1>3, <1>4 DEF Token, Stays

\* An entry goes on behind a token that does not end it.
LEMMA GoingOn ==
  ASSUME Token, NEW i \in 1 .. at - 1, Going(text, i, at), Level(text, at + 1) >= Level(text, i),
         Peek # Semicolon \/ Level(text, at) # Level(text, i)
  PROVE  Going(text, i, at)'
<1>1. /\ text \in Seq(Tokens) /\ i \in 1 .. Len(text) /\ at \in i + 1 .. Len(text) /\ Peek = text[at]
      /\ text' = text /\ at' = at + 1
  BY DEF Token
<1>2. Going(text, i, at + 1)
  BY <1>1, GoesOn
<1> QED
  BY <1>1, <1>2

\* Only the semicolon is left.
LEMMA EndingNext ==
  ASSUME NEW kind, NEW slot, NEW i, NEW rest, EntryAt(kind, slot, i, rest), Token, Stays(slot),
         goals' = <<Expect(Semicolon)>> \o rest, local' = <<>>, ~Block(text, i),
         Level(text, at + 1) = Level(text, i), Peek # Semicolon,
         kind # "line", IsA(kind, text, full, i + 1, at),
         kind = "value" => text[i + 1] \in {"uniform", "nonuniform"},
         IF kind = "exponents" THEN found'["dimensions"] = Value("exponents", i + 2, at - i - 2)
         ELSE Said(text, full, found', slot, i)
  PROVE  Advances(kind, slot, i, rest)
<1>1. i \in 1 .. at - 1 /\ Going(text, i, at) /\ i \in Nat
  BY DEF EntryAt
<1>2. at \in Nat /\ at' = at + 1 /\ text' = text /\ full' = full /\ Level(text, at + 1) \in Int
  BY DEF Token
<1>3. at' > i + 1 /\ at' - 1 = at /\ at' - i - 3 = at - i - 2
  BY <1>1, <1>2
<1>4. Going(text, i, at)'
  BY <1>1, <1>2, GoingOn
<1>5. IsA(kind, text', full', i + 1, at' - 1) /\ ~Block(text', i) /\ Level(text', at') = Level(text', i)
  BY <1>2, <1>3
<1>6. IF kind = "exponents" THEN found'["dimensions"] = Value("exponents", i + 2, at' - i - 3)
      ELSE Said(text', full', found', slot, i)
  BY <1>2, <1>3
<1>7. Ending(kind, slot, i, rest)'
  BY <1>2, <1>3, <1>5, <1>6 DEF Ending
<1> QED
  BY <1>4, <1>7 DEF Advances, Stage

\* The place behind the key.
LEMMA AtFirst ==
  ASSUME NEW kind, NEW slot, NEW i, NEW rest, EntryAt(kind, slot, i, rest), Token, at = i + 1
  PROVE  /\ i \in 1 .. Len(text) /\ i \in Nat /\ i # 0
         /\ Level(text, i) \in Int /\ Level(text, i + 1) = Level(text, i)
         /\ text[i + 1] = Peek
         /\ Block(text, i) <=> Peek = BraceOpen
<1>1. i \in 1 .. Len(text) /\ i \in Nat /\ i # 0 /\ text[i] \in Plain /\ text \in Seq(Tokens)
  BY DEF EntryAt, Token
<1>2. Level(text, i) \in Int /\ Level(text, i + 1) = Level(text, i)
  BY <1>1, GoingStarts, LevelType
<1>3. text[i + 1] = Peek /\ i + 1 <= Len(text)
  BY DEF Token
<1> QED
  BY <1>1, <1>2, <1>3 DEF Block, TokenAt

\* A group begins.
LEMMA GroupBegins ==
  ASSUME Token, Stack, Peek \in Openers, local' = <<Peek>>, NEW g, g = at
  PROVE  InGroup(g)'
<1>1. Local(g)'
  BY LocalFirst
<1>2. /\ g \in Nat /\ at' = at + 1 /\ text' = text /\ Peek = text[at]
      /\ Level(text, g) \in Int /\ Level(text, g + 1) = Level(text, g) + 1
  BY DEF Token
<1>3. \A q \in g + 1 .. g + 1 : q = g + 1
  BY <1>2
<1>4. g \in 1 .. at' - 1 /\ text'[g] \in Openers
  BY <1>2 DEF Token
<1>5. \A q \in g + 1 .. at' : Level(text', q) > Level(text', g)
  BY <1>2, <1>3
<1> QED
  BY <1>1, <1>4, <1>5 DEF InGroup

\* And goes on, or ends at the delimiter that closes its first.
LEMMA GroupOn ==
  ASSUME Token, Stack, NEW g, InGroup(g), Tracks(local, Peek), local' = Track(local, Peek)
  PROVE  /\ local' # <<>> => InGroup(g)'
         /\ local' = <<>> => /\ Partner(text, g) = at
                             /\ Level(text, at + 1) = Level(text, g)
                             /\ Peek \in Closers
         /\ Level(text, at + 1) >= Level(text, g)
         /\ Level(text, at) > Level(text, g)
         /\ Level(text, g) \in Int /\ g \in Nat
<1>1. /\ g \in 1 .. at - 1 /\ text[g] \in Openers /\ Local(g)
      /\ \A q \in g + 1 .. at : Level(text, q) > Level(text, g)
  BY DEF InGroup
<1>2. at \in Nat /\ at' = at + 1 /\ text' = text /\ at \in 1 .. Len(text) /\ text \in Seq(Tokens)
  BY DEF Token
<1>3. g \in 1 .. at /\ g \in Nat /\ at \in g + 1 .. at /\ at \in g + 1 .. Len(text)
  BY <1>1, <1>2
<1>4. Level(text, g) \in Nat
  BY <1>3 DEF Stack
<1>5. Local(g)' /\ Level(text, at + 1) = Level(text, g) + Len(local') /\ Len(local') \in Nat
  BY <1>1, <1>3, LocalOn
<1>6. Level(text, at) > Level(text, g) /\ Level(text, at) \in Int
  BY <1>1, <1>3 DEF Token
<1>7. ASSUME local' # <<>> PROVE InGroup(g)'
  <2>1. Len(local') > 0
    BY <1>5, <1>7 DEF Local
  <2>2. Level(text, at + 1) > Level(text, g)
    BY <1>4, <1>5, <2>1
  <2>3. \A q \in g + 1 .. at + 1 : q \in g + 1 .. at \/ q = at + 1
    BY <1>2, <1>3
  <2>4. \A q \in g + 1 .. at + 1 : Level(text, q) > Level(text, g)
    BY <1>1, <2>2, <2>3
  <2>5. g \in 1 .. at' - 1
    BY <1>2, <1>3
  <2> QED
    BY <1>1, <1>2, <1>5, <2>4, <2>5 DEF InGroup
<1>8. ASSUME local' = <<>>
      PROVE  Partner(text, g) = at /\ Level(text, at + 1) = Level(text, g) /\ Peek \in Closers
  <2>1. Len(local') = 0
    BY <1>8
  <2>2. Level(text, at + 1) = Level(text, g)
    BY <1>4, <1>5, <2>1
  <2>3. Peek \in Closers
    BY <1>4, <1>6, <2>2 DEF Token
  <2>4. \A j \in g + 1 .. at - 1 : Level(text, j + 1) # Level(text, g)
    <3> SUFFICES ASSUME NEW j \in g + 1 .. at - 1 PROVE Level(text, j + 1) # Level(text, g)
      OBVIOUS
    <3>1. j + 1 \in g + 1 .. at
      BY <1>2, <1>3
    <3>2. Level(text, j + 1) > Level(text, g)
      BY <1>1, <3>1
    <3> QED
      BY <1>4, <3>2
  <2>5. Partner(text, g) = at
    BY <1>2, <1>3, <2>2, <2>4, PartnerIs
  <2> QED
    BY <2>2, <2>3, <2>5
<1>9. Level(text, at + 1) >= Level(text, g)
  BY <1>4, <1>5
<1> QED
  BY <1>3, <1>4, <1>6, <1>7, <1>8, <1>9

-----------------------------------------------------------------------------
\* Of the rules of an entry only the optional semicolon can see the end of the file.
EntryRules == {"scalar", "exponents", "value", "uniform", "list", "count", "opener", "number",
               "exact", "line", "group", "rest"}

\* Of the rules of an entry those that are not optional need a usable token.
LEMMA NotEnd ==
  ASSUME Accepts, Rule \in EntryRules \/ (Rule = "expect" /\ Of \in Structural)
  PROVE  Peek # "end" /\ Peek \in Usable
<1>1. Peek \in Usable
  BY DEF Accepts
<1>2. ASSUME Rule \in EntryRules PROVE Usable \subseteq Tokens
  <2>1. BracketClose \in Tokens /\ ParenOpen \in Tokens /\ Numbers \subseteq Tokens
    BY TokenKinds, TokenNames
  <2>2. CASE Rule = "scalar"
    BY <2>2, UsableFacts, TokenKinds
  <2>3. CASE Rule = "exponents"
    BY <2>1, <2>3, UsableFacts
  <2>4. CASE Rule = "value"
    BY <2>4, UsableFacts, TokenKinds
  <2>5. CASE Rule = "uniform"
    BY <2>5, UsableFacts, TokenKinds
  <2>6. CASE Rule = "list" \/ Rule = "count"
    BY <2>6, UsableFacts, TokenKinds
  <2>7. CASE Rule = "opener"
    BY <2>1, <2>7, UsableFacts
  <2>8. CASE Rule = "number"
    BY <2>8, UsableFacts, TokenKinds
  <2>9. CASE Rule = "exact" \/ Rule = "line"
    BY <2>9, UsableFacts, TokenKinds
  <2>10. CASE Rule = "group"
    BY <2>10, UsableFacts
  <2>11. CASE Rule = "rest"
    BY <2>11, UsableFacts
  <2> QED
    BY <1>2, <2>2, <2>3, <2>4, <2>5, <2>6, <2>7, <2>8, <2>9, <2>10, <2>11 DEF EntryRules
<1>3. ASSUME Rule = "expect", Of \in Structural PROVE Usable \subseteq Tokens
  BY <1>3, UsableFacts, TokenKinds
<1>4. Usable \subseteq Tokens
  BY <1>2, <1>3
<1> QED
  BY <1>1, <1>4, TokenKinds

\* The first token of an entry that is skipped exactly.
LEMMA ExactBegins ==
  ASSUME Sure, NEW slot, NEW i, NEW rest, EntryAt("exact", slot, i, rest),
         Started("exact", slot, i, rest), SkipFirstOfExact
  PROVE  Advances("exact", slot, i, rest)
<1> USE DEF Sure
<1>1. goals = <<Goal("exact")>> \o rest /\ at = i + 1 /\ IsSeq(rest) /\ slot = "none" /\ FoundOK
      /\ i \in 1 .. at - 1 /\ Going(text, i, at)
  BY DEF Started, StartGoals, EntryAt, Fitting
<1>2. /\ Go(<<>>) => goals' = rest
      /\ \A x : Go(<<x>>) => goals' = <<x>> \o rest
      /\ \A x, y : Go(<<x, y>>) => goals' = <<x, y>> \o rest
  BY <1>1, GoalOne
<1>3. Accepts /\ Rule = "exact" /\ TakeToken /\ UNCHANGED <<found, patches>>
  BY DEF SkipFirstOfExact, Reading
<1>4. Peek # "end" /\ Peek \in Plain \cup Openers
  BY <1>3, NotEnd, UsableFacts DEF EntryRules
<1>5. Token /\ Stack
  BY <1>3, <1>4, TokenStep
<1>6. Stays(slot)
  BY <1>1, <1>3, <1>5, StaysSame
<1>7. /\ i \in Nat /\ Level(text, i) \in Int /\ Level(text, i + 1) = Level(text, i)
      /\ text[i + 1] = Peek /\ (Block(text, i) <=> Peek = BraceOpen)
  BY <1>1, <1>5, AtFirst
<1>8. Peek # Semicolon
  BY <1>4, TokenKinds, TokenNames DEF Structural
<1>9. CASE Peek \in Plain
  <2>1. Peek \notin Openers /\ Peek \notin Closers
    BY <1>9, TokenKinds DEF Structural
  <2>2. Go(<<Expect(Semicolon)>>) /\ local' = local
    BY <2>1 DEF SkipFirstOfExact
  <2>3. goals' = <<Expect(Semicolon)>> \o rest /\ local' = <<>>
    BY <1>2, <2>2 DEF Started
  <2>4. ~Block(text, i) /\ Level(text, at + 1) = Level(text, i)
    BY <1>1, <1>5, <1>7, <2>1, TokenNames DEF Token
  <2>5. IsA("exact", text, full, i + 1, at)
    BY <1>1, <1>7, <1>9 DEF IsA, OneOrGroup
  <2>6. Said(text, full, found', slot, i)
    BY <1>1 DEF Said
  <2> QED
    BY <1>5, <1>6, <1>8, <2>3, <2>4, <2>5, <2>6, EndingNext
<1>10. CASE Peek \in Openers
  <2>1. Peek \notin Plain
    BY <1>10, TokenKinds DEF Structural
  <2>2. Go(<<Goal("group"), IF Peek = BraceOpen THEN Goal("semicolon?") ELSE Expect(Semicolon)>>)
        /\ local' = <<Peek>>
    BY <2>1 DEF SkipFirstOfExact
  <2>3. goals' = <<Goal("group"), IF Peek = BraceOpen THEN Goal("semicolon?") ELSE Expect(Semicolon)>> \o rest
    BY <1>2, <2>2
  <2> DEFINE g == i + 1
  <2>4. InGroup(g)'
    <3>1. g = at
      BY <1>1
    <3> HIDE DEF g
    <3> QED
      BY <1>5, <1>10, <2>2, <3>1, GroupBegins
  <2>5. Going(text, i, at)'
    BY <1>1, <1>5, <1>7, <1>8, <1>10, GoingOn DEF Token
  <2>6. text' = text
    BY <1>5 DEF Token
  <2>7. CASE Peek = BraceOpen
    <3>1. goals' = <<Goal("group"), Goal("semicolon?")>> \o rest
      BY <2>3, <2>7
    <3>2. Bracing("exact", slot, i, rest)'
      BY <1>7, <2>4, <2>6, <2>7, <3>1 DEF Bracing
    <3> QED
      BY <1>6, <2>5, <3>2 DEF Advances, Stage
  <2>8. CASE Peek # BraceOpen
    <3>1. goals' = <<Goal("group"), Expect(Semicolon)>> \o rest
      BY <2>3, <2>8
    <3>2. Grouped("exact", slot, i, rest)'
      BY <1>7, <2>4, <2>6, <2>8, <3>1 DEF Grouped
    <3> QED
      BY <1>6, <2>5, <3>2 DEF Advances, Stage
  <2> QED
    BY <2>7, <2>8
<1> QED
  BY <1>4, <1>9, <1>10

-----------------------------------------------------------------------------
\* The first token of an entry that is skipped up to a semicolon.
LEMMA LineBegins ==
  ASSUME Sure, NEW slot, NEW i, NEW rest, EntryAt("line", slot, i, rest),
         Started("line", slot, i, rest), SkipFirstOfLine
  PROVE  Advances("line", slot, i, rest)
<1> USE DEF Sure
<1>1. goals = <<Goal("line")>> \o rest /\ at = i + 1 /\ IsSeq(rest) /\ slot = "none" /\ FoundOK
      /\ i \in 1 .. at - 1 /\ Going(text, i, at)
  BY DEF Started, StartGoals, EntryAt, Fitting
<1>2. /\ \A x : Go(<<x>>) => goals' = <<x>> \o rest
      /\ \A x, y : Go(<<x, y>>) => goals' = <<x, y>> \o rest
  BY <1>1, GoalOne
<1>3. Accepts /\ Rule = "line" /\ TakeToken /\ UNCHANGED <<found, patches>>
      /\ Go(IF Peek = BraceOpen THEN <<Goal("group"), Goal("semicolon?")>> ELSE <<Goal("rest")>>)
      /\ local' = Track(<<>>, Peek)
  BY DEF SkipFirstOfLine, Reading
<1>4. Peek # "end" /\ Peek \in Plain \cup Openers
  BY <1>3, NotEnd, UsableFacts DEF EntryRules
<1>5. Token /\ Stack
  BY <1>3, <1>4, TokenStep
<1>6. Stays(slot)
  BY <1>1, <1>3, <1>5, StaysSame
<1>7. /\ i \in Nat /\ Level(text, i) \in Int /\ Level(text, i + 1) = Level(text, i)
      /\ text[i + 1] = Peek /\ (Block(text, i) <=> Peek = BraceOpen)
  BY <1>1, <1>5, AtFirst
<1>8. Peek # Semicolon /\ text' = text /\ at' = at + 1
  BY <1>4, <1>5, TokenKinds, TokenNames DEF Structural, Token
<1>9. Level(text, at + 1) >= Level(text, i)
  <2>1. Peek \notin Closers
    BY <1>4, TokenKinds, TokenNames DEF Structural
  <2> QED
    BY <1>1, <1>5, <1>7, <2>1 DEF Token
<1>10. Going(text, i, at)'
  BY <1>1, <1>5, <1>8, <1>9, GoingOn
<1>11. Peek \in Openers => local' = <<Peek>>
  BY <1>3, <1>4, FirstTrack
<1>12. CASE Peek = BraceOpen
  <2>1. goals' = <<Goal("group"), Goal("semicolon?")>> \o rest
    BY <1>2, <1>3, <1>12
  <2> DEFINE g == i + 1
  <2>2. InGroup(g)'
    <3>1. g = at /\ Peek \in Openers
      BY <1>1, <1>12, TokenNames
    <3> HIDE DEF g
    <3> QED
      BY <1>5, <1>11, <3>1, GroupBegins
  <2>3. Bracing("line", slot, i, rest)'
    BY <1>7, <1>8, <1>12, <2>1, <2>2 DEF Bracing
  <2> QED
    BY <1>6, <1>10, <2>3 DEF Advances, Stage
<1>13. CASE Peek # BraceOpen
  <2>1. goals' = <<Goal("rest")>> \o rest
    BY <1>2, <1>3, <1>13
  <2>2. Local(i)'
    <3>1. CASE Peek \in Openers
      BY <1>1, <1>5, <1>7, <1>11, <3>1, LocalFirst
    <3>2. CASE Peek \notin Openers
      <4>1. Peek \notin Closers
        BY <1>4, <3>2, TokenKinds DEF Structural
      <4>2. local' = <<>>
        BY <1>3, <3>2, <4>1 DEF Track
      <4>3. Level(text, i) = Level(text, at + 1)
        BY <1>1, <1>5, <1>7, <3>2, <4>1 DEF Token
      <4> QED
        BY <1>5, <4>2, <4>3, LocalNone
    <3> QED
      BY <3>1, <3>2
  <2>3. at' > i + 1
    BY <1>1, <1>7, <1>8
  <2>4. Lining("line", slot, i, rest)'
    BY <1>4, <1>7, <1>8, <1>13, <2>1, <2>2, <2>3 DEF Lining
  <2> QED
    BY <1>6, <1>10, <2>4 DEF Advances, Stage
<1> QED
  BY <1>12, <1>13

\* A word.
LEMMA WordTaken ==
  ASSUME Sure, NEW slot, NEW i, NEW rest, EntryAt("word", slot, i, rest),
         Started("word", slot, i, rest), ReadScalar
  PROVE  Advances("word", slot, i, rest)
<1> USE DEF Sure
<1>1. goals = <<GoalOf("scalar", slot), Expect(Semicolon)>> \o rest /\ at = i + 1 /\ IsSeq(rest)
      /\ slot \in {"class", "object", "type"} /\ FoundOK /\ local = <<>>
      /\ i \in 1 .. at - 1 /\ Going(text, i, at)
  BY DEF Started, StartGoals, EntryAt, Fitting
<1>2. Of = slot /\ (Go(<<>>) => goals' = <<Expect(Semicolon)>> \o rest)
  BY <1>1, GoalTwo, Literals
<1>3. Accepts /\ Rule = "scalar" /\ TakeToken /\ UNCHANGED <<local, patches>> /\ Go(<<>>)
      /\ IF Of = "class" THEN UNCHANGED found ELSE Keep(Of, Value("word", at, 0))
  BY DEF ReadScalar, Reading
<1>4. Peek # "end" /\ Peek \in Ordinary /\ Peek \in Plain
  BY <1>3, NotEnd, UsableFacts DEF EntryRules, Plain
<1>5. Token /\ Stack
  BY <1>3, <1>4, TokenStep
<1>6. /\ i \in Nat /\ i # 0 /\ Level(text, i) \in Int /\ Level(text, i + 1) = Level(text, i)
      /\ text[i + 1] = Peek /\ (Block(text, i) <=> Peek = BraceOpen)
  BY <1>1, <1>5, AtFirst
<1>7. Peek \notin Openers \cup Closers /\ Peek # Semicolon /\ Peek # BraceOpen
  BY <1>4, TokenKinds, TokenNames DEF Structural
<1>8. Stays(slot) /\ Said(text, full, found', slot, i)
  <2>1. CASE slot = "class"
    BY <1>1, <1>2, <1>3, <1>5, <2>1, StaysSame DEF Said
  <2>2. CASE slot # "class"
    <3>1. slot \in Slots
      BY <1>1, <2>2 DEF Slots, FileSlots, PatchSlots
    <3>2. Keep(slot, Value("word", at, 0))
      BY <1>2, <1>3, <2>2
    <3>3. Stays(slot) /\ found'[slot] = Value("word", at, 0)
      BY <1>1, <1>3, <1>5, <3>1, <3>2, StaysKept
    <3>4. SaysAt(text, full, slot, i) = Value("word", at, 0)
      BY <1>1, <1>6, <2>2 DEF SaysAt, WordAt
    <3> QED
      BY <3>3, <3>4 DEF Said
  <2> QED
    BY <2>1, <2>2
<1>9. goals' = <<Expect(Semicolon)>> \o rest /\ local' = <<>>
  BY <1>1, <1>2, <1>3
<1>10. ~Block(text, i) /\ Level(text, at + 1) = Level(text, i)
  BY <1>1, <1>5, <1>6, <1>7 DEF Token
<1>11. IsA("word", text, full, i + 1, at)
  BY <1>1, <1>4, <1>6 DEF IsA, Word
<1> QED
  BY <1>5, <1>7, <1>8, <1>9, <1>10, <1>11, EndingNext

\* The first token of a field value.
LEMMA ValueBegins ==
  ASSUME Sure, NEW slot, NEW i, NEW rest, EntryAt("value", slot, i, rest),
         Started("value", slot, i, rest), ReadValue
  PROVE  Advances("value", slot, i, rest)
<1> USE DEF Sure
<1>1. goals = <<GoalOf("value", slot)>> \o rest /\ at = i + 1 /\ IsSeq(rest)
      /\ slot \in {"internal", "value", "inlet"} /\ FoundOK /\ local = <<>>
      /\ i \in 1 .. at - 1 /\ Going(text, i, at)
  BY DEF Started, StartGoals, EntryAt, Fitting
<1>2. /\ Of = slot
      /\ \A x : Go(<<x>>) => goals' = <<x>> \o rest
      /\ \A x, y : Go(<<x, y>>) => goals' = <<x, y>> \o rest
  <2>1. /\ Of = GoalOf("value", slot).of
        /\ \A x : Go(<<x>>) => goals' = <<x>> \o rest
        /\ \A x, y : Go(<<x, y>>) => goals' = <<x, y>> \o rest
    BY <1>1, GoalOne
  <2> QED
    BY <2>1, Literals
<1>3. Accepts /\ Rule = "value" /\ TakeToken /\ UNCHANGED <<local, patches>>
  BY DEF ReadValue, Reading
<1>4. Peek # "end" /\ Peek \in Plain
  BY <1>3, NotEnd, UsableFacts DEF EntryRules
<1>5. Token /\ Stack
  BY <1>3, <1>4, TokenStep
<1>6. /\ i \in Nat /\ i # 0 /\ Level(text, i) \in Int /\ Level(text, i + 1) = Level(text, i)
      /\ text[i + 1] = Peek /\ (Block(text, i) <=> Peek = BraceOpen)
  BY <1>1, <1>5, AtFirst
<1>7. Peek \notin Openers \cup Closers /\ Peek # Semicolon /\ Peek # BraceOpen
  BY <1>4, TokenKinds, TokenNames DEF Structural
<1>8. slot \in Slots /\ slot # "none" /\ slot # "class"
  BY <1>1 DEF Slots, FileSlots, PatchSlots
<1>9. text' = text /\ full' = full /\ at' = at + 1 /\ at' = i + 2 /\ Level(text, at + 1) = Level(text, i)
  BY <1>1, <1>5, <1>6, <1>7 DEF Token
<1>10. Going(text, i, at)'
  BY <1>1, <1>5, <1>6, <1>7, <1>9, GoingOn
<1>11. SaysAt(text, full, slot, i) = ValueAt(text, full, i)
  BY <1>1 DEF SaysAt
<1>12. CASE Peek = "uniform"
  <2>1. Go(<<Goal("uniform"), Expect(Semicolon)>>) /\ Keep(Of, Value("uniform", at + 1, 0))
    BY <1>12 DEF ReadValue
  <2>2. Stays(slot) /\ found'[slot] = Value("uniform", at + 1, 0)
    BY <1>1, <1>2, <1>3, <1>5, <1>8, <2>1, StaysKept
  <2>3. ValueAt(text, full, i) = Value("uniform", at + 1, 0)
    BY <1>1, <1>6, <1>12 DEF ValueAt
  <2>4. Said(text, full, found, slot, i)'
    BY <1>9, <1>11, <2>2, <2>3 DEF Said
  <2>5. UniformNext("value", slot, i, rest)'
    BY <1>1, <1>2, <1>3, <1>6, <1>9, <1>12, <2>1, <2>4 DEF UniformNext
  <2> QED
    BY <1>10, <2>2, <2>5 DEF Advances, Stage
<1>13. CASE Peek = "nonuniform"
  <2>1. Go(<<GoalOf("list", Of)>>) /\ UNCHANGED found
    BY <1>13 DEF ReadValue
  <2>2. Stays(slot)
    BY <1>1, <1>3, <1>5, <2>1, StaysSame
  <2>3. Listing("value", slot, i, rest)'
    BY <1>1, <1>2, <1>3, <1>6, <1>9, <1>13, <2>1 DEF Listing
  <2> QED
    BY <1>10, <2>2, <2>3 DEF Advances, Stage
<1>14. CASE Peek \notin {"uniform", "nonuniform"}
  <2>1. Go(<<Goal("rest")>>) /\ Keep(Of, Value("other", at, 0))
    BY <1>14 DEF ReadValue
  <2>2. Stays(slot) /\ found'[slot] = Value("other", at, 0)
    BY <1>1, <1>2, <1>3, <1>5, <1>8, <2>1, StaysKept
  <2>3. ValueAt(text, full, i) = Value("other", at, 0)
    BY <1>1, <1>6, <1>14 DEF ValueAt
  <2>4. Said(text, full, found, slot, i)'
    BY <1>9, <1>11, <2>2, <2>3 DEF Said
  <2>5. Local(i)'
    BY <1>1, <1>3, <1>5, <1>9, LocalNone
  <2>6. Lining("value", slot, i, rest)'
    BY <1>1, <1>2, <1>3, <1>4, <1>6, <1>7, <1>9, <1>14, <2>1, <2>4, <2>5 DEF Lining
  <2> QED
    BY <1>10, <2>2, <2>6 DEF Advances, Stage
<1> QED
  BY <1>12, <1>13, <1>14

-----------------------------------------------------------------------------
\* The opening bracket of the exponents.
LEMMA ExponentsBegin ==
  ASSUME Sure, NEW slot, NEW i, NEW rest, EntryAt("exponents", slot, i, rest),
         Started("exponents", slot, i, rest), ReadExpected
  PROVE  Advances("exponents", slot, i, rest)
<1> USE DEF Sure
<1>1. goals = <<Expect(BracketOpen), GoalOf("exponents", 0)>> \o rest /\ at = i + 1 /\ IsSeq(rest)
      /\ FoundOK /\ local = <<>> /\ i \in 1 .. at - 1 /\ Going(text, i, at)
  BY DEF Started, StartGoals, EntryAt, Fitting
<1>2. Of = BracketOpen /\ (Go(<<>>) => goals' = <<GoalOf("exponents", 0)>> \o rest)
  <2>1. Of = Expect(BracketOpen).of /\ (Go(<<>>) => goals' = <<GoalOf("exponents", 0)>> \o rest)
    BY <1>1, GoalTwo
  <2> QED
    BY <2>1, Literals
<1>3. Accepts /\ Rule = "expect" /\ TakeToken /\ UNCHANGED <<local, found, patches>> /\ Go(<<>>)
  BY DEF ReadExpected, Reading
<1>4. BracketOpen \in Openers /\ BracketOpen \in Structural
  BY TokenNames DEF Structural
<1>5. Peek # "end" /\ Peek = BracketOpen
  BY <1>2, <1>3, <1>4, NotEnd, UsableFacts
<1>6. Token /\ Stack
  BY <1>3, <1>5, TokenStep
<1>7. /\ i \in Nat /\ Level(text, i) \in Int /\ Level(text, i + 1) = Level(text, i)
      /\ text[i + 1] = Peek
  BY <1>1, <1>6, AtFirst
<1>8. Stays(slot)
  BY <1>1, <1>3, <1>6, StaysSame
<1>9. Level(text, at + 1) = Level(text, i) + 1 /\ text' = text /\ at' = at + 1 /\ at' = i + 2 + 0
  BY <1>1, <1>4, <1>5, <1>6, <1>7 DEF Token
<1>10. Going(text, i, at)'
  BY <1>1, <1>4, <1>5, <1>6, <1>7, <1>9, TokenNames, GoingOn
<1>11. \A j \in i + 2 .. at' - 1 : FALSE
  BY <1>7, <1>9
<1>12. Counting("exponents", slot, i, rest)'
  <2>1. 0 \in 0 .. 7
    OBVIOUS
  <2>2. goals' = <<GoalOf("exponents", 0)>> \o rest /\ local' = <<>>
    BY <1>1, <1>2, <1>3
  <2> QED
    BY <1>5, <1>7, <1>9, <1>11, <2>1, <2>2 DEF Counting
<1> QED
  BY <1>8, <1>10, <1>12 DEF Advances, Stage

\* One more exponent, or the end of them.
LEMMA ExponentTaken ==
  ASSUME Sure, NEW slot, NEW i, NEW rest, EntryAt("exponents", slot, i, rest),
         Counting("exponents", slot, i, rest), ReadExponent
  PROVE  Advances("exponents", slot, i, rest)
<1> USE DEF Sure
<1>1. IsSeq(rest) /\ FoundOK /\ i \in 1 .. at - 1 /\ i \in Nat /\ Going(text, i, at) /\ slot = "dimensions" /\ text[i] \in Plain
  BY DEF EntryAt, Fitting
<1>2. PICK m \in 0 .. 7 :
        /\ goals = <<GoalOf("exponents", m)>> \o rest
        /\ local = <<>>
        /\ text[i + 1] = BracketOpen
        /\ at = i + 2 + m
        /\ Level(text, at) = Level(text, i) + 1
        /\ \A j \in i + 2 .. at - 1 : text[j] \in Numbers
  BY DEF Counting
<1>3. Of = m /\ \A x : Go(<<x>>) => goals' = <<x>> \o rest
  <2>1. Of = GoalOf("exponents", m).of /\ \A x : Go(<<x>>) => goals' = <<x>> \o rest
    BY <1>1, <1>2, GoalOne
  <2> QED
    BY <2>1, Literals
<1>4. Accepts /\ Rule = "exponents" /\ TakeToken /\ UNCHANGED <<local, patches>>
  BY DEF ReadExponent, Reading
<1>5. Peek # "end" /\ Peek \in Usable
  BY <1>4, NotEnd DEF EntryRules
<1>6. Token /\ Stack
  BY <1>4, <1>5, TokenStep
<1>7. text' = text /\ at' = at + 1 /\ at \in Nat /\ Level(text, at) \in Int /\ Level(text, i) \in Int
      /\ text \in Seq(Tokens) /\ i \in 1 .. Len(text) /\ i + 1 <= Len(text)
  <2>1. text \in Seq(Tokens) /\ at \in 1 .. Len(text) /\ Level(text, at) \in Int /\ text' = text /\ at' = at + 1
    BY <1>6 DEF Token
  <2> QED
    BY <1>1, <1>2, <2>1, LevelType
<1>8. CASE Peek \in Numbers
  <2>1. Peek # BracketClose /\ Peek \notin Openers \cup Closers /\ Peek # Semicolon
    BY <1>8, TokenKinds, TokenNames DEF Structural, Plain, Ordinary
  <2>2. Go(<<GoalOf("exponents", Of + 1)>>) /\ UNCHANGED found
    BY <2>1 DEF ReadExponent
  <2>3. m # 7
    BY <1>3, <1>4, <1>5, <1>8, <2>1 DEF Usable
  <2>4. Stays(slot)
    BY <1>1, <1>4, <1>6, <2>2, StaysSame
  <2>5. Level(text, at + 1) = Level(text, i) + 1
    BY <1>2, <1>6, <2>1 DEF Token
  <2>6. Going(text, i, at)'
    BY <1>1, <1>6, <1>7, <2>1, <2>5, GoingOn
  <2>7. \A j \in i + 2 .. at' - 1 : text[j] \in Numbers
    <3>1. \A j \in i + 2 .. at' - 1 : j \in i + 2 .. at - 1 \/ j = at
      BY <1>1, <1>7
    <3> QED
      BY <1>2, <1>6, <1>8, <3>1 DEF Token
  <2>8. m + 1 \in 0 .. 7 /\ at' = i + 2 + (m + 1)
    BY <1>1, <1>2, <1>7, <2>3
  <2>9. goals' = <<GoalOf("exponents", m + 1)>> \o rest /\ local' = <<>>
    BY <1>2, <1>3, <1>4, <2>2
  <2>10. Counting("exponents", slot, i, rest)'
    BY <1>2, <1>7, <2>5, <2>7, <2>8, <2>9 DEF Counting
  <2> QED
    BY <2>4, <2>6, <2>10 DEF Advances, Stage
<1>9. CASE Peek = BracketClose
  <2>1. Peek \notin Numbers /\ Peek \in Closers /\ Peek # Semicolon
    BY <1>9, TokenKinds, TokenNames DEF Structural, Plain, Ordinary
  <2>2. Go(<<Expect(Semicolon)>>) /\ Keep("dimensions", Value("exponents", at - Of, Of))
    BY <2>1 DEF ReadExponent
  <2>3. m \in {5, 7}
    <3>1. Peek \in (IF Of = 7 THEN {} ELSE Numbers) \cup (IF Of \in {5, 7} THEN {BracketClose} ELSE {})
      BY <1>4, <1>5 DEF Usable
    <3> QED
      BY <1>3, <2>1, <3>1
  <2>4. slot \in Slots
    BY <1>1 DEF Slots, FileSlots
  <2>5. Stays(slot) /\ found'[slot] = Value("exponents", at - m, m)
    BY <1>1, <1>3, <1>4, <1>6, <2>2, <2>4, StaysKept
  <2>6. at - m = i + 2 /\ m = at - i - 2
    BY <1>1, <1>2
  <2>7. found'["dimensions"] = Value("exponents", i + 2, at - i - 2)
    BY <1>1, <2>5, <2>6
  <2>8. Level(text, at + 1) = Level(text, i)
    BY <1>2, <1>6, <1>7, <2>1 DEF Token
  <2>9. IsA("exponents", text, full, i + 1, at)
    <3>1. text[at] = BracketClose
      BY <1>6, <1>9 DEF Token
    <3>2. at - (i + 1) - 1 = m
      BY <1>1, <1>2
    <3>3. \A j \in i + 1 + 1 .. at - 1 : text[j] \in Numbers
      BY <1>1, <1>2
    <3>4. Exponents(text, i + 1, at)
      BY <1>2, <2>3, <3>1, <3>2, <3>3 DEF Exponents
    <3> QED
      BY <3>4 DEF IsA
  <2>10. ~Block(text, i)
    <3>1. BracketOpen # BraceOpen
      BY DEF BracketOpen, BraceOpen
    <3> QED
      BY <1>2, <1>7, <3>1 DEF Block, TokenAt
  <2>11. goals' = <<Expect(Semicolon)>> \o rest /\ local' = <<>>
    BY <1>2, <1>3, <1>4, <2>2
  <2> DEFINE kind == "exponents"
  <2>12. IF kind = "exponents" THEN found'["dimensions"] = Value("exponents", i + 2, at - i - 2)
         ELSE Said(text, full, found', slot, i)
    BY <2>7
  <2>13. kind # "line" /\ kind # "value" /\ EntryAt(kind, slot, i, rest) /\ IsA(kind, text, full, i + 1, at)
    BY <2>9
  <2>14. Advances(kind, slot, i, rest)
    <3> HIDE DEF kind
    <3> QED
      BY <1>6, <2>1, <2>5, <2>8, <2>10, <2>11, <2>12, <2>13, EndingNext
  <2> QED
    BY <2>14
<1> QED
  BY <1>5, <1>8, <1>9 DEF ReadExponent

-----------------------------------------------------------------------------
\* The semicolon ends a line.
LEMMA LineEnds ==
  ASSUME NEW i, i \in 1 .. at - 1, text[i] \in Plain, Going(text, i, at), Token,
         Peek = Semicolon, Level(text, at) = Level(text, i), ~Block(text, i), at > i + 1
  PROVE  /\ EntryEnd(text, i, FALSE) = at /\ To(text, i, FALSE) = at - 1
         /\ Ended(text, i)
         /\ Level(text, at + 1) = Level(text, i)
         /\ \A q \in i .. at + 1 : Level(text, i) <= Level(text, q)
<1>1. /\ text \in Seq(Tokens) /\ at \in Nat /\ Len(text) \in Nat /\ at \in 1 .. Len(text) /\ Peek = text[at]
      /\ Level(text, at) \in Int
  BY DEF Token
<1>2. i \in Nat /\ i \in 1 .. Len(text) /\ at \in i + 1 .. Len(text)
  BY <1>1
<1>3. LineStop(text, i) = at
  BY <1>1, <1>2, LineStops
<1>4. EntryEnd(text, i, FALSE) = at
  BY <1>3 DEF EntryEnd
<1>5. To(text, i, FALSE) = at - 1
  BY <1>1, <1>4 DEF To
<1>6. Ended(text, i)
  <2>1. at # 0 /\ at - 1 > i
    BY <1>1, <1>2
  <2>2. EntryEnd(text, i, FALSE) # 0 /\ To(text, i, FALSE) > i
    BY <1>4, <1>5, <2>1, Zenon
  <2> QED
    BY <2>2, Zenon DEF Ended
<1>7. Level(text, at + 1) = Level(text, i)
  BY TokenNames DEF Token
<1>8. \A q \in i .. at + 1 : q \in i .. at \/ q = at + 1
  BY <1>1, <1>2
<1>9. \A q \in i .. at + 1 : Level(text, i) <= Level(text, q)
  BY <1>1, <1>7, <1>8 DEF Going
<1> QED
  BY <1>4, <1>5, <1>6, <1>7, <1>9

\* The semicolon that is expected ends an entry.
LEMMA EndingTaken ==
  ASSUME Sure, NEW kind, NEW slot, NEW i, NEW rest, EntryAt(kind, slot, i, rest),
         Ending(kind, slot, i, rest), ReadExpected
  PROVE  Advances(kind, slot, i, rest)
<1> USE DEF Sure
<1>1. /\ goals = <<Expect(Semicolon)>> \o rest /\ IsSeq(rest) /\ FoundOK /\ local = <<>>
      /\ i \in 1 .. at - 1 /\ Going(text, i, at) /\ text[i] \in Plain
      /\ at > i + 1 /\ ~Block(text, i)
      /\ Level(text, at) = Level(text, i)
      /\ IsA(kind, text, full, i + 1, at - 1)
  BY DEF Ending, EntryAt
<1>2. Of = Semicolon /\ (Go(<<>>) => goals' = rest)
  <2>1. Of = Expect(Semicolon).of /\ (Go(<<>>) => goals' = rest)
    BY <1>1, GoalOne
  <2> QED
    BY <2>1, Literals
<1>3. Accepts /\ Rule = "expect" /\ TakeToken /\ UNCHANGED <<local, found, patches>> /\ Go(<<>>)
  BY DEF ReadExpected, Reading
<1>4. Peek # "end" /\ Peek = Semicolon
  <2>1. Semicolon \in Structural
    BY DEF Structural
  <2> QED
    BY <1>2, <1>3, <2>1, NotEnd, UsableFacts
<1>5. Token /\ Stack
  BY <1>3, <1>4, TokenStep
<1>6. /\ EntryEnd(text, i, FALSE) = at /\ To(text, i, FALSE) = at - 1
      /\ Ended(text, i)
      /\ Level(text, at + 1) = Level(text, i)
      /\ \A q \in i .. at + 1 : Level(text, i) <= Level(text, q)
  BY <1>1, <1>4, <1>5, LineEnds
<1>7. text' = text /\ full' = full /\ at' = at + 1 /\ at \in Nat /\ i \in Nat
  BY <1>1, <1>5 DEF Token
<1>8. Stays(slot)
  BY <1>1, <1>3, <1>5, StaysSame
<1>9. Said(text, full, found, slot, i)
  <2>1. CASE kind = "exponents"
    <3>1. slot = "dimensions"
      BY <2>1 DEF EntryAt, Fitting
    <3>2. found["dimensions"] = Value("exponents", i + 2, at - i - 3)
      BY <2>1 DEF Ending
    <3>3. at - i - 3 = (at - 1) - i - 2 /\ i # 0
      BY <1>1, <1>7
    <3>4. ExponentsAt(text, i) = Value("exponents", i + 2, at - i - 3)
      BY <1>6, <3>3 DEF ExponentsAt
    <3> QED
      BY <3>1, <3>2, <3>4 DEF Said, SaysAt
  <2>2. CASE kind # "exponents"
    BY <2>2 DEF Ending
  <2> QED
    BY <2>1, <2>2
<1>10. Done(kind, slot, i, rest)'
  <2>1. goals' = rest /\ local' = <<>>
    BY <1>1, <1>2, <1>3
  <2>2. Said(text', full', found', slot, i)
    BY <1>3, <1>7, <1>9
  <2>3. Ended(text', i) /\ IsA(kind, text', full', i + 1, To(text', i, FALSE)) /\ at' = EntryEnd(text', i, FALSE) + 1
    BY <1>1, <1>6, <1>7
  <2>4. Level(text', at') = Level(text', i) /\ \A q \in i .. at' : Level(text', i) <= Level(text', q)
    BY <1>6, <1>7
  <2> QED
    BY <2>1, <2>2, <2>3, <2>4 DEF Done
<1> QED
  BY <1>8, <1>10 DEF Advances

\* A line goes on or ends.
LEMMA LineTaken ==
  ASSUME Sure, NEW kind, NEW slot, NEW i, NEW rest, EntryAt(kind, slot, i, rest),
         Lining(kind, slot, i, rest), TakeRest
  PROVE  Advances(kind, slot, i, rest)
<1> USE DEF Sure
<1>1. /\ goals = <<Goal("rest")>> \o rest /\ IsSeq(rest) /\ FoundOK
      /\ i \in 1 .. at - 1 /\ Going(text, i, at) /\ text[i] \in Plain
      /\ ~Block(text, i) /\ Local(i) /\ at > i + 1
      /\ \/ kind = "line" /\ text[i + 1] \in Plain \cup Openers
         \/ /\ kind = "value" /\ text[i + 1] \in Plain \ {"uniform", "nonuniform"}
            /\ Said(text, full, found, slot, i)
  BY DEF Lining, EntryAt
<1>2. Go(<<>>) => goals' = rest
  BY <1>1, GoalOne
<1>3. Accepts /\ Rule = "rest" /\ TakeToken /\ UNCHANGED <<found, patches>> /\ local' = Track(local, Peek)
      /\ IF local = <<>> /\ Peek = Semicolon THEN Go(<<>>) ELSE UNCHANGED goals
  BY DEF TakeRest, Reading
<1>4. Peek # "end" /\ Tracks(local, Peek)
  BY <1>3, NotEnd DEF EntryRules, Accepts
<1>5. Token /\ Stack
  BY <1>3, <1>4, TokenStep
<1>6. text' = text /\ full' = full /\ at' = at + 1 /\ at \in Nat /\ i \in Nat /\ i \in 1 .. at
  BY <1>1, <1>5 DEF Token
<1>7. Stays(slot)
  BY <1>1, <1>3, <1>5, StaysSame
<1>8. Local(i)' /\ Level(text, at + 1) = Level(text, i) + Len(local') /\ Len(local') \in Nat
  BY <1>1, <1>4, <1>3, <1>5, <1>6, LocalOn
<1>9. local \in Seq(Openers) /\ Level(text, at) = Level(text, i) + Len(local) /\ Level(text, i) \in Nat
  BY <1>1, <1>5, <1>6 DEF Local, Stack
<1>10. CASE local = <<>> /\ Peek = Semicolon
  <2>1. Level(text, at) = Level(text, i)
    BY <1>9, <1>10
  <2>2. /\ EntryEnd(text, i, FALSE) = at /\ To(text, i, FALSE) = at - 1
        /\ Ended(text, i)
        /\ Level(text, at + 1) = Level(text, i)
        /\ \A q \in i .. at + 1 : Level(text, i) <= Level(text, q)
    BY <1>1, <1>5, <1>10, <2>1, LineEnds
  <2>3. goals' = rest
    BY <1>2, <1>3, <1>10
  <2>4. local' = <<>>
    BY <1>3, <1>10, TokenNames DEF Track
  <2>5. IsA(kind, text, full, i + 1, at - 1)
    <3>1. CASE kind = "line"
      BY <3>1 DEF IsA
    <3>2. CASE kind = "value"
      BY <1>1, <3>2 DEF IsA, FieldValue
    <3> QED
      BY <1>1, <3>1, <3>2
  <2>6. Said(text, full, found, slot, i)
    <3>1. CASE kind = "line"
      BY <3>1 DEF EntryAt, Fitting, Said
    <3>2. CASE kind = "value"
      BY <1>1, <3>2
    <3> QED
      BY <1>1, <3>1, <3>2
  <2>7. Done(kind, slot, i, rest)'
    <3>1. Said(text', full', found', slot, i)
      BY <1>3, <1>6, <2>6
    <3>2. Ended(text', i) /\ IsA(kind, text', full', i + 1, To(text', i, FALSE)) /\ at' = EntryEnd(text', i, FALSE) + 1
      BY <1>6, <2>2, <2>5
    <3>3. Level(text', at') = Level(text', i) /\ \A q \in i .. at' : Level(text', i) <= Level(text', q)
      BY <1>6, <2>2
    <3> QED
      BY <2>3, <2>4, <3>1, <3>2, <3>3 DEF Done
  <2> QED
    BY <1>7, <2>7 DEF Advances
<1>11. CASE ~(local = <<>> /\ Peek = Semicolon)
  <2>1. goals' = goals
    BY <1>3, <1>11
  <2>2. Level(text, at + 1) >= Level(text, i)
    BY <1>8, <1>9
  <2>3. Peek # Semicolon \/ Level(text, at) # Level(text, i)
    BY <1>9, <1>11
  <2>4. Going(text, i, at)'
    BY <1>1, <1>5, <2>2, <2>3, GoingOn
  <2>5. at' > i + 1
    BY <1>1, <1>6
  <2>6. Said(text, full, found, slot, i) => Said(text', full', found', slot, i)
    BY <1>3, <1>6
  <2>7. Lining(kind, slot, i, rest)'
    BY <1>1, <1>6, <1>8, <2>1, <2>5, <2>6 DEF Lining
  <2> QED
    BY <1>7, <2>4, <2>7 DEF Advances, Stage
<1> QED
  BY <1>10, <1>11

-----------------------------------------------------------------------------
\* A token of a group of an entry that goes on behind it.
LEMMA GroupedTaken ==
  ASSUME Sure, NEW kind, NEW slot, NEW i, NEW rest, EntryAt(kind, slot, i, rest),
         Grouped(kind, slot, i, rest), TakeGroup
  PROVE  Advances(kind, slot, i, rest)
<1> USE DEF Sure
<1>1. /\ goals = <<Goal("group"), Expect(Semicolon)>> \o rest /\ IsSeq(rest) /\ FoundOK
      /\ i \in 1 .. at - 1 /\ Going(text, i, at) /\ text[i] \in Plain
      /\ ~Block(text, i) /\ Level(text, i + 1) = Level(text, i)
  BY DEF Grouped, EntryAt
<1>2. Go(<<>>) => goals' = <<Expect(Semicolon)>> \o rest
  BY <1>1, GoalTwo
<1>3. Accepts /\ Rule = "group" /\ TakeToken /\ UNCHANGED <<found, patches>> /\ local' = Track(local, Peek)
      /\ IF Track(local, Peek) = <<>> THEN Go(<<>>) ELSE UNCHANGED goals
  BY DEF TakeGroup, Reading
<1>4. Peek # "end" /\ Tracks(local, Peek)
  BY <1>3, NotEnd DEF EntryRules, Accepts
<1>5. Token /\ Stack
  BY <1>3, <1>4, TokenStep
<1>6. text' = text /\ full' = full /\ at' = at + 1 /\ at \in Nat /\ i \in Nat
  BY <1>1, <1>5 DEF Token
<1>7. Stays(slot)
  BY <1>1, <1>3, <1>5, StaysSame
<1>8. PICK g \in {i + 1, i + 2} :
        /\ InGroup(g) /\ Level(text, g) = Level(text, i)
        /\ \/ kind = "exact" /\ g = i + 1
           \/ kind = "value" /\ g = i + 2 /\ text[i + 1] = "uniform" /\ Said(text, full, found, slot, i)
  <2>1. CASE kind = "exact" /\ InGroup(i + 1)
    BY <1>1, <2>1
  <2>2. CASE /\ kind = "value" /\ text[i + 1] = "uniform"
             /\ Level(text, i + 2) = Level(text, i)
             /\ InGroup(i + 2) /\ Said(text, full, found, slot, i)
    BY <1>1, <2>2
  <2> QED
    BY <2>1, <2>2 DEF Grouped
<1>9. /\ local' # <<>> => InGroup(g)'
      /\ local' = <<>> => /\ Partner(text, g) = at
                          /\ Level(text, at + 1) = Level(text, g)
                          /\ Peek \in Closers
      /\ Level(text, at + 1) >= Level(text, g)
      /\ Level(text, at) > Level(text, g)
      /\ Level(text, g) \in Int /\ g \in Nat
  BY <1>3, <1>4, <1>5, <1>8, GroupOn
<1>10. Level(text, at) # Level(text, i) /\ Level(text, at) \in Int
  BY <1>5, <1>8, <1>9 DEF Token
<1>11. Going(text, i, at)'
  BY <1>1, <1>5, <1>8, <1>9, <1>10, GoingOn
<1>12. CASE local' = <<>>
  <2>1. goals' = <<Expect(Semicolon)>> \o rest
    BY <1>2, <1>3, <1>12
  <2>2. Peek # Semicolon /\ Level(text, at + 1) = Level(text, i) /\ Partner(text, g) = at
    BY <1>8, <1>9, <1>12, TokenNames
  <2>3. g < at /\ text[g] \in Openers
    BY <1>6, <1>8, <1>9 DEF InGroup
  <2>4. OneOrGroup(text, g, at)
    BY <2>2, <2>3 DEF OneOrGroup
  <2>5. IsA(kind, text, full, i + 1, at)
    <3>1. CASE kind = "exact"
      <4>1. g = i + 1
        BY <1>8, <3>1
      <4> QED
        BY <2>4, <3>1, <4>1 DEF IsA
    <3>2. CASE kind = "value"
      <4>1. g = (i + 1) + 1 /\ text[i + 1] = "uniform" /\ i + 1 < at
        BY <1>6, <1>8, <2>3, <3>2
      <4> QED
        BY <2>4, <3>2, <4>1 DEF IsA, FieldValue
    <3> QED
      BY <1>8, <3>1, <3>2
  <2>6. Said(text, full, found', slot, i)
    <3>1. CASE kind = "exact"
      BY <3>1 DEF EntryAt, Fitting, Said
    <3>2. CASE kind = "value"
      BY <1>3, <1>8, <3>2
    <3> QED
      BY <1>8, <3>1, <3>2
  <2>7. kind # "line" /\ kind # "exponents" /\ (kind = "value" => text[i + 1] \in {"uniform", "nonuniform"})
    BY <1>8
  <2> QED
    BY <1>1, <1>5, <1>7, <1>12, <2>1, <2>2, <2>5, <2>6, <2>7, EndingNext
<1>13. CASE local' # <<>>
  <2>1. goals' = goals /\ InGroup(g)'
    BY <1>3, <1>9, <1>13
  <2>2. Grouped(kind, slot, i, rest)'
    <3>1. goals' = <<Goal("group"), Expect(Semicolon)>> \o rest /\ ~Block(text', i) /\ Level(text', i + 1) = Level(text', i)
      BY <1>1, <1>6, <2>1
    <3>2. CASE kind = "exact"
      <4>1. g = i + 1
        BY <1>8, <3>2
      <4>2. InGroup(i + 1)'
        BY <2>1, <4>1
      <4> QED
        BY <3>1, <3>2, <4>2 DEF Grouped
    <3>3. CASE kind = "value"
      <4>1. g = i + 2 /\ text[i + 1] = "uniform" /\ Said(text, full, found, slot, i)
        BY <1>8, <3>3
      <4>2. InGroup(i + 2)'
        BY <2>1, <4>1
      <4>3. text'[i + 1] = "uniform" /\ Said(text', full', found', slot, i) /\ Level(text', i + 2) = Level(text', i)
        BY <1>3, <1>6, <1>8, <4>1
      <4> QED
        BY <3>1, <3>3, <4>2, <4>3 DEF Grouped
    <3> QED
      BY <1>8, <3>2, <3>3
  <2> QED
    BY <1>7, <1>11, <2>2 DEF Advances, Stage
<1> QED
  BY <1>12, <1>13

\* One of a block that is skipped.
LEMMA BracingTaken ==
  ASSUME Sure, NEW kind, NEW slot, NEW i, NEW rest, EntryAt(kind, slot, i, rest),
         Bracing(kind, slot, i, rest), TakeGroup
  PROVE  Advances(kind, slot, i, rest)
<1> USE DEF Sure
<1>1. /\ goals = <<Goal("group"), Goal("semicolon?")>> \o rest /\ IsSeq(rest) /\ FoundOK
      /\ i \in 1 .. at - 1 /\ Going(text, i, at) /\ text[i] \in Plain
      /\ Block(text, i) /\ Level(text, i + 1) = Level(text, i)
      /\ kind \in {"exact", "line"} /\ InGroup(i + 1)
  BY DEF Bracing, EntryAt
<1>2. Go(<<>>) => goals' = <<Goal("semicolon?")>> \o rest
  BY <1>1, GoalTwo
<1>3. Accepts /\ Rule = "group" /\ TakeToken /\ UNCHANGED <<found, patches>> /\ local' = Track(local, Peek)
      /\ IF Track(local, Peek) = <<>> THEN Go(<<>>) ELSE UNCHANGED goals
  BY DEF TakeGroup, Reading
<1>4. Peek # "end" /\ Tracks(local, Peek)
  BY <1>3, NotEnd DEF EntryRules, Accepts
<1>5. Token /\ Stack
  BY <1>3, <1>4, TokenStep
<1>6. text' = text /\ full' = full /\ at' = at + 1 /\ at \in Nat /\ i \in Nat
  BY <1>1, <1>5 DEF Token
<1>7. Stays(slot)
  BY <1>1, <1>3, <1>5, StaysSame
<1> DEFINE g == i + 1
<1>9. /\ local' # <<>> => InGroup(g)'
      /\ local' = <<>> => /\ Partner(text, g) = at
                          /\ Level(text, at + 1) = Level(text, g)
                          /\ Peek \in Closers
      /\ Level(text, at + 1) >= Level(text, g)
      /\ Level(text, at) > Level(text, g)
      /\ Level(text, g) \in Int /\ g \in Nat
  BY <1>1, <1>3, <1>4, <1>5, GroupOn
<1>10. Level(text, at) # Level(text, i) /\ Level(text, at) \in Int
  BY <1>1, <1>5, <1>9 DEF Token
<1>11. Going(text, i, at)'
  BY <1>1, <1>5, <1>9, <1>10, GoingOn
<1>12. CASE local' = <<>>
  <2>1. goals' = <<Goal("semicolon?")>> \o rest
    BY <1>2, <1>3, <1>12
  <2>2. Peek \in Closers /\ Level(text, at + 1) = Level(text, i) /\ Partner(text, i + 1) = at
    BY <1>1, <1>9, <1>12
  <2>3. i + 1 < at
    BY <1>1, <1>6 DEF InGroup
  <2>4. at' - 1 = at /\ text'[at] \in Closers
    BY <1>5, <1>6, <2>2 DEF Token
  <2>5. Braced(kind, slot, i, rest)'
    BY <1>1, <1>6, <1>12, <2>1, <2>2, <2>3, <2>4 DEF Braced
  <2> QED
    BY <1>7, <1>11, <2>5 DEF Advances, Stage
<1>13. CASE local' # <<>>
  <2>1. goals' = goals /\ InGroup(i + 1)'
    BY <1>3, <1>9, <1>13
  <2>2. Bracing(kind, slot, i, rest)'
    BY <1>1, <1>6, <2>1 DEF Bracing
  <2> QED
    BY <1>7, <1>11, <2>2 DEF Advances, Stage
<1> QED
  BY <1>12, <1>13

\* A block that is skipped ends with its brace or a semicolon behind it.
LEMMA BracedEnds ==
  ASSUME NEW file \in Seq(Tokens), NEW keep, NEW i \in Nat, NEW k \in Nat, Block(file, i), Partner(file, i + 1) = k,
         k > i + 1, k <= Len(file), file[k] \in Closers, file[i + 1] = BraceOpen,
         NEW kind \in {"exact", "line"}, NEW e, e = IF TokenAt(file, k + 1) = Semicolon THEN k + 1 ELSE k
  PROVE  /\ EntryEnd(file, i, FALSE) = e
         /\ Ended(file, i) /\ IsA(kind, file, keep, i + 1, To(file, i, FALSE))
<1>1. BlockStop(file, i, FALSE) = e
  BY DEF BlockStop
<1>2. EntryEnd(file, i, FALSE) = e
  BY <1>1, Zenon DEF EntryEnd
<1>3. Len(file) \in Nat /\ k # 0 /\ e # 0
  OBVIOUS
<1>4. (IF file[e] = Semicolon THEN e - 1 ELSE e) = k
  <2>1. CASE TokenAt(file, k + 1) = Semicolon
    <3>1. file[k + 1] = Semicolon
      <4>1. Semicolon # "end"
        BY TokenNames
      <4> QED
        BY <2>1, <4>1 DEF TokenAt
    <3> QED
      BY <2>1, <3>1
  <2>2. CASE TokenAt(file, k + 1) # Semicolon
    BY <2>2, TokenNames
  <2> QED
    BY <2>1, <2>2
<1>5. To(file, i, FALSE) = k
  BY <1>2, <1>4, Zenon DEF To
<1>6. k > i
  OBVIOUS
<1>7. Ended(file, i)
  BY <1>2, <1>3, <1>5, <1>6, Zenon DEF Ended
<1>8. IsA(kind, file, keep, i + 1, k)
  BY TokenNames DEF IsA, OneOrGroup
<1> QED
  BY <1>2, <1>5, <1>7, <1>8, Zenon

-----------------------------------------------------------------------------
\* The semicolon behind a block that is skipped, or none.
LEMMA BracedTaken ==
  ASSUME Sure, NEW kind, NEW slot, NEW i, NEW rest, EntryAt(kind, slot, i, rest),
         Braced(kind, slot, i, rest), ReadOptional
  PROVE  Advances(kind, slot, i, rest)
<1> USE DEF Sure
<1>1. /\ goals = <<Goal("semicolon?")>> \o rest /\ IsSeq(rest) /\ FoundOK /\ local = <<>>
      /\ i \in 1 .. at - 1 /\ Going(text, i, at) /\ slot = "none" /\ kind \in {"exact", "line"}
      /\ Block(text, i) /\ Partner(text, i + 1) = at - 1 /\ at - 1 > i + 1 /\ text[at - 1] \in Closers
      /\ Level(text, at) = Level(text, i)
  BY DEF Braced, EntryAt, Fitting
<1>2. Go(<<>>) => goals' = rest
  BY <1>1, GoalOne
<1>3. Accepts /\ UNCHANGED <<local, found, patches>> /\ Go(<<>>)
      /\ IF Peek = Semicolon THEN TakeToken ELSE Leave
  BY DEF ReadOptional, Reading
<1>4. /\ text \in Seq(Tokens) /\ at \in Nat /\ Len(text) \in Nat /\ at <= Len(text) + 1
  BY AtFacts
<1>5. PICK k : k = at - 1
  OBVIOUS
<1>6. k \in Nat /\ i \in Nat /\ k > i + 1 /\ k <= Len(text) /\ k + 1 = at /\ i \in 1 .. Len(text)
  BY <1>1, <1>4, <1>5
<1>7. text[i + 1] = BraceOpen
  BY <1>1, <1>4, <1>6 DEF Block, TokenAt
<1>8. PICK e : e = IF TokenAt(text, k + 1) = Semicolon THEN k + 1 ELSE k
  OBVIOUS
<1>9. /\ EntryEnd(text, i, FALSE) = e
      /\ Ended(text, i) /\ IsA(kind, text, full, i + 1, To(text, i, FALSE))
  BY <1>1, <1>4, <1>5, <1>6, <1>7, <1>8, BracedEnds
<1>10. at' = e + 1 /\ text' = text /\ full' = full /\ mode' = mode
  <2>1. TokenAt(text, k + 1) = Peek
    BY <1>6 DEF Peek
  <2>2. CASE Peek = Semicolon
    BY <1>3, <1>6, <1>8, <2>1, <2>2 DEF TakeToken
  <2>3. CASE Peek # Semicolon
    BY <1>3, <1>6, <1>8, <2>1, <2>3 DEF Leave
  <2> QED
    BY <2>2, <2>3
<1>11. Level(text, e + 1) = Level(text, i) /\ \A q \in i .. e + 1 : Level(text, i) <= Level(text, q)
  <2>1. \A q \in i .. at : Level(text, i) <= Level(text, q)
    BY <1>1 DEF Going
  <2>2. CASE e = k
    BY <1>1, <1>6, <2>1, <2>2
  <2>3. CASE e = k + 1 /\ TokenAt(text, k + 1) = Semicolon
    <3>1. Semicolon # "end" /\ Semicolon \notin Openers \cup Closers
      BY TokenNames
    <3>2. at \in 1 .. Len(text) /\ text[at] = Semicolon
      BY <1>4, <1>6, <2>3, <3>1 DEF TokenAt
    <3>3. Level(text, at + 1) = Level(text, at) /\ Level(text, at) \in Int
      BY <1>4, <3>1, <3>2, LevelStep
    <3>4. \A q \in i .. at + 1 : q \in i .. at \/ q = at + 1
      BY <1>4, <1>6
    <3>5. e + 1 = at + 1
      BY <1>6, <2>3
    <3>6. \A q \in i .. at + 1 : Level(text, i) <= Level(text, q)
      BY <1>1, <2>1, <3>3, <3>4
    <3> QED
      BY <1>1, <3>3, <3>5, <3>6
  <2> QED
    BY <1>8, <2>2, <2>3
<1>12. Stays(slot)
  BY <1>1, <1>3, <1>10 DEF Stays, FoundOK
<1>13. Done(kind, slot, i, rest)'
  <2>1. goals' = rest /\ local' = <<>>
    BY <1>1, <1>2, <1>3
  <2>2. Said(text', full', found', slot, i)
    BY <1>1 DEF Said
  <2>3. Ended(text', i) /\ IsA(kind, text', full', i + 1, To(text', i, FALSE)) /\ at' = EntryEnd(text', i, FALSE) + 1
    BY <1>9, <1>10
  <2>4. Level(text', at') = Level(text', i) /\ \A q \in i .. at' : Level(text', i) <= Level(text', q)
    BY <1>10, <1>11
  <2> QED
    BY <2>1, <2>2, <2>3, <2>4 DEF Done
<1> QED
  BY <1>12, <1>13 DEF Advances

\* The value of a uniform field.
LEMMA UniformTaken ==
  ASSUME Sure, NEW slot, NEW i, NEW rest, EntryAt("value", slot, i, rest),
         UniformNext("value", slot, i, rest), ReadUniform
  PROVE  Advances("value", slot, i, rest)
<1> USE DEF Sure
<1>1. /\ goals = <<Goal("uniform"), Expect(Semicolon)>> \o rest /\ IsSeq(rest) /\ FoundOK /\ local = <<>>
      /\ i \in 1 .. at - 1 /\ Going(text, i, at) /\ text[i] \in Plain
      /\ at = i + 2 /\ text[i + 1] = "uniform"
      /\ Level(text, at) = Level(text, i)
      /\ Said(text, full, found, slot, i)
  BY DEF UniformNext, EntryAt
<1>2. /\ Go(<<>>) => goals' = <<Expect(Semicolon)>> \o rest
      /\ \A x : Go(<<x>>) => goals' = <<x, Expect(Semicolon)>> \o rest
  BY <1>1, GoalTwo
<1>3. Accepts /\ Rule = "uniform" /\ TakeToken /\ UNCHANGED <<found, patches>>
  BY DEF ReadUniform, Reading
<1>4. Peek # "end" /\ Peek \in Plain \cup Openers
  BY <1>3, NotEnd, UsableFacts DEF EntryRules
<1>5. Token /\ Stack
  BY <1>3, <1>4, TokenStep
<1>6. text' = text /\ full' = full /\ at' = at + 1 /\ at \in Nat /\ i \in Nat /\ Level(text, i) \in Int
      /\ text \in Seq(Tokens) /\ i + 1 \in 1 .. Len(text) /\ Peek = text[i + 2] /\ i + 2 = (i + 1) + 1
  BY <1>1, <1>5 DEF Token
<1>7. Stays(slot)
  BY <1>1, <1>3, <1>5, StaysSame
<1>8. Peek # Semicolon /\ Peek \notin Closers
  BY <1>4, TokenKinds, TokenNames DEF Structural
<1>9. ~Block(text, i) /\ Level(text, i + 1) = Level(text, i)
  <2>1. "uniform" # BraceOpen
    BY DEF BraceOpen
  <2>2. ~Block(text, i)
    BY <1>1, <1>6, <2>1 DEF Block, TokenAt
  <2>3. i \in 1 .. Len(text)
    BY <1>1, <1>5, <1>6 DEF Token
  <2> QED
    BY <1>1, <1>6, <2>2, <2>3, GoingStarts
<1>10. Said(text, full, found', slot, i)
  BY <1>1, <1>3
<1>11. CASE Peek \in Plain
  <2>1. Peek \notin Openers
    BY <1>11, TokenKinds DEF Structural
  <2>2. Go(<<>>) /\ local' = local
    BY <2>1 DEF ReadUniform
  <2>3. goals' = <<Expect(Semicolon)>> \o rest /\ local' = <<>>
    BY <1>1, <1>2, <2>2
  <2>4. Level(text, at + 1) = Level(text, i)
    BY <1>1, <1>5, <1>8, <2>1 DEF Token
  <2>5. IsA("value", text, full, i + 1, at)
    <3>1. OneOrGroup(text, (i + 1) + 1, at) /\ i + 1 < at
      BY <1>1, <1>6, <1>11 DEF OneOrGroup
    <3> QED
      BY <1>1, <3>1 DEF IsA, FieldValue
  <2> QED
    BY <1>1, <1>5, <1>7, <1>8, <1>9, <1>10, <2>3, <2>4, <2>5, EndingNext
<1>12. CASE Peek \in Openers
  <2>1. Peek \notin Plain
    BY <1>12, TokenKinds DEF Structural
  <2>2. Go(<<Goal("group")>>) /\ local' = <<Peek>>
    BY <2>1 DEF ReadUniform
  <2>3. goals' = <<Goal("group"), Expect(Semicolon)>> \o rest
    BY <1>2, <2>2
  <2> DEFINE g == i + 2
  <2>4. InGroup(g)'
    <3>1. g = at
      BY <1>1
    <3> HIDE DEF g
    <3> QED
      BY <1>5, <1>12, <2>2, <3>1, GroupBegins
  <2>5. Going(text, i, at)'
    BY <1>1, <1>5, <1>6, <1>8, <1>12, GoingOn DEF Token
  <2>6. Grouped("value", slot, i, rest)'
    BY <1>1, <1>6, <1>9, <1>10, <2>3, <2>4 DEF Grouped
  <2> QED
    BY <1>7, <2>5, <2>6 DEF Advances, Stage
<1> QED
  BY <1>4, <1>11, <1>12

-----------------------------------------------------------------------------
(***************************************************************************)
(* The items of a list.                                                    *)
(***************************************************************************)
LEMMA Fives ==
  ASSUME NEW r \in Nat
  PROVE  \E q \in Nat, s \in 0 .. 4 :
           /\ r = 5 * q + s /\ r % 5 = s /\ r \div 5 = q
           /\ s < 4 => (r + 1) % 5 = s + 1 /\ (r + 1) \div 5 = q
           /\ s = 4 => (r + 1) % 5 = 0 /\ (r + 1) \div 5 = q + 1
<1>1. \A q \in Nat, s \in 0 .. 4 : (5 * q + s) % 5 = s /\ (5 * q + s) \div 5 = q
  OBVIOUS
<1>2. PICK q \in Nat, s \in 0 .. 4 : r = 5 * q + s
  <2>1. r \div 5 \in Nat /\ r % 5 \in 0 .. 4 /\ r = 5 * (r \div 5) + (r % 5)
    OBVIOUS
  <2> QED
    BY <2>1
<1>3. r % 5 = s /\ r \div 5 = q
  BY <1>1, <1>2
<1>4. ASSUME s < 4 PROVE (r + 1) % 5 = s + 1 /\ (r + 1) \div 5 = q
  <2>1. s + 1 \in 0 .. 4 /\ r + 1 = 5 * q + (s + 1)
    BY <1>2, <1>4
  <2> QED
    BY <1>1, <2>1
<1>5. ASSUME s = 4 PROVE (r + 1) % 5 = 0 /\ (r + 1) \div 5 = q + 1
  <2>1. q + 1 \in Nat /\ 0 \in 0 .. 4 /\ r + 1 = 5 * (q + 1) + 0
    BY <1>2, <1>5
  <2> QED
    BY <1>1, <2>1
<1> QED
  BY <1>2, <1>3, <1>4, <1>5

ItemAt(components, number, j) ==
  IF components = 1 THEN number
  ELSE CASE j % 5 = 1 -> Expect(ParenOpen) [] j % 5 = 0 -> Expect(ParenClose) [] OTHER -> number

\* The items of a list are those of its places.
LEMMA ItemsAre ==
  ASSUME NEW count \in Nat, NEW components, NEW number
  PROVE  /\ IsSeq(Items(count, components, number))
         /\ Len(Items(count, components, number)) = Places(count, components)
         /\ Places(count, components) \in Nat
         /\ \A j \in 1 .. Places(count, components) :
              Items(count, components, number)[j] = ItemAt(components, number, j)
<1> DEFINE n == Places(count, components)
           S == {number, Expect(ParenOpen), Expect(ParenClose)}
           f == [j \in 1 .. n |-> ItemAt(components, number, j)]
<1>1. n \in Nat
  BY DEF Places
<1>2. Items(count, components, number) = f
  <2>1. CASE components = 1
    BY <2>1 DEF Items, ItemAt, Places
  <2>2. CASE components # 1
    <3>1. n = 5 * count
      BY <2>2 DEF Places
    <3>2. \A j \in 1 .. 5 * count :
            ItemAt(components, number, j)
              = CASE j % 5 = 1 -> Expect(ParenOpen) [] j % 5 = 0 -> Expect(ParenClose) [] OTHER -> number
      BY <2>2, Zenon DEF ItemAt
    <3> HIDE DEF n
    <3> QED
      BY <2>2, <3>1, <3>2, Zenon DEF Items
  <2> QED
    BY <2>1, <2>2
<1> HIDE DEF n
<1>3. \A j \in 1 .. n : ItemAt(components, number, j) \in S
  BY DEF ItemAt
<1> HIDE DEF S
<1>4. f \in [1 .. n -> S]
  BY <1>3
<1>5. f \in Seq(S) /\ Len(f) = n
  BY <1>1, <1>4, SeqDef
<1>6. IsSeq(f) /\ \A j \in 1 .. n : f[j] = ItemAt(components, number, j)
  BY <1>5, SeqIs
<1> QED
  BY <1>1, <1>2, <1>5, <1>6 DEF n

\* What an item does.
ANumber(c, r, item, number) ==
  /\ item = number
  /\ \A t : ItemIs(c, r + 1, t) <=> t \in Numbers
  /\ Kept(c, r + 1) = Kept(c, r) + 1 /\ Depth(c, r + 1) = Depth(c, r)
AnOpener(c, r, item) ==
  /\ item = Expect(ParenOpen)
  /\ \A t : ItemIs(c, r + 1, t) <=> t = ParenOpen
  /\ Kept(c, r + 1) = Kept(c, r) /\ Depth(c, r + 1) = Depth(c, r) + 1
ACloser(c, r, item) ==
  /\ item = Expect(ParenClose)
  /\ \A t : ItemIs(c, r + 1, t) <=> t = ParenClose
  /\ Kept(c, r + 1) = Kept(c, r) /\ Depth(c, r + 1) = Depth(c, r) - 1

\* An item is a number or a parenthesis of a tuple.
LEMMA ItemCases ==
  ASSUME NEW c \in {1, 3}, NEW r \in Nat, NEW number, NEW item, item = ItemAt(c, number, r + 1)
  PROVE  /\ ANumber(c, r, item, number) \/ AnOpener(c, r, item) \/ ACloser(c, r, item)
         /\ Kept(c, r) \in Nat /\ Depth(c, r) \in {1, 2} /\ Depth(c, r + 1) \in {1, 2}
<1>1. PICK q \in Nat, s \in 0 .. 4 :
        /\ r = 5 * q + s /\ r % 5 = s /\ r \div 5 = q
        /\ s < 4 => (r + 1) % 5 = s + 1 /\ (r + 1) \div 5 = q
        /\ s = 4 => (r + 1) % 5 = 0 /\ (r + 1) \div 5 = q + 1
  BY Fives
<1>2. Kept(c, r) \in Nat /\ Depth(c, r) \in {1, 2} /\ Depth(c, r + 1) \in {1, 2}
  BY <1>1 DEF Kept, Depth
<1>3. CASE c = 1
  <2>1. item = number
    BY <1>3 DEF ItemAt
  <2>2. \A t : ItemIs(c, r + 1, t) <=> t \in Numbers
    BY <1>3 DEF ItemIs
  <2>3. Kept(c, r + 1) = Kept(c, r) + 1 /\ Depth(c, r + 1) = Depth(c, r)
    BY <1>3 DEF Kept, Depth
  <2> QED
    BY <1>2, <2>1, <2>2, <2>3 DEF ANumber
<1>4. CASE c = 3 /\ s = 0
  <2>1. (r + 1) % 5 = 1 /\ (r + 1) \div 5 = q
    BY <1>1, <1>4
  <2>2. item = Expect(ParenOpen)
    BY <1>4, <2>1 DEF ItemAt
  <2>3. \A t : ItemIs(c, r + 1, t) <=> t = ParenOpen
    BY <1>4, <2>1 DEF ItemIs
  <2>4. Kept(c, r + 1) = Kept(c, r) /\ Depth(c, r + 1) = Depth(c, r) + 1
    BY <1>1, <1>4, <2>1 DEF Kept, Depth
  <2> QED
    BY <1>2, <2>2, <2>3, <2>4 DEF AnOpener
<1>5. CASE c = 3 /\ s = 4
  <2>1. (r + 1) % 5 = 0 /\ (r + 1) \div 5 = q + 1
    BY <1>1, <1>5
  <2>2. item = Expect(ParenClose)
    BY <1>5, <2>1 DEF ItemAt
  <2>3. \A t : ItemIs(c, r + 1, t) <=> t = ParenClose
    BY <1>5, <2>1 DEF ItemIs
  <2>4. Kept(c, r + 1) = Kept(c, r) /\ Depth(c, r + 1) = Depth(c, r) - 1
    BY <1>1, <1>5, <2>1 DEF Kept, Depth
  <2> QED
    BY <1>2, <2>2, <2>3, <2>4 DEF ACloser
<1>6. CASE c = 3 /\ s \in 1 .. 3
  <2>1. (r + 1) % 5 \in 2 .. 4 /\ (r + 1) \div 5 = q /\ (r + 1) % 5 = s + 1
    BY <1>1, <1>6
  <2>2. item = number
    BY <1>6, <2>1 DEF ItemAt
  <2>3. \A t : ItemIs(c, r + 1, t) <=> t \in Numbers
    BY <1>6, <2>1 DEF ItemIs
  <2>4. Kept(c, r + 1) = Kept(c, r) + 1 /\ Depth(c, r + 1) = Depth(c, r)
    BY <1>1, <1>6, <2>1 DEF Kept, Depth
  <2> QED
    BY <1>2, <2>2, <2>3, <2>4 DEF ANumber
<1>7. s = 0 \/ s = 4 \/ s \in 1 .. 3
  BY <1>1
<1> QED
  BY <1>3, <1>4, <1>5, <1>6, <1>7

\* All of them.
LEMMA ItemsCount ==
  ASSUME NEW c \in {1, 3}, NEW n \in Nat
  PROVE  /\ Kept(c, 0) = 0 /\ Depth(c, 0) = 1
         /\ Kept(c, Places(n, c)) = n * c /\ Depth(c, Places(n, c)) = 1
<1>1. 0 % 5 = 0 /\ 0 \div 5 = 0 /\ (5 * n + 0) % 5 = 0 /\ (5 * n + 0) \div 5 = n
  OBVIOUS
<1>2. (5 * n) % 5 = 0 /\ (5 * n) \div 5 = n
  BY <1>1
<1>3. CASE c = 1
  BY <1>1, <1>3 DEF Kept, Depth, Places
<1>4. CASE c = 3
  BY <1>1, <1>2, <1>4 DEF Kept, Depth, Places
<1> QED
  BY <1>3, <1>4

\* The goals of a list, one after the other.
ListGoals(n, c, slot, r) == ItemsGoals(n, c, slot, r) \o <<Expect(ParenClose), Expect(Semicolon)>>

Ends == <<Expect(ParenClose), Expect(Semicolon)>>
One(item) == <<item>>

\* What is left of the goals of a list before its first item, behind its last, and between.
LEMMA ListGoalsAre ==
  ASSUME NEW n \in Nat, NEW c, NEW slot, NEW r \in Nat, r <= Places(n, c), NEW rest, IsSeq(rest)
  PROVE  /\ r = 0 => ItemsGoals(n, c, slot, r) = Items(n, c, GoalOf("number", slot))
         /\ r = Places(n, c) => ListGoals(n, c, slot, r) \o rest = Ends \o rest
         /\ r < Places(n, c) =>
              ListGoals(n, c, slot, r) \o rest
                = One(ItemAt(c, GoalOf("number", slot), r + 1)) \o (ListGoals(n, c, slot, r + 1) \o rest)
         /\ IsSeq(ListGoals(n, c, slot, r) \o rest)
<1> DEFINE number == GoalOf("number", slot)
           p == Places(n, c)
           its == Items(n, c, number)
           S == {its[k] : k \in 1 .. Len(its)}
           ends == <<Expect(ParenClose), Expect(Semicolon)>>
<1>1. IsSeq(its) /\ Len(its) = p /\ p \in Nat /\ \A j \in 1 .. p : its[j] = ItemAt(c, number, j)
  BY ItemsAre
<1>2. its \in Seq(S)
  BY <1>1 DEF IsSeq
<1>3. IsSeq(ends)
  BY Tuples
<1>4. \A k : ItemsGoals(n, c, slot, k) = SubSeq(its, k + 1, p)
  BY DEF ItemsGoals
<1> HIDE DEF number, p, its, S, ends
<1>5. ASSUME NEW k \in Nat, k <= p PROVE IsSeq(SubSeq(its, k + 1, p))
  <2>1. k + 1 \in Int /\ p \in Int
    BY <1>1
  <2>2. \A j \in k + 1 .. p : its[j] \in S
    BY <1>1, <1>2, <1>5
  <2>3. SubSeq(its, k + 1, p) \in Seq(S)
    BY <2>1, <2>2, SubSeqProperties
  <2> QED
    BY <2>3, SeqIs
<1>6. r = 0 => ItemsGoals(n, c, slot, r) = its
  <2>1. SubSeq(its, 1, Len(its)) = its
    BY <1>2, SubSeqFull
  <2> QED
    BY <1>1, <1>4, <2>1
<1>7. ASSUME r = p PROVE ListGoals(n, c, slot, r) \o rest = ends \o rest
  <2>1. SubSeq(its, r + 1, p) = <<>>
    BY <1>1, <1>7, SubSeqEmpty
  <2>2. ItemsGoals(n, c, slot, r) = <<>>
    BY <1>4, <2>1
  <2>3. <<>> \o ends = ends
    BY <1>3, JoinNone
  <2> QED
    BY <2>2, <2>3 DEF ListGoals, ends
<1>8. ASSUME r < p
      PROVE  ListGoals(n, c, slot, r) \o rest
               = <<ItemAt(c, number, r + 1)>> \o (ListGoals(n, c, slot, r + 1) \o rest)
  <2>1. r + 1 \in 1 .. Len(its) /\ p \in r + 1 .. Len(its)
    BY <1>1, <1>8
  <2>2. SubSeq(its, r + 1, p) = <<its[r + 1]>> \o SubSeq(its, r + 1 + 1, p)
    BY <1>2, <2>1, SubSeqRecursiveFirst
  <2> DEFINE a == <<ItemAt(c, number, r + 1)>>
             m == SubSeq(its, r + 1 + 1, p)
  <2>3. IsSeq(a)
    BY Tuples
  <2>4. IsSeq(m)
    BY <1>1, <1>5, <1>8
  <2>5. SubSeq(its, r + 1, p) = a \o m
    BY <1>1, <2>1, <2>2
  <2>6. ItemsGoals(n, c, slot, r) = a \o m /\ ItemsGoals(n, c, slot, r + 1) = m
    BY <1>4, <2>5
  <2> HIDE DEF a, m
  <2>7. (a \o m) \o ends = a \o (m \o ends) /\ IsSeq(m \o ends)
    BY <1>3, <2>3, <2>4, JoinThree
  <2>8. (a \o (m \o ends)) \o rest = a \o ((m \o ends) \o rest)
    BY <2>3, <2>7, JoinThree
  <2> QED
    BY <2>6, <2>7, <2>8 DEF ListGoals, a, ends
<1>9. IsSeq(ListGoals(n, c, slot, r) \o rest)
  <2>1. IsSeq(ItemsGoals(n, c, slot, r))
    BY <1>4, <1>5 DEF p
  <2> DEFINE u == ItemsGoals(n, c, slot, r)
  <2> HIDE DEF u
  <2>2. IsSeq(u)
    BY <2>1 DEF u
  <2>3. IsSeq(u \o ends)
    BY <1>3, <2>2, JoinThree
  <2>4. IsSeq((u \o ends) \o rest)
    BY <2>3, JoinThree
  <2> QED
    BY <2>4 DEF ListGoals, u, ends
<1> QED
  BY <1>6, <1>7, <1>8, <1>9 DEF number, p, its, ends, One, Ends

-----------------------------------------------------------------------------
(***************************************************************************)
(* The tokens of a list.                                                   *)
(***************************************************************************)
LEMMA ListWords ==
  /\ \A t \in DOMAIN Components : Components[t] \in {1, 3}
  /\ \A t \in DOMAIN Counts : Counts[t] \in Nat
  /\ DOMAIN Components \subseteq Plain /\ DOMAIN Counts \subseteq Plain /\ Numbers \subseteq Plain
<1>1. /\ \A t \in DOMAIN Components : Components[t] \in {1, 3}
      /\ \A t \in DOMAIN Counts : Counts[t] \in Nat
  BY DEF Components, Counts
<1>2. DOMAIN Components \subseteq Plain /\ DOMAIN Counts \subseteq Plain /\ Numbers \subseteq Plain
  BY DEF Plain, Ordinary, Numbers
<1> QED
  BY <1>1, <1>2

\* What is common to the tokens of a list before its opener.
LEMMA ListStep ==
  ASSUME Sure, NEW slot, NEW i, NEW rest, EntryAt("value", slot, i, rest), NEW rule \in {"list", "count"},
         Rule = rule, Accepts, TakeToken, UNCHANGED <<found, patches>>, at > i + 1, Level(text, at) = Level(text, i)
  PROVE  /\ Stays(slot) /\ Going(text, i, at)' /\ Token
         /\ Peek \in Usable /\ Peek \in Plain
         /\ Level(text, at + 1) = Level(text, i) /\ text' = text /\ at' = at + 1 /\ Peek = text[at] /\ full' = full
<1> USE DEF Sure
<1>1. FoundOK /\ i \in 1 .. at - 1 /\ Going(text, i, at)
  BY DEF EntryAt
<1>2. Peek # "end" /\ Peek \in Usable
  BY NotEnd DEF EntryRules
<1>3. Peek \in Plain
  BY <1>2, UsableFacts, ListWords
<1>4. Token /\ Stack
  BY <1>2, TokenStep
<1>5. Stays(slot)
  BY <1>1, <1>4, StaysSame
<1>6. Peek # Semicolon /\ Peek \notin Openers \cup Closers
  BY <1>3, TokenKinds DEF Structural
<1>7. Level(text, at + 1) = Level(text, i) /\ text' = text /\ at' = at + 1 /\ Peek = text[at] /\ Level(text, at) \in Int
      /\ full' = full
  BY <1>4, <1>6 DEF Token
<1>8. Going(text, i, at)'
  BY <1>1, <1>4, <1>6, <1>7, GoingOn
<1> QED
  BY <1>2, <1>3, <1>4, <1>5, <1>7, <1>8

\* Its type.
LEMMA ListTaken ==
  ASSUME Sure, NEW slot, NEW i, NEW rest, EntryAt("value", slot, i, rest),
         Listing("value", slot, i, rest), ReadList
  PROVE  Advances("value", slot, i, rest)
<1>1. goals = <<GoalOf("list", slot)>> \o rest /\ IsSeq(rest) /\ local = <<>> /\ i \in 1 .. at - 1
      /\ at = i + 2 /\ text[i + 1] = "nonuniform" /\ Level(text, at) = Level(text, i)
  BY DEF Listing, EntryAt
<1>2. Of = slot /\ \A x : Go(<<x>>) => goals' = <<x>> \o rest
  <2>1. Of = GoalOf("list", slot).of /\ \A x : Go(<<x>>) => goals' = <<x>> \o rest
    BY <1>1, GoalOne
  <2> QED
    BY <2>1, Literals
<1>3. Accepts /\ Rule = "list" /\ TakeToken /\ UNCHANGED <<local, found, patches>>
      /\ Go(<<GoalOf("count", [slot |-> Of, components |-> Components[Peek]])>>)
  BY DEF ReadList, Reading
<1>4. i \in Nat /\ at > i + 1
  BY <1>1
<1>5. /\ Stays(slot) /\ Going(text, i, at)' /\ Peek \in Usable
      /\ Level(text, at + 1) = Level(text, i) /\ text' = text /\ at' = at + 1 /\ Peek = text[at]
  <2> DEFINE rule == "list"
  <2>1. rule \in {"list", "count"} /\ Rule = rule
    BY <1>3
  <2> HIDE DEF rule
  <2> QED
    BY <1>1, <1>3, <1>4, <2>1, ListStep
<1>6. text[i + 2] \in DOMAIN Components /\ at' = i + 3
  BY <1>1, <1>3, <1>4, <1>5, UsableFacts
<1>7. goals' = <<GoalOf("count", [slot |-> slot, components |-> Components[text[i + 2]]])>> \o rest
  BY <1>1, <1>2, <1>3, <1>5
<1>8. Sizing("value", slot, i, rest)'
  BY <1>1, <1>3, <1>5, <1>6, <1>7 DEF Sizing
<1> QED
  BY <1>5, <1>8 DEF Advances, Stage

\* Its count.
LEMMA CountTaken ==
  ASSUME Sure, NEW slot, NEW i, NEW rest, EntryAt("value", slot, i, rest),
         Sizing("value", slot, i, rest), ReadCount
  PROVE  Advances("value", slot, i, rest)
<1> DEFINE c == Components[text[i + 2]]
           of == [slot |-> slot, components |-> c]
<1>1. goals = <<GoalOf("count", of)>> \o rest /\ IsSeq(rest) /\ local = <<>> /\ i \in 1 .. at - 1
      /\ at = i + 3 /\ text[i + 1] = "nonuniform" /\ text[i + 2] \in DOMAIN Components
      /\ Level(text, at) = Level(text, i)
  BY DEF Sizing, EntryAt
<1>9. of.slot = slot /\ of.components = c
  OBVIOUS
<1> HIDE DEF of
<1>2. Of = of /\ \A x : Go(<<x>>) => goals' = <<x>> \o rest
  <2>1. Of = GoalOf("count", of).of /\ \A x : Go(<<x>>) => goals' = <<x>> \o rest
    BY <1>1, GoalOne
  <2> QED
    BY <2>1, Literals
<1>3. Accepts /\ Rule = "count" /\ TakeToken /\ UNCHANGED <<local, found, patches>>
      /\ Go(<<GoalOf("opener", [slot |-> Of.slot, components |-> Of.components, count |-> Counts[Peek]])>>)
  BY DEF ReadCount, Reading
<1>4. i \in Nat /\ at > i + 1
  BY <1>1
<1>5. /\ Stays(slot) /\ Going(text, i, at)' /\ Peek \in Usable
      /\ Level(text, at + 1) = Level(text, i) /\ text' = text /\ at' = at + 1 /\ Peek = text[at]
  <2> DEFINE rule == "count"
  <2>1. rule \in {"list", "count"} /\ Rule = rule
    BY <1>3
  <2> HIDE DEF rule
  <2> QED
    BY <1>1, <1>3, <1>4, <2>1, ListStep
<1>6. text[i + 3] \in DOMAIN Counts /\ at' = i + 4
  BY <1>1, <1>3, <1>4, <1>5, UsableFacts
<1>7. goals' = <<GoalOf("opener", [slot |-> slot, components |-> c, count |-> Counts[text[i + 3]]])>> \o rest
  BY <1>1, <1>2, <1>3, <1>5, <1>9
<1>8. Sized("value", slot, i, rest)'
  BY <1>1, <1>3, <1>5, <1>6, <1>7 DEF Sized
<1> QED
  BY <1>5, <1>8 DEF Advances, Stage

\* Its opener.
LEMMA OpenerTaken ==
  ASSUME Sure, NEW slot, NEW i, NEW rest, EntryAt("value", slot, i, rest),
         Sized("value", slot, i, rest), ReadOpener
  PROVE  Advances("value", slot, i, rest)
<1> USE DEF Sure
<1> DEFINE c == Components[text[i + 2]]
           n == Counts[text[i + 3]]
           of == [slot |-> slot, components |-> c, count |-> n]
           ends == <<Expect(ParenClose), Expect(Semicolon)>>
           its == Items(n, c, GoalOf("number", slot))
<1>1. goals = <<GoalOf("opener", of)>> \o rest /\ IsSeq(rest) /\ local = <<>> /\ i \in 1 .. at - 1
      /\ at = i + 4 /\ text[i + 1] = "nonuniform" /\ text[i + 2] \in DOMAIN Components
      /\ text[i + 3] \in DOMAIN Counts
      /\ Level(text, at) = Level(text, i) /\ FoundOK /\ Going(text, i, at)
      /\ slot \in {"internal", "value", "inlet"}
  BY DEF Sized, EntryAt, Fitting
<1>2. of.slot = slot /\ of.components = c /\ of.count = n
  OBVIOUS
<1> HIDE DEF of
<1>3. Of = of /\ Tail(goals) = rest
  <2>1. Of = GoalOf("opener", of).of /\ Tail(goals) = rest
    BY <1>1, GoalOne
  <2> QED
    BY <2>1, Literals
<1>4. Accepts /\ Rule = "opener" /\ TakeToken /\ UNCHANGED <<local, patches>>
      /\ Go(Items(Of.count, Of.components, GoalOf("number", Of.slot)) \o <<Expect(ParenClose), Expect(Semicolon)>>)
      /\ Keep(Of.slot, Value("nonuniform", at - 2, Of.count))
  BY DEF ReadOpener, Reading
<1>5. Peek # "end" /\ Peek \in Usable
  BY <1>4, NotEnd DEF EntryRules
<1>6. Peek = ParenOpen /\ ListFits(of)
  <2>1. Usable = IF ListFits(Of) THEN {ParenOpen} ELSE {}
    BY <1>4 DEF Usable
  <2> QED
    BY <1>3, <1>5, <2>1
<1>7. Token /\ Stack
  BY <1>4, <1>5, TokenStep
<1>8. c \in {1, 3} /\ n \in Nat
  BY <1>1, ListWords
<1>9. full => n * c <= MaxRetained
  BY <1>2, <1>6 DEF ListFits
<1>10. slot \in Slots
  BY <1>1 DEF Slots, FileSlots, PatchSlots
<1>11. Stays(slot) /\ found'[slot] = Value("nonuniform", at - 2, n)
  <2>1. Keep(slot, Value("nonuniform", at - 2, n))
    BY <1>2, <1>3, <1>4
  <2> QED
    BY <1>1, <1>4, <1>7, <1>10, <2>1, StaysKept
<1>12. /\ text' = text /\ full' = full /\ at' = at + 1 /\ Peek = text[at] /\ Level(text, at) \in Int
       /\ Level(text, at + 1) = Level(text, at) + 1
  BY <1>6, <1>7, TokenNames DEF Token
<1>13. Peek # Semicolon
  BY <1>6, TokenNames
<1>14. Going(text, i, at)'
  BY <1>1, <1>7, <1>12, <1>13, GoingOn
<1>15. Kept(c, 0) = 0 /\ Depth(c, 0) = 1
  BY <1>8, ItemsCount
<1>16. Places(n, c) \in Nat
  BY <1>8, ItemsAre
<1>17. i \in Nat /\ at - 2 = i + 2 /\ at' - i - 5 = 0 /\ at' = i + 5 /\ at' > i + 4
  BY <1>1, <1>12
<1>18. goals' = (ItemsGoals(n, c, slot, 0) \o ends) \o rest
  <2>1. ItemsGoals(n, c, slot, 0) = its
    <3>1. PICK cc, nn, r : cc = c /\ nn = n /\ r = 0
      OBVIOUS
    <3>2. nn \in Nat /\ r \in Nat /\ r <= Places(nn, cc)
      BY <1>8, <1>16, <3>1
    <3>3. r = 0 => ItemsGoals(nn, cc, slot, r) = Items(nn, cc, GoalOf("number", slot))
      BY <1>1, <3>2, ListGoalsAre
    <3> QED
      BY <3>1, <3>3
  <2>2. goals' = (its \o ends) \o rest
    BY <1>2, <1>3, <1>4 DEF Go
  <2> QED
    BY <2>1, <2>2
<1>19. Value("nonuniform", at - 2, n) = [Value("nonuniform", i + 2, n) EXCEPT !.kept = IF full' THEN Kept(c, 0) ELSE 0]
  BY <1>15, <1>17 DEF Value
<1>20. \A j \in 1 .. 0 : FALSE
  OBVIOUS
<1>21. text'[i + 4] = ParenOpen
  BY <1>1, <1>6, <1>12
<1> HIDE DEF its
<1>22. Numbering("value", slot, i, rest)'
  <2>1. Level(text', at') = Level(text', i) + Depth(c, 0)
    BY <1>1, <1>12, <1>15
  <2>2. /\ 0 \in 0 .. Places(n, c)
        /\ goals' = (ItemsGoals(n, c, slot, 0) \o <<Expect(ParenClose), Expect(Semicolon)>>) \o rest
        /\ full' => n * c <= MaxRetained
        /\ \A j \in 1 .. 0 : ItemIs(c, j, text'[i + 4 + j])
        /\ Level(text', at') = Level(text', i) + Depth(c, 0)
        /\ found'[slot] = [Value("nonuniform", i + 2, n) EXCEPT !.kept = IF full' THEN Kept(c, 0) ELSE 0]
    BY <1>9, <1>11, <1>12, <1>16, <1>18, <1>19, <1>20, <2>1
  <2>3. /\ Components[text'[i + 2]] = c /\ Counts[text'[i + 3]] = n /\ local' = <<>>
        /\ text'[i + 1] = "nonuniform" /\ text'[i + 2] \in DOMAIN Components /\ text'[i + 3] \in DOMAIN Counts
    BY <1>1, <1>4, <1>12
  <2>4. PICK cc, nn : cc = c /\ nn = n
    OBVIOUS
  <2> HIDE DEF c, n
  <2>5. /\ 0 \in 0 .. Places(nn, cc)
        /\ goals' = (ItemsGoals(nn, cc, slot, 0) \o <<Expect(ParenClose), Expect(Semicolon)>>) \o rest
        /\ full' => nn * cc <= MaxRetained
        /\ \A j \in 1 .. 0 : ItemIs(cc, j, text'[i + 4 + j])
        /\ Level(text', at') = Level(text', i) + Depth(cc, 0)
        /\ found'[slot] = [Value("nonuniform", i + 2, nn) EXCEPT !.kept = IF full' THEN Kept(cc, 0) ELSE 0]
    BY <2>2, <2>4
  <2>6. Itemised(slot, i, rest, cc, nn, 0)'
    BY <2>5 DEF Itemised
  <2>7. Components[text'[i + 2]] = cc /\ Counts[text'[i + 3]] = nn /\ at' - i - 5 = 0
    BY <1>17, <2>3, <2>4
  <2>8. Itemised(slot, i, rest, Components[text[i + 2]], Counts[text[i + 3]], at - i - 5)'
    BY <2>6, <2>7
  <2> QED
    BY <1>17, <1>21, <2>3, <2>8 DEF Numbering
<1> QED
  BY <1>11, <1>14, <1>22 DEF Advances, Stage

-----------------------------------------------------------------------------
\* The list that is being read.
IsList(slot, i, rest, c, n, r) ==
  /\ local = <<>>
  /\ at = i + 5 + r
  /\ text[i + 1] = "nonuniform" /\ text[i + 2] \in DOMAIN Components /\ text[i + 3] \in DOMAIN Counts
  /\ text[i + 4] = ParenOpen
  /\ c = Components[text[i + 2]] /\ n = Counts[text[i + 3]]
  /\ Itemised(slot, i, rest, c, n, r)

\* The list that the reader is in.
LEMMA NumberingFacts ==
  ASSUME Sure, NEW slot, NEW i, NEW rest, EntryAt("value", slot, i, rest), Numbering("value", slot, i, rest)
  PROVE  /\ \E c \in {1, 3}, n \in Nat, r \in Nat : IsList(slot, i, rest, c, n, r) /\ r <= Places(n, c)
         /\ i \in Nat
<1>1. i \in 1 .. at - 1 /\ at \in Nat
  BY AtFacts DEF EntryAt, Sure
<1>2. PICK c, n, r : c = Components[text[i + 2]] /\ n = Counts[text[i + 3]] /\ r = at - i - 5
  OBVIOUS
<1>3. /\ local = <<>> /\ at > i + 4
      /\ text[i + 1] = "nonuniform" /\ text[i + 2] \in DOMAIN Components /\ text[i + 3] \in DOMAIN Counts
      /\ text[i + 4] = ParenOpen
      /\ Itemised(slot, i, rest, c, n, r)
  BY <1>2 DEF Numbering
<1>4. c \in {1, 3} /\ n \in Nat
  BY <1>2, <1>3, ListWords
<1>5. r \in Nat /\ at = i + 5 + r
  BY <1>1, <1>2, <1>3
<1>6. r \in 0 .. Places(n, c) /\ Places(n, c) \in Nat
  BY <1>3, <1>4, ItemsAre DEF Itemised
<1>7. IsList(slot, i, rest, c, n, r)
  BY <1>2, <1>3, <1>5 DEF IsList
<1> QED
  BY <1>1, <1>4, <1>5, <1>6, <1>7

\* One more item.
LEMMA ItemTaken ==
  ASSUME NEW slot, NEW i \in Nat, NEW rest, EntryAt("value", slot, i, rest), Token,
         NEW c \in {1, 3}, NEW n \in Nat, NEW r \in Nat, IsList(slot, i, rest, c, n, r), r < Places(n, c),
         ItemIs(c, r + 1, Peek), Depth(c, r) \in {1, 2}, Depth(c, r + 1) \in {1, 2},
         goals' = ListGoals(n, c, slot, r + 1) \o rest, local' = <<>>,
         Level(text, at + 1) = Level(text, i) + Depth(c, r + 1), Stays(slot),
         found'[slot] = [Value("nonuniform", i + 2, n) EXCEPT !.kept = IF full THEN Kept(c, r + 1) ELSE 0]
  PROVE  Advances("value", slot, i, rest)
<1>1. i \in 1 .. at - 1 /\ Going(text, i, at)
  BY DEF EntryAt
<1>2. /\ at = i + 5 + r
      /\ text[i + 1] = "nonuniform" /\ text[i + 2] \in DOMAIN Components /\ text[i + 3] \in DOMAIN Counts
      /\ text[i + 4] = ParenOpen
      /\ c = Components[text[i + 2]] /\ n = Counts[text[i + 3]]
      /\ full => n * c <= MaxRetained
      /\ \A j \in 1 .. r : ItemIs(c, j, text[i + 4 + j])
      /\ Level(text, at) = Level(text, i) + Depth(c, r)
  BY DEF IsList, Itemised
<1>3. /\ at \in Nat /\ at' = at + 1 /\ text' = text /\ full' = full /\ Peek = text[at]
      /\ Level(text, at) \in Int /\ i \in 1 .. Len(text) /\ text \in Seq(Tokens)
  BY <1>1 DEF Token
<1>4. Level(text, i) \in Int
  BY <1>3, LevelType
<1>5. Level(text, at) # Level(text, i) /\ Level(text, at + 1) >= Level(text, i)
  BY <1>2, <1>4
<1>6. Going(text, i, at)'
  BY <1>1, <1>5, GoingOn
<1>7. Places(n, c) \in Nat
  BY ItemsAre
<1>8. r + 1 \in 0 .. Places(n, c)
  BY <1>7
<1>9. \A j \in 1 .. r + 1 : ItemIs(c, j, text'[i + 4 + j])
  <2>1. \A j \in 1 .. r + 1 : j \in 1 .. r \/ j = r + 1
    OBVIOUS
  <2>2. i + 4 + (r + 1) = at
    BY <1>2
  <2>3. ItemIs(c, r + 1, text[i + 4 + (r + 1)])
    BY <1>3, <2>2
  <2> QED
    BY <1>2, <1>3, <2>1, <2>3
<1>10. Itemised(slot, i, rest, c, n, r + 1)'
  BY <1>2, <1>3, <1>8, <1>9 DEF Itemised, ListGoals
<1>11. Itemised(slot, i, rest, Components[text[i + 2]], Counts[text[i + 3]], at - i - 5)'
  <2>1. Components[text'[i + 2]] = c /\ Counts[text'[i + 3]] = n /\ at' - i - 5 = r + 1
    BY <1>2, <1>3
  <2> QED
    BY <1>10, <2>1
<1>12. at' > i + 4
  BY <1>2, <1>3
<1>13. Numbering("value", slot, i, rest)'
  BY <1>2, <1>3, <1>11, <1>12 DEF Numbering
<1> QED
  BY <1>6, <1>13 DEF Advances, Stage

\* The closer of a list.
LEMMA ListEnds ==
  ASSUME NEW slot, NEW i \in Nat, NEW rest, EntryAt("value", slot, i, rest), Token,
         NEW c \in {1, 3}, NEW n \in Nat, NEW r \in Nat, IsList(slot, i, rest, c, n, r), r = Places(n, c),
         Peek = ParenClose, goals' = <<Expect(Semicolon)>> \o rest, UNCHANGED <<local, found, patches>>
  PROVE  Advances("value", slot, i, rest)
<1>1. i \in 1 .. at - 1 /\ Going(text, i, at) /\ FoundOK /\ slot \in {"internal", "value", "inlet"}
  BY DEF EntryAt, Fitting
<1>2. /\ at = i + 5 + r /\ local = <<>>
      /\ text[i + 1] = "nonuniform" /\ text[i + 2] \in DOMAIN Components /\ text[i + 3] \in DOMAIN Counts
      /\ text[i + 4] = ParenOpen
      /\ c = Components[text[i + 2]] /\ n = Counts[text[i + 3]]
      /\ full => n * c <= MaxRetained
      /\ \A j \in 1 .. r : ItemIs(c, j, text[i + 4 + j])
      /\ Level(text, at) = Level(text, i) + Depth(c, r)
      /\ found[slot] = [Value("nonuniform", i + 2, n) EXCEPT !.kept = IF full THEN Kept(c, r) ELSE 0]
  BY DEF IsList, Itemised
<1>3. /\ at \in Nat /\ at' = at + 1 /\ text' = text /\ full' = full /\ Peek = text[at]
      /\ Level(text, at) \in Int /\ i \in 1 .. Len(text) /\ text \in Seq(Tokens) /\ i + 1 \in 1 .. Len(text)
      /\ Level(text, at + 1) = Level(text, at) - 1
  <2>1. /\ at \in 1 .. Len(text) /\ Len(text) \in Nat /\ text' = text /\ full' = full /\ Peek = text[at]
        /\ Level(text, at) \in Int /\ text \in Seq(Tokens) /\ at' = at + 1
    BY DEF Token
  <2>2. Level(text, at + 1) = Level(text, at) - 1
    BY TokenNames DEF Token
  <2>3. at = i + 5 + r
    BY <1>2
  <2>4. i \in 1 .. at - 1
    BY <1>1
  <2>5. at \in Nat /\ i \in 1 .. Len(text) /\ i + 1 \in 1 .. Len(text)
    <3>1. at \in 1 .. Len(text) /\ Len(text) \in Nat
      BY <2>1
    <3>2. at \in Nat
      BY <3>1
    <3>3. i >= 1 /\ i <= at /\ i + 1 <= at
      BY <2>3, <2>4, <3>2
    <3> QED
      BY <3>1, <3>2, <3>3
  <2> QED
    BY <2>1, <2>2, <2>5
<1>4. Level(text, i) \in Int
  BY <1>3, LevelType
<1>5. Kept(c, r) = n * c /\ Depth(c, r) = 1
  BY ItemsCount
<1>6. Level(text, at + 1) = Level(text, i)
  BY <1>2, <1>3, <1>4, <1>5
<1>7. ListOf(text, full, i + 1, at)
  <2> DEFINE a == i + 1
  <2>1. a \in Nat /\ at >= a + 4 /\ a + 1 = i + 2 /\ a + 2 = i + 3 /\ a + 3 = i + 4
    BY <1>2
  <2>2. at = a + 4 + Places(n, c)
    BY <1>2, <2>1
  <2>3. \A j \in 1 .. Places(n, c) :
          IF c = 1 \/ j % 5 \in 2 .. 4 THEN text[a + 3 + j] \in Numbers
          ELSE text[a + 3 + j] = IF j % 5 = 1 THEN ParenOpen ELSE ParenClose
    BY <1>2, <2>1 DEF ItemIs
  <2> HIDE DEF a
  <2>4. ListOf(text, full, a, at)
    BY <1>2, <1>3, <2>1, <2>2, <2>3 DEF ListOf
  <2> QED
    BY <2>4 DEF a
<1>8. IsA("value", text, full, i + 1, at)
  BY <1>2, <1>7 DEF IsA, FieldValue
<1>9. Said(text, full, found', slot, i)
  <2>1. i # 0 /\ (i + 1) + 2 = i + 3 /\ (i + 1) + 1 = i + 2
    BY <1>1
  <2>2. ValueAt(text, full, i) = [Value("nonuniform", i + 2, n) EXCEPT !.kept = IF full THEN n * c ELSE 0]
    BY <1>2, <2>1 DEF ValueAt
  <2>3. found[slot] = ValueAt(text, full, i)
    BY <1>2, <1>5, <2>2
  <2> QED
    BY <1>1, <2>3 DEF Said, SaysAt
<1>10. ~Block(text, i)
  BY <1>2, <1>3 DEF Block, TokenAt, BraceOpen
<1>11. Stays(slot)
  BY <1>1, StaysSame
<1>12. Peek # Semicolon /\ local' = <<>>
  BY <1>2, TokenNames
<1> DEFINE kind == "value"
<1>13. IF kind = "exponents" THEN found'["dimensions"] = Value("exponents", i + 2, at - i - 2)
       ELSE Said(text, full, found', slot, i)
  BY <1>9
<1>14. kind # "line" /\ (kind = "value" => text[i + 1] \in {"uniform", "nonuniform"})
  BY <1>2
<1>15. EntryAt(kind, slot, i, rest) /\ IsA(kind, text, full, i + 1, at)
  BY <1>8
<1>16. Advances(kind, slot, i, rest)
  <2> HIDE DEF kind
  <2> QED
    BY <1>6, <1>10, <1>11, <1>12, <1>13, <1>14, <1>15, EndingNext
<1> QED
  BY <1>16

-----------------------------------------------------------------------------
\* What is left of a list.
LEMMA ListGoalsEnd ==
  ASSUME NEW n \in Nat, NEW c, NEW slot, NEW r \in Nat, r = Places(n, c), NEW rest, IsSeq(rest)
  PROVE  ListGoals(n, c, slot, r) \o rest = Ends \o rest
<1>1. r <= Places(n, c)
  OBVIOUS
<1> QED
  BY <1>1, ListGoalsAre

ItemNext(n, c, slot, r, rest) ==
  ListGoals(n, c, slot, r) \o rest
    = One(ItemAt(c, GoalOf("number", slot), r + 1)) \o (ListGoals(n, c, slot, r + 1) \o rest)

\* Before the last item of a list its next item is the next goal.
LEMMA ListGoalsMore ==
  ASSUME NEW n \in Nat, NEW c, NEW slot, NEW r \in Nat, r < Places(n, c), NEW rest, IsSeq(rest)
  PROVE  ItemNext(n, c, slot, r, rest)
<1>1. r <= Places(n, c)
  <2>1. Places(n, c) \in Nat
    BY ItemsAre
  <2> QED
    BY <2>1
<1> QED
  BY <1>1, ListGoalsAre, SMT DEF ItemNext

NextItem(c, slot, r, item) == item = ItemAt(c, GoalOf("number", slot), r + 1)

Leaves(item, n, c, slot, r, rest) ==
  /\ Rule = item.rule /\ Of = item.of
  /\ Go(<<>>) => goals' = ListGoals(n, c, slot, r + 1) \o rest

\* What an item that is read leaves of a list.
LEMMA ListGoalsLeft ==
  ASSUME NEW slot, NEW i, NEW rest, IsSeq(rest), NEW c \in {1, 3}, NEW n \in Nat, NEW r \in Nat,
         IsList(slot, i, rest, c, n, r), r < Places(n, c), NEW item, NextItem(c, slot, r, item)
  PROVE  Leaves(item, n, c, slot, r, rest)
<1>1. goals = ListGoals(n, c, slot, r) \o rest
  BY DEF IsList, Itemised, ListGoals
<1>2. Places(n, c) \in Nat
  BY ItemsAre
<1>3. PICK k : k = r + 1
  OBVIOUS
<1>4. k \in Nat /\ k <= Places(n, c)
  BY <1>2, <1>3
<1>5. IsSeq(ListGoals(n, c, slot, k) \o rest)
  BY <1>4, ListGoalsAre
<1>6. goals = One(item) \o (ListGoals(n, c, slot, k) \o rest)
  <2>1. ItemNext(n, c, slot, r, rest)
    BY ListGoalsMore
  <2> QED
    BY <1>1, <1>3, <2>1 DEF ItemNext, NextItem
<1>7. PICK left : left = ListGoals(n, c, slot, k) \o rest
  OBVIOUS
<1>8. goals = <<item>> \o left /\ IsSeq(left)
  BY <1>5, <1>6, <1>7 DEF One
<1>9. Rule = item.rule /\ Of = item.of /\ (Go(<<>>) => goals' = left)
  BY <1>8, GoalOne
<1> QED
  BY <1>3, <1>7, <1>9 DEF Leaves

\* A number, or a delimiter, of a list.
LEMMA NumberTaken ==
  ASSUME Sure, NEW slot, NEW i, NEW rest, EntryAt("value", slot, i, rest),
         Numbering("value", slot, i, rest), ReadNumber
  PROVE  Advances("value", slot, i, rest)
<1> USE DEF Sure
<1>1. PICK c \in {1, 3}, n \in Nat, r \in Nat : IsList(slot, i, rest, c, n, r) /\ r <= Places(n, c)
  BY NumberingFacts
<1>2. i \in Nat
  BY NumberingFacts
<1>3. IsSeq(rest) /\ FoundOK /\ slot \in Slots
  BY DEF EntryAt, Fitting, Slots, FileSlots, PatchSlots
<1>4. Accepts /\ Rule = "number" /\ TakeToken /\ UNCHANGED <<local, patches>> /\ Go(<<>>)
      /\ Keep(Of, [found[Of] EXCEPT !.kept = IF full THEN @ + 1 ELSE 0])
  BY DEF ReadNumber, Reading
<1>5. Peek # "end" /\ Peek \in Usable
  BY <1>4, NotEnd DEF EntryRules
<1>6. Peek \in Numbers
  BY <1>4, <1>5, UsableFacts
<1>7. Token /\ Stack
  BY <1>4, <1>5, TokenStep
<1>8. r < Places(n, c)
  <2> SUFFICES ASSUME r = Places(n, c) PROVE FALSE
    <3>1. Places(n, c) \in Nat
      BY ItemsAre
    <3> QED
      BY <1>1, <3>1
  <2>1. goals = ListGoals(n, c, slot, r) \o rest
    BY <1>1 DEF IsList, Itemised, ListGoals
  <2>2. goals = <<Expect(ParenClose), Expect(Semicolon)>> \o rest
    BY <1>3, <2>1, ListGoalsEnd DEF Ends
  <2>3. Rule = Expect(ParenClose).rule
    BY <1>3, <2>2, GoalTwo
  <2> QED
    BY <1>4, <2>3, Literals
<1>9. PICK item, number : number = GoalOf("number", slot) /\ item = ItemAt(c, number, r + 1)
  OBVIOUS
<1>10. Rule = item.rule /\ Of = item.of /\ goals' = ListGoals(n, c, slot, r + 1) \o rest
  <2>1. NextItem(c, slot, r, item)
    BY <1>9 DEF NextItem
  <2>2. IsList(slot, i, rest, c, n, r)
    BY <1>1
  <2>3. Leaves(item, n, c, slot, r, rest)
    BY <1>3, <1>8, <2>1, <2>2, ListGoalsLeft
  <2> QED
    BY <1>4, <2>3 DEF Leaves
<1>11. ANumber(c, r, item, number) /\ Depth(c, r) \in {1, 2} /\ Depth(c, r + 1) \in {1, 2} /\ Kept(c, r) \in Nat
  <2>1. /\ ANumber(c, r, item, number) \/ AnOpener(c, r, item) \/ ACloser(c, r, item)
        /\ Kept(c, r) \in Nat /\ Depth(c, r) \in {1, 2} /\ Depth(c, r + 1) \in {1, 2}
    BY <1>9, ItemCases
  <2>2. ~AnOpener(c, r, item) /\ ~ACloser(c, r, item)
    <3>1. item.rule = "number"
      BY <1>4, <1>10
    <3> QED
      BY <3>1, Literals DEF AnOpener, ACloser
  <2> QED
    BY <2>1, <2>2
<1>12. /\ item = number /\ ItemIs(c, r + 1, Peek)
       /\ Kept(c, r + 1) = Kept(c, r) + 1 /\ Depth(c, r + 1) = Depth(c, r)
  BY <1>6, <1>11 DEF ANumber
<1>13. Of = slot
  BY <1>9, <1>10, <1>12, Literals
<1>14. /\ found[slot] = [Value("nonuniform", i + 2, n) EXCEPT !.kept = IF full THEN Kept(c, r) ELSE 0]
       /\ Level(text, at) = Level(text, i) + Depth(c, r) /\ local = <<>>
  BY <1>1 DEF IsList, Itemised
<1>15. [found[slot] EXCEPT !.kept = IF full THEN @ + 1 ELSE 0]
         = [Value("nonuniform", i + 2, n) EXCEPT !.kept = IF full THEN Kept(c, r + 1) ELSE 0]
  <2>1. CASE full
    BY <1>12, <1>14, <2>1 DEF Value
  <2>2. CASE ~full
    BY <1>12, <1>14, <2>2 DEF Value
  <2> QED
    BY <2>1, <2>2
<1>16. Stays(slot)
       /\ found'[slot] = [Value("nonuniform", i + 2, n) EXCEPT !.kept = IF full THEN Kept(c, r + 1) ELSE 0]
  <2>1. PICK value : value = [Value("nonuniform", i + 2, n) EXCEPT !.kept = IF full THEN Kept(c, r + 1) ELSE 0]
    OBVIOUS
  <2>2. Keep(slot, value)
    BY <1>4, <1>13, <1>15, <2>1
  <2>3. Stays(slot) /\ found'[slot] = value
    BY <1>3, <1>4, <1>7, <2>2, StaysKept
  <2> QED
    BY <2>1, <2>3
<1>17. Level(text, at + 1) = Level(text, i) + Depth(c, r + 1)
  <2>1. Peek \notin Openers \cup Closers
    BY <1>6, ListWords, TokenKinds DEF Structural
  <2> QED
    BY <1>7, <1>12, <1>14, <2>1 DEF Token
<1>18. local' = <<>>
  BY <1>4, <1>14
<1> QED
  BY <1>1, <1>2, <1>7, <1>8, <1>10, <1>11, <1>12, <1>16, <1>17, <1>18, ItemTaken

\* A parenthesis of a list that is expected.
LEMMA DelimiterTaken ==
  ASSUME Sure, NEW slot, NEW i, NEW rest, EntryAt("value", slot, i, rest),
         Numbering("value", slot, i, rest), ReadExpected
  PROVE  Advances("value", slot, i, rest)
<1> USE DEF Sure
<1>1. PICK c \in {1, 3}, n \in Nat, r \in Nat : IsList(slot, i, rest, c, n, r) /\ r <= Places(n, c)
  BY NumberingFacts
<1>2. i \in Nat
  BY NumberingFacts
<1>3. IsSeq(rest) /\ FoundOK
  BY DEF EntryAt
<1>4. Accepts /\ Rule = "expect" /\ TakeToken /\ UNCHANGED <<local, found, patches>> /\ Go(<<>>)
  BY DEF ReadExpected, Reading
<1>5. ParenOpen \in Structural /\ ParenClose \in Structural
  BY TokenNames DEF Structural
<1>6. Places(n, c) \in Nat
  BY ItemsAre
<1>7. ASSUME NEW t \in Structural, Of = t PROVE Peek = t /\ Token /\ Stack
  <2>1. Peek # "end" /\ Peek \in Usable
    BY <1>4, <1>7, NotEnd
  <2>2. Peek = t
    BY <1>4, <1>7, <2>1, UsableFacts
  <2> QED
    BY <1>4, <2>1, <2>2, TokenStep
<1>8. CASE r = Places(n, c)
  <2>1. goals = ListGoals(n, c, slot, r) \o rest
    BY <1>1 DEF IsList, Itemised, ListGoals
  <2>2. goals = <<Expect(ParenClose), Expect(Semicolon)>> \o rest
    BY <1>3, <1>8, <2>1, ListGoalsEnd DEF Ends
  <2>3. Of = Expect(ParenClose).of /\ (Go(<<>>) => goals' = <<Expect(Semicolon)>> \o rest)
    BY <1>3, <2>2, GoalTwo
  <2>4. Of = ParenClose /\ goals' = <<Expect(Semicolon)>> \o rest
    BY <1>4, <2>3, Literals
  <2>5. Peek = ParenClose /\ Token
    BY <1>5, <1>7, <2>4
  <2> QED
    BY <1>1, <1>2, <1>4, <1>8, <2>4, <2>5, ListEnds
<1>9. CASE r < Places(n, c)
  <2>1. PICK item, number : number = GoalOf("number", slot) /\ item = ItemAt(c, number, r + 1)
    OBVIOUS
  <2>2. Rule = item.rule /\ Of = item.of /\ goals' = ListGoals(n, c, slot, r + 1) \o rest
    <3>1. NextItem(c, slot, r, item)
      BY <2>1 DEF NextItem
    <3>2. IsList(slot, i, rest, c, n, r)
      BY <1>1
    <3>3. Leaves(item, n, c, slot, r, rest)
      BY <1>3, <1>9, <3>1, <3>2, ListGoalsLeft
    <3> QED
      BY <1>4, <3>3 DEF Leaves
  <2>3. /\ ANumber(c, r, item, number) \/ AnOpener(c, r, item) \/ ACloser(c, r, item)
        /\ Kept(c, r) \in Nat /\ Depth(c, r) \in {1, 2} /\ Depth(c, r + 1) \in {1, 2}
    BY <2>1, ItemCases
  <2>4. ~ANumber(c, r, item, number)
    <3>1. item.rule = "expect"
      BY <1>4, <2>2
    <3> QED
      BY <2>1, <3>1, Literals DEF ANumber
  <2>5. /\ found[slot] = [Value("nonuniform", i + 2, n) EXCEPT !.kept = IF full THEN Kept(c, r) ELSE 0]
        /\ Level(text, at) = Level(text, i) + Depth(c, r) /\ local = <<>>
    BY <1>1 DEF IsList, Itemised
  <2>6. Token /\ ItemIs(c, r + 1, Peek) /\ Kept(c, r + 1) = Kept(c, r)
        /\ Level(text, at + 1) = Level(text, i) + Depth(c, r + 1)
    <3>1. CASE AnOpener(c, r, item)
      <4>1. Of = ParenOpen
        BY <2>2, <3>1, Literals DEF AnOpener
      <4>2. Peek = ParenOpen /\ Token
        BY <1>5, <1>7, <4>1
      <4>3. Level(text, at + 1) = Level(text, at) + 1 /\ Level(text, at) \in Int
        BY <4>2, TokenNames DEF Token
      <4>4. ItemIs(c, r + 1, Peek) /\ Kept(c, r + 1) = Kept(c, r) /\ Depth(c, r + 1) = Depth(c, r) + 1
        BY <3>1, <4>2 DEF AnOpener
      <4>5. Level(text, i) \in Int
        <5>1. i \in 1 .. Len(text) /\ text \in Seq(Tokens)
          BY <4>2 DEF Token, EntryAt
        <5> QED
          BY <5>1, LevelType
      <4> QED
        BY <2>3, <2>5, <4>2, <4>3, <4>4, <4>5
    <3>2. CASE ACloser(c, r, item)
      <4>1. Of = ParenClose
        BY <2>2, <3>2, Literals DEF ACloser
      <4>2. Peek = ParenClose /\ Token
        BY <1>5, <1>7, <4>1
      <4>3. Level(text, at + 1) = Level(text, at) - 1 /\ Level(text, at) \in Int
        BY <4>2, TokenNames DEF Token
      <4>4. ItemIs(c, r + 1, Peek) /\ Kept(c, r + 1) = Kept(c, r) /\ Depth(c, r + 1) = Depth(c, r) - 1
        BY <3>2, <4>2 DEF ACloser
      <4>5. Level(text, i) \in Int
        <5>1. i \in 1 .. Len(text) /\ text \in Seq(Tokens)
          BY <4>2 DEF Token, EntryAt
        <5> QED
          BY <5>1, LevelType
      <4> QED
        BY <2>3, <2>5, <4>2, <4>3, <4>4, <4>5
    <3> QED
      BY <2>3, <2>4, <3>1, <3>2
  <2>7. Stays(slot)
    BY <1>3, <1>4, <2>6, StaysSame
  <2>8. found'[slot] = [Value("nonuniform", i + 2, n) EXCEPT !.kept = IF full THEN Kept(c, r + 1) ELSE 0]
    BY <1>4, <2>5, <2>6
  <2>9. local' = <<>>
    BY <1>4, <2>5
  <2> QED
    BY <1>1, <1>2, <1>9, <2>2, <2>3, <2>6, <2>7, <2>8, <2>9, ItemTaken
<1> QED
  BY <1>1, <1>6, <1>8, <1>9

-----------------------------------------------------------------------------
\* By its rule a step is one action.
LEMMA ReadBy ==
  ASSUME Read, ~Refuse
  PROVE  /\ Rule = "file" => ReadFile
         /\ Rule = "header" => ReadHeader
         /\ Rule = "boundary" => ReadBoundary
         /\ Rule = "patch" => ReadPatch
         /\ Rule = "expect" => ReadExpected
         /\ Rule = "semicolon?" => ReadOptional
         /\ Rule = "scalar" => ReadScalar
         /\ Rule = "exponents" => ReadExponent
         /\ Rule = "value" => ReadValue
         /\ Rule = "uniform" => ReadUniform
         /\ Rule = "list" => ReadList
         /\ Rule = "count" => ReadCount
         /\ Rule = "opener" => ReadOpener
         /\ Rule = "number" => ReadNumber
         /\ Rule = "exact" => SkipFirstOfExact
         /\ Rule = "line" => SkipFirstOfLine
         /\ Rule = "group" => TakeGroup
         /\ Rule = "rest" => TakeRest
<1>1. /\ ReadFile => Rule = "file"
      /\ ReadHeader => Rule = "header"
      /\ ReadBoundary => Rule = "boundary"
      /\ ReadPatch => Rule = "patch"
      /\ ReadExpected => Rule = "expect"
      /\ ReadOptional => Rule = "semicolon?"
      /\ ReadScalar => Rule = "scalar"
      /\ ReadExponent => Rule = "exponents"
      /\ ReadValue => Rule = "value"
  BY Zenon DEF ReadFile, ReadHeader, ReadBoundary, ReadPatch, ReadExpected, ReadOptional, ReadScalar, ReadExponent,
       ReadValue, Reading
<1>2. /\ ReadUniform => Rule = "uniform"
      /\ ReadList => Rule = "list"
      /\ ReadCount => Rule = "count"
      /\ ReadOpener => Rule = "opener"
      /\ ReadNumber => Rule = "number"
      /\ SkipFirstOfExact => Rule = "exact"
      /\ SkipFirstOfLine => Rule = "line"
      /\ TakeGroup => Rule = "group"
      /\ TakeRest => Rule = "rest"
  BY Zenon DEF ReadUniform, ReadList, ReadCount, ReadOpener, ReadNumber, SkipFirstOfExact, SkipFirstOfLine, TakeGroup,
       TakeRest, Reading
<1>3. \/ ReadFile \/ ReadHeader \/ ReadBoundary \/ ReadPatch
      \/ ReadExpected \/ ReadOptional \/ ReadScalar \/ ReadExponent
      \/ ReadValue \/ ReadUniform \/ ReadList \/ ReadCount \/ ReadOpener
      \/ ReadNumber
      \/ SkipFirstOfExact \/ SkipFirstOfLine \/ TakeGroup \/ TakeRest
  BY DEF Read
<1> QED
  BY <1>1, <1>2, <1>3

\* The rule of a list that is being read.
LEMMA NumberingRule ==
  ASSUME Sure, NEW slot, NEW i, NEW rest, EntryAt("value", slot, i, rest), Numbering("value", slot, i, rest)
  PROVE  Rule \in {"number", "expect"}
<1>1. PICK c \in {1, 3}, n \in Nat, r \in Nat : IsList(slot, i, rest, c, n, r) /\ r <= Places(n, c)
  BY NumberingFacts
<1>2. Places(n, c) \in Nat /\ IsSeq(rest)
  BY ItemsAre DEF EntryAt
<1>3. CASE r = Places(n, c)
  <2>1. goals = ListGoals(n, c, slot, r) \o rest
    BY <1>1 DEF IsList, Itemised, ListGoals
  <2>2. goals = <<Expect(ParenClose), Expect(Semicolon)>> \o rest
    BY <1>2, <1>3, <2>1, ListGoalsEnd DEF Ends
  <2>3. Rule = Expect(ParenClose).rule
    BY <1>2, <2>2, GoalTwo
  <2> QED
    BY <2>3, Literals
<1>4. CASE r < Places(n, c)
  <2>1. PICK item, number : number = GoalOf("number", slot) /\ item = ItemAt(c, number, r + 1)
    OBVIOUS
  <2>2. NextItem(c, slot, r, item)
    BY <2>1 DEF NextItem
  <2>3. IsList(slot, i, rest, c, n, r)
    BY <1>1
  <2>4. Leaves(item, n, c, slot, r, rest)
    BY <1>2, <1>4, <2>2, <2>3, ListGoalsLeft
  <2>5. ANumber(c, r, item, number) \/ AnOpener(c, r, item) \/ ACloser(c, r, item)
    BY <2>1, ItemCases
  <2>6. item.rule \in {"number", "expect"}
    BY <2>1, <2>5, Literals DEF ANumber, AnOpener, ACloser
  <2> QED
    BY <2>4, <2>6 DEF Leaves
<1> QED
  BY <1>1, <1>2, <1>3, <1>4

\* A token that is taken within an entry.
LEMMA StartedTaken ==
  ASSUME Sure, NEW kind, NEW slot, NEW i, NEW rest, EntryAt(kind, slot, i, rest), Started(kind, slot, i, rest),
         Read, ~Refuse
  PROVE  Advances(kind, slot, i, rest)
<1>1. goals = StartGoals(kind, slot) \o rest /\ IsSeq(rest)
  BY DEF Started, EntryAt
<1>2. CASE kind = "exact"
  <2>1. goals = <<Goal("exact")>> \o rest
    BY <1>1, <1>2 DEF StartGoals
  <2>2. Rule = Goal("exact").rule
    BY <1>1, <2>1, GoalOne
  <2>3. SkipFirstOfExact
    BY <2>2, ReadBy, Literals
  <2> QED
    BY <1>2, <2>3, ExactBegins
<1>3. CASE kind = "line"
  <2>1. goals = <<Goal("line")>> \o rest
    BY <1>1, <1>3 DEF StartGoals
  <2>2. Rule = Goal("line").rule
    BY <1>1, <2>1, GoalOne
  <2>3. SkipFirstOfLine
    BY <2>2, ReadBy, Literals
  <2> QED
    BY <1>3, <2>3, LineBegins
<1>4. CASE kind = "word"
  <2>1. goals = <<GoalOf("scalar", slot), Expect(Semicolon)>> \o rest
    BY <1>1, <1>4 DEF StartGoals
  <2>2. Rule = GoalOf("scalar", slot).rule
    BY <1>1, <2>1, GoalTwo
  <2>3. ReadScalar
    BY <2>2, ReadBy, Literals
  <2> QED
    BY <1>4, <2>3, WordTaken
<1>5. CASE kind = "value"
  <2>1. goals = <<GoalOf("value", slot)>> \o rest
    BY <1>1, <1>5 DEF StartGoals
  <2>2. Rule = GoalOf("value", slot).rule
    BY <1>1, <2>1, GoalOne
  <2>3. ReadValue
    BY <2>2, ReadBy, Literals
  <2> QED
    BY <1>5, <2>3, ValueBegins
<1>6. CASE kind = "exponents"
  <2>1. goals = <<Expect(BracketOpen), GoalOf("exponents", 0)>> \o rest
    BY <1>1, <1>6 DEF StartGoals
  <2>2. Rule = Expect(BracketOpen).rule
    BY <1>1, <2>1, GoalTwo
  <2>3. ReadExpected
    BY <2>2, ReadBy, Literals
  <2> QED
    BY <1>6, <2>3, ExponentsBegin
<1> QED
  BY <1>2, <1>3, <1>4, <1>5, <1>6 DEF EntryAt, Fitting

\* Whatever is read in an entry, its stage advances.
LEMMA StageTaken ==
  ASSUME Sure, NEW kind, NEW slot, NEW i, NEW rest, EntryAt(kind, slot, i, rest), Stage(kind, slot, i, rest),
         Read, ~Refuse
  PROVE  Advances(kind, slot, i, rest)
<1>1. IsSeq(rest)
  BY DEF EntryAt
<1>2. CASE Started(kind, slot, i, rest)
  BY <1>2, StartedTaken
<1>3. CASE Ending(kind, slot, i, rest)
  <2>1. goals = <<Expect(Semicolon)>> \o rest
    BY <1>3 DEF Ending
  <2>2. Rule = Expect(Semicolon).rule
    BY <1>1, <2>1, GoalOne
  <2>3. ReadExpected
    BY <2>2, ReadBy, Literals
  <2> QED
    BY <1>3, <2>3, EndingTaken
<1>4. CASE Grouped(kind, slot, i, rest)
  <2>1. goals = <<Goal("group"), Expect(Semicolon)>> \o rest
    BY <1>4 DEF Grouped
  <2>2. Rule = Goal("group").rule
    BY <1>1, <2>1, GoalTwo
  <2>3. TakeGroup
    BY <2>2, ReadBy, Literals
  <2> QED
    BY <1>4, <2>3, GroupedTaken
<1>5. CASE Bracing(kind, slot, i, rest)
  <2>1. goals = <<Goal("group"), Goal("semicolon?")>> \o rest
    BY <1>5 DEF Bracing
  <2>2. Rule = Goal("group").rule
    BY <1>1, <2>1, GoalTwo
  <2>3. TakeGroup
    BY <2>2, ReadBy, Literals
  <2> QED
    BY <1>5, <2>3, BracingTaken
<1>6. CASE Braced(kind, slot, i, rest)
  <2>1. goals = <<Goal("semicolon?")>> \o rest
    BY <1>6 DEF Braced
  <2>2. Rule = Goal("semicolon?").rule
    BY <1>1, <2>1, GoalOne
  <2>3. ReadOptional
    BY <2>2, ReadBy, Literals
  <2> QED
    BY <1>6, <2>3, BracedTaken
<1>7. CASE Lining(kind, slot, i, rest)
  <2>1. goals = <<Goal("rest")>> \o rest
    BY <1>7 DEF Lining
  <2>2. Rule = Goal("rest").rule
    BY <1>1, <2>1, GoalOne
  <2>3. TakeRest
    BY <2>2, ReadBy, Literals
  <2> QED
    BY <1>7, <2>3, LineTaken
<1>8. CASE Counting(kind, slot, i, rest)
  <2>1. PICK m : goals = <<GoalOf("exponents", m)>> \o rest
    BY <1>8 DEF Counting
  <2>2. kind = "exponents"
    BY <1>8 DEF Counting
  <2>3. Rule = GoalOf("exponents", m).rule
    BY <1>1, <2>1, GoalOne
  <2>4. ReadExponent
    BY <2>3, ReadBy, Literals
  <2> QED
    BY <1>8, <2>2, <2>4, ExponentTaken
<1>9. CASE UniformNext(kind, slot, i, rest)
  <2>1. goals = <<Goal("uniform"), Expect(Semicolon)>> \o rest /\ kind = "value"
    BY <1>9 DEF UniformNext
  <2>2. Rule = Goal("uniform").rule
    BY <1>1, <2>1, GoalTwo
  <2>3. ReadUniform
    BY <2>2, ReadBy, Literals
  <2> QED
    BY <1>9, <2>1, <2>3, UniformTaken
<1>10. CASE Listing(kind, slot, i, rest)
  <2>1. goals = <<GoalOf("list", slot)>> \o rest /\ kind = "value"
    BY <1>10 DEF Listing
  <2>2. Rule = GoalOf("list", slot).rule
    BY <1>1, <2>1, GoalOne
  <2>3. ReadList
    BY <2>2, ReadBy, Literals
  <2> QED
    BY <1>10, <2>1, <2>3, ListTaken
<1>11. CASE Sizing(kind, slot, i, rest)
  <2>1. PICK of : goals = <<GoalOf("count", of)>> \o rest
    BY <1>11 DEF Sizing
  <2>2. kind = "value"
    BY <1>11 DEF Sizing
  <2>3. Rule = GoalOf("count", of).rule
    BY <1>1, <2>1, GoalOne
  <2>4. ReadCount
    BY <2>3, ReadBy, Literals
  <2> QED
    BY <1>11, <2>2, <2>4, CountTaken
<1>12. CASE Sized(kind, slot, i, rest)
  <2>1. PICK of : goals = <<GoalOf("opener", of)>> \o rest
    BY <1>12 DEF Sized
  <2>2. kind = "value"
    BY <1>12 DEF Sized
  <2>3. Rule = GoalOf("opener", of).rule
    BY <1>1, <2>1, GoalOne
  <2>4. ReadOpener
    BY <2>3, ReadBy, Literals
  <2> QED
    BY <1>12, <2>2, <2>4, OpenerTaken
<1>13. CASE Numbering(kind, slot, i, rest)
  <2>1. kind = "value"
    BY <1>13 DEF Numbering
  <2>2. Rule \in {"number", "expect"}
    BY <1>13, <2>1, NumberingRule
  <2>3. ReadNumber \/ ReadExpected
    BY <2>2, ReadBy
  <2> QED
    BY <1>13, <2>1, <2>3, NumberTaken, DelimiterTaken
<1> QED
  BY <1>2, <1>3, <1>4, <1>5, <1>6, <1>7, <1>8, <1>9, <1>10, <1>11, <1>12, <1>13 DEF Stage

-----------------------------------------------------------------------------
(***************************************************************************)
(* What is valid is accepted.                                              *)
(***************************************************************************)

\* An entry of a file that is whole, as it has to be.
Last(i) == To(text, i, FALSE)
Fine(kind, i) == Whole(text) /\ Ended(text, i) /\ IsA(kind, text, full, i + 1, Last(i))

\* In a file that is whole only the rules refuse a token.
LEMMA Accepting ==
  ASSUME Sure, Whole(text), Peek \in Usable, Rule \in {"group", "rest"} => Tracks(local, Peek)
  PROVE  Accepts
BY WholePeek DEF Accepts, Sure

\* The tokens of a file that is whole.
LEMMA WholeTokens ==
  ASSUME NEW file \in Seq(Tokens), Whole(file), NEW q \in 1 .. Len(file)
  PROVE  file[q] \in Tokens /\ file[q] # "fault" /\ file[q] \in Plain \cup Openers \cup Closers \cup {Semicolon}
<1>1. file[q] \in Tokens /\ file[q] # "fault"
  BY DEF Whole
<1> QED
  BY <1>1, TokenKinds DEF Structural

\* The line of an entry that is fine: its semicolon has not been passed.
LineTo(i, s) ==
  /\ s \in at .. Len(text) /\ at \in 1 .. Len(text) /\ i \in 1 .. Len(text) /\ i \in Nat /\ at > i
  /\ LineStop(text, i) = s /\ Last(i) = s - 1 /\ s - 1 > i
  /\ text[s] = Semicolon /\ Level(text, s) = Level(text, i)
  /\ \A q \in i .. s : Level(text, i) <= Level(text, q)
  /\ text \in Seq(Tokens) /\ Peek = text[at] /\ Peek \in Tokens /\ Peek # "fault"

\* A line that is valid and no block goes up to its stop.
LEMMA LineFine ==
  ASSUME Sure, NEW kind, NEW slot, NEW i, NEW rest, EntryAt(kind, slot, i, rest), Fine(kind, i), ~Block(text, i)
  PROVE  LineTo(i, LineStop(text, i))
<1>1. /\ at \in Nat /\ Len(text) \in Nat /\ at >= 1 /\ at <= Len(text) + 1 /\ text \in Seq(Tokens)
  BY AtFacts DEF Sure
<1>2. i \in 1 .. at - 1 /\ Going(text, i, at)
  BY DEF EntryAt
<1>3. i \in 1 .. Len(text) /\ at \in i + 1 .. Len(text) + 1 /\ i \in Nat
  BY <1>1, <1>2
<1>4. EntryEnd(text, i, FALSE) = LineStop(text, i)
  BY Zenon DEF EntryEnd
<1>5. EntryEnd(text, i, FALSE) # 0 /\ Last(i) > i
  BY Zenon DEF Fine, Ended, Last
<1>6. /\ LineStop(text, i) \in at .. Len(text)
      /\ text[LineStop(text, i)] = Semicolon
      /\ Level(text, LineStop(text, i)) = Level(text, i)
      /\ \A q \in i .. LineStop(text, i) : Level(text, i) <= Level(text, q)
  BY <1>1, <1>2, <1>3, <1>4, <1>5, LineStopsLater
<1>7. Last(i) = LineStop(text, i) - 1
  BY <1>4, <1>6, Zenon DEF To, Last
<1>8. at \in 1 .. Len(text)
  BY <1>1, <1>6
<1>9. Peek = text[at]
  BY <1>8 DEF Peek, TokenAt
<1>10. Peek \in Tokens /\ Peek # "fault"
  BY <1>1, <1>8, <1>9, WholeTokens DEF Fine
<1> QED
  BY <1>1, <1>3, <1>5, <1>6, <1>7, <1>8, <1>9, <1>10 DEF LineTo

\* The block of an entry that is fine and skipped.
LEMMA BlockFine ==
  ASSUME Sure, NEW kind, NEW i \in Nat, i # 0, Fine(kind, i), Block(text, i)
  PROVE  /\ i + 1 \in 1 .. Len(text) /\ text[i + 1] = BraceOpen
         /\ Partner(text, i + 1) \in i + 2 .. Len(text)
         /\ Last(i) = Partner(text, i + 1)
         /\ Level(text, Partner(text, i + 1) + 1) = Level(text, i + 1)
<1>1. /\ at \in Nat /\ Len(text) \in Nat /\ text \in Seq(Tokens)
  BY AtFacts DEF Sure
<1>2. TokenAt(text, i + 1) = BraceOpen
  BY DEF Block
<1>3. i + 1 <= Len(text) /\ text[i + 1] = BraceOpen
  BY <1>1, <1>2, TokenNames DEF TokenAt
<1> DEFINE p == Partner(text, i + 1)
<1>4. PICK e : e = EntryEnd(text, i, FALSE)
  OBVIOUS
<1>5. e = IF p # 0 /\ TokenAt(text, p + 1) = Semicolon THEN p + 1 ELSE p
  BY <1>4, Zenon DEF EntryEnd, Fine, Ended, BlockStop
<1>6. p # 0 /\ Last(i) = IF text[e] = Semicolon THEN e - 1 ELSE e
  BY <1>4, <1>5, Zenon DEF EntryEnd, Fine, Ended, To, Last
<1>7. p \in i + 2 .. Len(text) /\ Level(text, p + 1) = Level(text, i + 1)
  BY <1>1, <1>6, PartnerFacts
<1>8. text[p] # Semicolon
  <2>1. <<text[i + 1], text[p]>> \in Matching
    BY <1>1, <1>3, TokenNames DEF Fine, Whole
  <2> QED
    BY <2>1 DEF Matching, Semicolon, BraceClose, ParenClose, BracketClose, BraceOpen, ParenOpen, BracketOpen
<1> HIDE DEF p
<1>9. Last(i) = p
  <2>1. CASE TokenAt(text, p + 1) = Semicolon
    <3>1. text[p + 1] = Semicolon
      BY <1>1, <1>7, <2>1, TokenNames DEF TokenAt
    <3> QED
      BY <1>5, <1>6, <1>7, <2>1, <3>1
  <2>2. CASE TokenAt(text, p + 1) # Semicolon
    BY <1>5, <1>6, <1>8, <2>2
  <2> QED
    BY <2>1, <2>2
<1> QED
  BY <1>1, <1>3, <1>7, <1>9 DEF p

\* A value ends at one place.
LEMMA EndsOnce ==
  ASSUME NEW kind, NEW file, NEW keep, NEW a \in Nat, NEW b \in Int, NEW c \in Int,
         IsA(kind, file, keep, a, b), IsA(kind, file, keep, a, c),
         kind \in {"exact", "word", "value", "exponents"},
         kind = "value" => file[a] \in {"uniform", "nonuniform"}
  PROVE  b = c
<1>1. ASSUME NEW d, OneOrGroup(file, d, b), OneOrGroup(file, d, c) PROVE b = c
  <2>1. Plain \cap Openers = {}
    BY TokenKinds DEF Structural
  <2> QED
    BY <1>1, <2>1 DEF OneOrGroup
<1>2. CASE kind = "exact"
  BY <1>1, <1>2 DEF IsA
<1>3. CASE kind = "word"
  BY <1>3 DEF IsA, Word
<1>4. CASE kind = "value" /\ file[a] = "uniform"
  <2>1. OneOrGroup(file, a + 1, b) /\ OneOrGroup(file, a + 1, c)
    BY <1>4 DEF IsA, FieldValue
  <2> QED
    BY <1>1, <2>1
<1>5. CASE kind = "value" /\ file[a] = "nonuniform"
  <2>1. ListOf(file, keep, a, b) /\ ListOf(file, keep, a, c)
    BY <1>5 DEF IsA, FieldValue
  <2> QED
    BY <2>1, Zenon DEF ListOf
<1>6. CASE kind = "exponents"
  <2>1. Exponents(file, a, b) /\ Exponents(file, a, c)
    BY <1>6 DEF IsA
  <2>2. BracketClose \notin Numbers
    <3>1. Numbers \subseteq Plain /\ BracketClose \in Structural
      BY ListWords, TokenNames DEF Structural
    <3> QED
      BY <3>1, TokenKinds
  <2>3. /\ file[b] = BracketClose /\ b - a - 1 \in {5, 7} /\ \A j \in a + 1 .. b - 1 : file[j] \in Numbers
        /\ file[c] = BracketClose /\ c - a - 1 \in {5, 7} /\ \A j \in a + 1 .. c - 1 : file[j] \in Numbers
    BY <2>1 DEF Exponents
  <2>4. ASSUME b < c PROVE FALSE
    <3>1. b \in a + 1 .. c - 1
      BY <2>3, <2>4
    <3> QED
      BY <2>2, <2>3, <3>1
  <2>5. ASSUME c < b PROVE FALSE
    <3>1. c \in a + 1 .. b - 1
      BY <2>3, <2>5
    <3> QED
      BY <2>2, <2>3, <3>1
  <2> QED
    BY <2>4, <2>5
<1> QED
  BY <1>2, <1>3, <1>4, <1>5, <1>6

-----------------------------------------------------------------------------
\* What a value that is fine begins with.
LEMMA FirstOf ==
  ASSUME NEW kind, NEW file, NEW keep, NEW a \in Nat, NEW b, IsA(kind, file, keep, a, b)
  PROVE  /\ kind = "exact" => file[a] \in Plain \cup Openers
         /\ kind = "word" => file[a] \in Ordinary
         /\ kind = "value" => file[a] \in Plain
         /\ kind = "exponents" => file[a] = BracketOpen
<1>1. CASE kind = "exact"
  BY <1>1, Zenon DEF IsA, OneOrGroup
<1>2. CASE kind = "word"
  BY <1>2 DEF IsA, Word
<1>3. CASE kind = "value"
  <2>1. FieldValue(file, keep, a, b)
    BY <1>3 DEF IsA
  <2>2. "uniform" \in Plain /\ "nonuniform" \in Plain
    BY DEF Plain, Ordinary, Keywords
  <2> QED
    BY <1>3, <2>1, <2>2 DEF FieldValue
<1>4. CASE kind = "exponents"
  BY <1>4 DEF IsA, Exponents
<1> QED
  BY <1>1, <1>2, <1>3, <1>4

\* The first token of an entry that is fine.
LEMMA FirstFine ==
  ASSUME Sure, NEW kind, NEW slot, NEW i, NEW rest, EntryAt(kind, slot, i, rest), Fine(kind, i), at = i + 1
  PROVE  /\ at \in 1 .. Len(text) /\ Peek = text[i + 1]
         /\ kind = "line" => Peek \in Plain \cup Openers
<1>1. /\ at \in Nat /\ Len(text) \in Nat /\ text \in Seq(Tokens)
  BY AtFacts DEF Sure
<1>2. i \in 1 .. at - 1 /\ i \in Nat /\ i # 0 /\ Going(text, i, at) /\ text[i] \in Plain
  BY <1>1 DEF EntryAt
<1>3. CASE Block(text, i)
  <2>1. i + 1 \in 1 .. Len(text) /\ text[i + 1] = BraceOpen
    BY <1>2, <1>3, BlockFine
  <2> QED
    BY <2>1, TokenNames DEF Peek, TokenAt
<1>4. CASE ~Block(text, i)
  <2>1. LineTo(i, LineStop(text, i))
    BY <1>4, LineFine
  <2>2. PICK s : s = LineStop(text, i)
    OBVIOUS
  <2>3. /\ s \in at .. Len(text) /\ at \in 1 .. Len(text) /\ i \in 1 .. Len(text) /\ s - 1 > i
        /\ \A q \in i .. s : Level(text, i) <= Level(text, q)
        /\ Peek = text[at] /\ Peek \in Tokens /\ Peek # "fault"
    BY <2>1, <2>2 DEF LineTo
  <2>4. Level(text, i + 1) = Level(text, i) /\ Level(text, i) \in Int
    BY <1>1, <1>2, <2>3, GoingStarts, LevelType
  <2>5. Peek # Semicolon
    <3> SUFFICES ASSUME Peek = Semicolon PROVE FALSE
      OBVIOUS
    <3>1. at \in i + 1 .. Len(text) /\ text[at] = Semicolon /\ Level(text, at) = Level(text, i)
      BY <1>1, <1>2, <2>3, <2>4
    <3>2. LineStop(text, i) = at
      BY <1>1, <1>2, <2>3, <3>1, LineStops
    <3> QED
      BY <1>2, <2>2, <2>3, <3>2
  <2>6. Peek \notin Closers
    <3> SUFFICES ASSUME Peek \in Closers PROVE FALSE
      OBVIOUS
    <3>1. Level(text, at + 1) = Level(text, at) - 1
      BY <1>1, <2>3, LevelStep
    <3>2. at + 1 \in i .. s
      BY <1>2, <2>3
    <3> QED
      BY <2>3, <2>4, <3>1, <3>2
  <2>7. Peek \in Plain \cup Openers
    BY <2>3, <2>5, <2>6, TokenKinds DEF Structural
  <2> QED
    BY <2>3, <2>7
<1> QED
  BY <1>3, <1>4

\* It is accepted.
LEMMA StartedAccepts ==
  ASSUME Sure, NEW kind, NEW slot, NEW i, NEW rest, EntryAt(kind, slot, i, rest), Fine(kind, i),
         Started(kind, slot, i, rest)
  PROVE  Accepts
<1>1. goals = StartGoals(kind, slot) \o rest /\ IsSeq(rest) /\ at = i + 1
  BY DEF Started, EntryAt
<1>2. /\ at \in 1 .. Len(text) /\ Peek = text[i + 1]
      /\ kind = "line" => Peek \in Plain \cup Openers
  BY <1>1, FirstFine
<1>3. Whole(text) /\ IsA(kind, text, full, i + 1, Last(i)) /\ i + 1 \in Nat
  BY <1>1, <1>2 DEF Fine
<1>4. /\ kind = "exact" => Peek \in Plain \cup Openers
      /\ kind = "word" => Peek \in Ordinary
      /\ kind = "value" => Peek \in Plain
      /\ kind = "exponents" => Peek = BracketOpen
  BY <1>2, <1>3, FirstOf
<1>5. Peek \in Usable /\ Rule \notin {"group", "rest"}
  <2>1. CASE kind = "exact"
    <3>1. goals = <<Goal("exact")>> \o rest
      BY <1>1, <2>1 DEF StartGoals
    <3>2. Rule = Goal("exact").rule
      BY <1>1, <3>1, GoalOne
    <3>3. Rule = "exact"
      BY <3>2, Literals
    <3> QED
      BY <1>4, <2>1, <3>3, UsableFacts
  <2>2. CASE kind = "line"
    <3>1. goals = <<Goal("line")>> \o rest
      BY <1>1, <2>2 DEF StartGoals
    <3>2. Rule = Goal("line").rule
      BY <1>1, <3>1, GoalOne
    <3>3. Rule = "line"
      BY <3>2, Literals
    <3> QED
      BY <1>2, <2>2, <3>3, UsableFacts
  <2>3. CASE kind = "word"
    <3>1. goals = <<GoalOf("scalar", slot), Expect(Semicolon)>> \o rest
      BY <1>1, <2>3 DEF StartGoals
    <3>2. Rule = GoalOf("scalar", slot).rule
      BY <1>1, <3>1, GoalTwo
    <3>3. Rule = "scalar"
      BY <3>2, Literals
    <3> QED
      BY <1>4, <2>3, <3>3, UsableFacts
  <2>4. CASE kind = "value"
    <3>1. goals = <<GoalOf("value", slot)>> \o rest
      BY <1>1, <2>4 DEF StartGoals
    <3>2. Rule = GoalOf("value", slot).rule
      BY <1>1, <3>1, GoalOne
    <3>3. Rule = "value"
      BY <3>2, Literals
    <3> QED
      BY <1>4, <2>4, <3>3, UsableFacts
  <2>5. CASE kind = "exponents"
    <3>1. goals = <<Expect(BracketOpen), GoalOf("exponents", 0)>> \o rest
      BY <1>1, <2>5 DEF StartGoals
    <3>2. Rule = Expect(BracketOpen).rule /\ Of = Expect(BracketOpen).of
      BY <1>1, <3>1, GoalTwo
    <3>3. Rule = "expect" /\ Of = BracketOpen
      BY <3>2, Literals
    <3> QED
      BY <1>4, <2>5, <3>3, UsableFacts
  <2> QED
    BY <2>1, <2>2, <2>3, <2>4, <2>5 DEF EntryAt, Fitting
<1> QED
  BY <1>3, <1>5, Accepting

\* The semicolon behind a value.
LEMMA EndingAccepts ==
  ASSUME Sure, NEW kind, NEW slot, NEW i, NEW rest, EntryAt(kind, slot, i, rest), Fine(kind, i),
         Ending(kind, slot, i, rest)
  PROVE  Accepts
<1>1. /\ goals = <<Expect(Semicolon)>> \o rest /\ IsSeq(rest) /\ ~Block(text, i)
      /\ kind # "line" /\ IsA(kind, text, full, i + 1, at - 1)
      /\ kind = "value" => text[i + 1] \in {"uniform", "nonuniform"}
  BY DEF Ending, EntryAt
<1>2. PICK s : s = LineStop(text, i)
  OBVIOUS
<1>3. LineTo(i, s)
  BY <1>1, <1>2, LineFine
<1>4. /\ at \in Int /\ i \in Nat /\ s \in Int /\ Last(i) = s - 1 /\ text[s] = Semicolon /\ Peek = text[at]
  BY <1>3 DEF LineTo
<1>5. IsA(kind, text, full, i + 1, Last(i)) /\ Whole(text)
  BY DEF Fine
<1>6. kind \in {"exact", "word", "value", "exponents"}
  BY <1>1 DEF EntryAt, Fitting
<1>7. at - 1 = s - 1
  <2> DEFINE a == i + 1
             b == at - 1
             c == s - 1
  <2>1. a \in Nat /\ b \in Int /\ c \in Int
    BY <1>4
  <2>2. IsA(kind, text, full, a, b) /\ IsA(kind, text, full, a, c) /\ (kind = "value" => text[a] \in {"uniform", "nonuniform"})
    BY <1>1, <1>4, <1>5
  <2> HIDE DEF a, b, c
  <2>3. b = c
    BY <1>6, <2>1, <2>2, EndsOnce
  <2> QED
    BY <2>3 DEF b, c
<1>8. Peek = Semicolon
  BY <1>4, <1>7
<1>9. Rule = Expect(Semicolon).rule /\ Of = Expect(Semicolon).of
  BY <1>1, GoalOne
<1>10. Rule = "expect" /\ Of = Semicolon
  BY <1>9, Literals
<1> QED
  BY <1>5, <1>8, <1>10, UsableFacts, Accepting

-----------------------------------------------------------------------------
\* A token of a group.
LEMMA GroupAccepts ==
  ASSUME Sure, NEW g, InGroup(g), Whole(text), at <= Len(text), Rule = "group"
  PROVE  Accepts
<1>1. /\ at \in Nat /\ Len(text) \in Nat /\ at \in 1 .. Len(text) + 1 /\ text \in Seq(Tokens)
  BY AtFacts DEF Sure
<1>2. at \in 1 .. Len(text) /\ Peek = text[at]
  BY <1>1 DEF Peek, TokenAt
<1>3. /\ g \in 1 .. at - 1 /\ Local(g)
      /\ \A q \in g + 1 .. at : Level(text, q) > Level(text, g)
  BY DEF InGroup
<1>4. at \in g + 1 .. at /\ g \in 1 .. at
  BY <1>1, <1>3
<1>5. Level(text, at) > Level(text, g)
  BY <1>3, <1>4
<1>6. local \in Seq(Openers) /\ Level(text, at) = Level(text, g) + Len(local)
  BY <1>3 DEF Local
<1>7. local # <<>>
  <2> SUFFICES ASSUME local = <<>> PROVE FALSE
    OBVIOUS
  <2>1. Len(local) = 0
    BY Tuples
  <2>2. Level(text, at) \in Int /\ Level(text, g) \in Int
    BY <1>1, <1>2, <1>3, LevelType
  <2> QED
    BY <1>5, <1>6, <2>1, <2>2
<1>8. Lexes(open, Peek)
  BY WholePeek DEF Sure
<1>9. Tracks(local, Peek)
  BY <1>3, <1>4, <1>7, <1>8, LocalTracks DEF Sure
<1>10. Peek \in Usable
  BY <1>1, <1>2, UsableFacts
<1> QED
  BY <1>9, <1>10, Accepting

\* Within a group of a valid entry the token is accepted.
LEMMA GroupedAccepts ==
  ASSUME Sure, NEW kind, NEW slot, NEW i, NEW rest, EntryAt(kind, slot, i, rest), Fine(kind, i),
         Grouped(kind, slot, i, rest)
  PROVE  Accepts
<1>1. goals = <<Goal("group"), Expect(Semicolon)>> \o rest /\ IsSeq(rest) /\ ~Block(text, i)
      /\ (InGroup(i + 1) \/ InGroup(i + 2))
  BY DEF Grouped, EntryAt
<1>2. PICK s : s = LineStop(text, i)
  OBVIOUS
<1>3. LineTo(i, s)
  BY <1>1, <1>2, LineFine
<1>4. at <= Len(text)
  BY <1>3 DEF LineTo
<1>5. Rule = Goal("group").rule
  BY <1>1, GoalTwo
<1>6. Rule = "group" /\ Whole(text)
  BY <1>5, Literals DEF Fine
<1> QED
  BY <1>1, <1>4, <1>6, GroupAccepts

\* A block that is skipped.
LEMMA BracingAccepts ==
  ASSUME Sure, NEW kind, NEW slot, NEW i, NEW rest, EntryAt(kind, slot, i, rest), Fine(kind, i),
         Bracing(kind, slot, i, rest)
  PROVE  Accepts
<1>1. goals = <<Goal("group"), Goal("semicolon?")>> \o rest /\ IsSeq(rest) /\ Block(text, i) /\ InGroup(i + 1)
  BY DEF Bracing, EntryAt
<1>2. /\ at \in Nat /\ Len(text) \in Nat /\ at \in 1 .. Len(text) + 1 /\ text \in Seq(Tokens)
  BY AtFacts DEF Sure
<1>3. i \in Nat /\ i # 0
  BY <1>2 DEF EntryAt
<1>4. PICK p : p = Partner(text, i + 1)
  OBVIOUS
<1>5. p \in i + 2 .. Len(text) /\ Level(text, p + 1) = Level(text, i + 1) /\ i + 1 \in 1 .. Len(text)
  BY <1>1, <1>3, <1>4, BlockFine
<1>6. at <= Len(text)
  <2> SUFFICES ASSUME at > Len(text) PROVE FALSE
    BY <1>2
  <2>1. p + 1 \in (i + 1) + 1 .. at
    BY <1>2, <1>3, <1>5
  <2>2. \A q \in (i + 1) + 1 .. at : Level(text, q) > Level(text, i + 1)
    BY <1>1 DEF InGroup
  <2>3. Level(text, i + 1) \in Int
    BY <1>2, <1>5, LevelType
  <2> QED
    BY <1>5, <2>1, <2>2, <2>3
<1>7. Rule = Goal("group").rule
  BY <1>1, GoalTwo
<1>8. Rule = "group" /\ Whole(text)
  BY <1>7, Literals DEF Fine
<1> QED
  BY <1>1, <1>6, <1>8, GroupAccepts

\* What is behind it.
LEMMA BracedAccepts ==
  ASSUME Sure, NEW kind, NEW slot, NEW i, NEW rest, EntryAt(kind, slot, i, rest), Fine(kind, i),
         Braced(kind, slot, i, rest)
  PROVE  Accepts
<1>1. goals = <<Goal("semicolon?")>> \o rest /\ IsSeq(rest)
  BY DEF Braced, EntryAt
<1>2. Rule = Goal("semicolon?").rule
  BY <1>1, GoalOne
<1>3. Rule = "semicolon?" /\ Whole(text)
  BY <1>2, Literals DEF Fine
<1>4. Peek \in Tokens \cup {"end"}
  BY <1>3, WholePeek DEF Sure
<1> QED
  BY <1>3, <1>4, UsableFacts, Accepting

\* A token of a line.
LEMMA LiningAccepts ==
  ASSUME Sure, NEW kind, NEW slot, NEW i, NEW rest, EntryAt(kind, slot, i, rest), Fine(kind, i),
         Lining(kind, slot, i, rest)
  PROVE  Accepts
<1>1. goals = <<Goal("rest")>> \o rest /\ IsSeq(rest) /\ ~Block(text, i) /\ Local(i)
  BY DEF Lining, EntryAt
<1>2. PICK s : s = LineStop(text, i)
  OBVIOUS
<1>3. LineTo(i, s)
  BY <1>1, <1>2, LineFine
<1>4. /\ at \in 1 .. Len(text) /\ i \in 1 .. Len(text) /\ i \in 1 .. at /\ s \in at .. Len(text)
      /\ text \in Seq(Tokens) /\ Peek = text[at] /\ Peek \in Tokens
      /\ text[s] = Semicolon /\ \A q \in i .. s : Level(text, i) <= Level(text, q)
      /\ at \in Int /\ s \in Int /\ i \in Int
  BY <1>3 DEF LineTo
<1>5. Rule = Goal("rest").rule
  BY <1>1, GoalOne
<1>6. Rule = "rest" /\ Whole(text)
  BY <1>5, Literals DEF Fine
<1>7. ASSUME local = <<>>, Peek \in Closers PROVE FALSE
  <2>1. Len(local) = 0
    BY <1>7, Tuples
  <2>2. Level(text, at) = Level(text, i) + Len(local)
    BY <1>1 DEF Local
  <2>3. Level(text, at) \in Int /\ Level(text, i) \in Int
    BY <1>4, LevelType
  <2>4. Level(text, at + 1) = Level(text, at) - 1
    BY <1>4, <1>7, LevelStep
  <2>5. at # s
    BY <1>4, <1>7, TokenNames
  <2>6. at + 1 \in i .. s
    BY <1>4, <2>5
  <2> QED
    BY <1>4, <2>1, <2>2, <2>3, <2>4, <2>6
<1>8. Peek \in Usable
  BY <1>4, <1>6, <1>7, UsableFacts
<1>9. Lexes(open, Peek)
  BY <1>6, WholePeek DEF Sure
<1>10. Peek \in Closers => local # <<>>
  BY <1>7
<1>11. Tracks(local, Peek)
  BY <1>1, <1>4, <1>9, <1>10, LocalTracks DEF Sure
<1> QED
  BY <1>6, <1>8, <1>11, Accepting

-----------------------------------------------------------------------------
\* The value of a line that is fine.
LEMMA LineValue ==
  ASSUME Sure, NEW kind, NEW slot, NEW i, NEW rest, EntryAt(kind, slot, i, rest), Fine(kind, i), ~Block(text, i)
  PROVE  \E s \in Nat : /\ LineTo(i, s) /\ IsA(kind, text, full, i + 1, s - 1)
                        /\ s >= at /\ s <= Len(text) /\ at \in Nat /\ i \in Nat /\ Peek = text[at]
                        /\ Len(text) \in Nat /\ Whole(text) /\ IsSeq(rest)
<1>1. PICK s : s = LineStop(text, i)
  OBVIOUS
<1>2. LineTo(i, s)
  BY <1>1, LineFine
<1>3. s \in Nat /\ s >= at /\ s <= Len(text) /\ at \in Nat /\ i \in Nat /\ Last(i) = s - 1 /\ Peek = text[at]
  BY <1>2 DEF LineTo
<1>4. IsA(kind, text, full, i + 1, Last(i)) /\ Whole(text)
  BY DEF Fine
<1>5. Len(text) \in Nat
  BY AtFacts DEF Sure
<1> QED
  BY <1>2, <1>3, <1>4, <1>5 DEF EntryAt

\* An exponent or the end of them.
LEMMA CountingAccepts ==
  ASSUME Sure, NEW kind, NEW slot, NEW i, NEW rest, EntryAt(kind, slot, i, rest), Fine(kind, i),
         Counting(kind, slot, i, rest)
  PROVE  Accepts
<1>1. PICK m \in 0 .. 7 :
         /\ goals = <<GoalOf("exponents", m)>> \o rest
         /\ kind = "exponents" /\ text[i + 1] = BracketOpen /\ at = i + 2 + m
         /\ \A j \in i + 2 .. at - 1 : text[j] \in Numbers
  BY DEF Counting
<1>2. ~Block(text, i)
  <2>1. BracketOpen # BraceOpen /\ "end" # BraceOpen
    BY DEF BracketOpen, BraceOpen
  <2> QED
    BY <1>1, <2>1 DEF Block, TokenAt
<1>3. PICK s \in Nat : /\ LineTo(i, s) /\ IsA(kind, text, full, i + 1, s - 1)
                       /\ s >= at /\ s <= Len(text) /\ at \in Nat /\ i \in Nat /\ Peek = text[at]
                       /\ Len(text) \in Nat /\ Whole(text) /\ IsSeq(rest)
  BY <1>2, LineValue
<1>4. /\ text[s - 1] = BracketClose /\ (s - 1) - (i + 1) - 1 \in {5, 7}
      /\ \A j \in (i + 1) + 1 .. (s - 1) - 1 : text[j] \in Numbers
  BY <1>1, <1>3 DEF IsA, Exponents
<1>5. BracketClose \notin Numbers
  <2>1. Numbers \subseteq Plain /\ BracketClose \in Structural
    BY ListWords, TokenNames DEF Structural
  <2> QED
    BY <2>1, TokenKinds
<1>6. at <= s - 1
  <2> SUFFICES ASSUME at > s - 1 PROVE FALSE
    BY <1>3
  <2>1. s - 1 \in i + 2 .. at - 1
    BY <1>3, <1>4
  <2> QED
    BY <1>1, <1>4, <1>5, <2>1
<1>7. Rule = GoalOf("exponents", m).rule /\ Of = GoalOf("exponents", m).of
  BY <1>1, <1>3, GoalOne
<1>8. Rule = "exponents" /\ Of = m
  BY <1>7, Literals
<1>9. Usable = (IF Of = 7 THEN {} ELSE Numbers) \cup (IF Of \in {5, 7} THEN {BracketClose} ELSE {})
  BY <1>8 DEF Usable
<1>10. Peek \in Usable
  <2>1. CASE at = s - 1
    <3>1. m \in {5, 7}
      BY <1>1, <1>3, <1>4, <2>1
    <3> QED
      BY <1>3, <1>4, <1>8, <1>9, <2>1, <3>1
  <2>2. CASE at < s - 1
    <3>1. at \in (i + 1) + 1 .. (s - 1) - 1 /\ m # 7
      BY <1>1, <1>3, <1>4, <2>2
    <3> QED
      BY <1>3, <1>4, <1>8, <1>9, <3>1
  <2> QED
    BY <1>3, <1>6, <2>1, <2>2
<1> QED
  BY <1>3, <1>8, <1>10, Accepting

\* A word is not the opening brace of a block.
LEMMA NoBlock ==
  ASSUME NEW file, NEW i, file[i + 1] \in {"uniform", "nonuniform"}
  PROVE  ~Block(file, i)
<1>1. "end" # BraceOpen /\ "uniform" # BraceOpen /\ "nonuniform" # BraceOpen
  BY DEF BraceOpen
<1> QED
  BY <1>1 DEF Block, TokenAt

\* The value of a uniform field.
LEMMA UniformAccepts ==
  ASSUME Sure, NEW kind, NEW slot, NEW i, NEW rest, EntryAt(kind, slot, i, rest), Fine(kind, i),
         UniformNext(kind, slot, i, rest)
  PROVE  Accepts
<1>1. goals = <<Goal("uniform"), Expect(Semicolon)>> \o rest /\ kind = "value" /\ at = i + 2 /\ text[i + 1] = "uniform"
  BY DEF UniformNext
<1>2. ~Block(text, i)
  BY <1>1, NoBlock
<1>3. PICK s \in Nat : /\ LineTo(i, s) /\ IsA(kind, text, full, i + 1, s - 1)
                       /\ s >= at /\ s <= Len(text) /\ at \in Nat /\ i \in Nat /\ Peek = text[at]
                       /\ Len(text) \in Nat /\ Whole(text) /\ IsSeq(rest)
  BY <1>2, LineValue
<1>4. OneOrGroup(text, (i + 1) + 1, s - 1)
  BY <1>1, <1>3 DEF IsA, FieldValue
<1>5. Peek \in Plain \cup Openers
  <2>1. (i + 1) + 1 = at
    BY <1>1, <1>3
  <2> QED
    BY <1>3, <1>4, <2>1 DEF OneOrGroup
<1>6. Rule = Goal("uniform").rule
  BY <1>1, <1>3, GoalTwo
<1>7. Rule = "uniform"
  BY <1>6, Literals
<1> QED
  BY <1>3, <1>5, <1>7, UsableFacts, Accepting

\* The list that an entry is.
ListTo(i, s) ==
  /\ ListOf(text, full, i + 1, s - 1)
  /\ s \in Nat /\ s >= at /\ s <= Len(text) /\ Len(text) \in Nat /\ at \in Nat /\ i \in Nat
  /\ Peek = text[at] /\ Whole(text)

\* A list that is valid goes up to its semicolon.
LEMMA ListFine ==
  ASSUME Sure, NEW slot, NEW i, NEW rest, EntryAt("value", slot, i, rest), Fine("value", i), text[i + 1] = "nonuniform"
  PROVE  \E s : ListTo(i, s) /\ IsSeq(rest)
<1>1. ~Block(text, i)
  BY NoBlock
<1>2. PICK s \in Nat : /\ LineTo(i, s) /\ IsA("value", text, full, i + 1, s - 1)
                       /\ s >= at /\ s <= Len(text) /\ at \in Nat /\ i \in Nat /\ Peek = text[at]
                       /\ Len(text) \in Nat /\ Whole(text) /\ IsSeq(rest)
  BY <1>1, LineValue
<1>3. ListOf(text, full, i + 1, s - 1)
  BY <1>2 DEF IsA, FieldValue
<1> QED
  BY <1>2, <1>3 DEF ListTo

\* Its type and its count.
LEMMA ListingAccepts ==
  ASSUME Sure, NEW slot, NEW i, NEW rest, EntryAt("value", slot, i, rest), Fine("value", i),
         Listing("value", slot, i, rest) \/ Sizing("value", slot, i, rest)
  PROVE  Accepts
<1>1. text[i + 1] = "nonuniform"
  BY DEF Listing, Sizing
<1>2. PICK s : ListTo(i, s) /\ IsSeq(rest)
  BY <1>1, ListFine
<1>3. /\ text[(i + 1) + 1] \in DOMAIN Components /\ text[(i + 1) + 2] \in DOMAIN Counts
      /\ i \in Nat /\ Peek = text[at] /\ Whole(text)
  BY <1>2 DEF ListTo, ListOf
<1>4. CASE Listing("value", slot, i, rest)
  <2>1. goals = <<GoalOf("list", slot)>> \o rest /\ at = i + 2
    BY <1>4 DEF Listing
  <2>2. Rule = GoalOf("list", slot).rule
    BY <1>2, <2>1, GoalOne
  <2>3. Rule = "list" /\ (i + 1) + 1 = at
    BY <1>3, <2>1, <2>2, Literals
  <2>4. Peek \in Usable
    BY <1>3, <2>3, UsableFacts
  <2> QED
    BY <1>3, <2>3, <2>4, Accepting
<1>5. CASE Sizing("value", slot, i, rest)
  <2>1. PICK of : goals = <<GoalOf("count", of)>> \o rest
    BY <1>5 DEF Sizing
  <2>2. at = i + 3
    BY <1>5 DEF Sizing
  <2>3. Rule = GoalOf("count", of).rule
    BY <1>2, <2>1, GoalOne
  <2>4. Rule = "count" /\ (i + 1) + 2 = at
    BY <1>3, <2>2, <2>3, Literals
  <2>5. Peek \in Usable
    BY <1>3, <2>4, UsableFacts
  <2> QED
    BY <1>3, <2>4, <2>5, Accepting
<1> QED
  BY <1>4, <1>5

-----------------------------------------------------------------------------
\* The opener of a list that is fine, its items and its closer.
ListIs(i, s, c, n) ==
  /\ full => n * c <= MaxRetained
  /\ text[i + 4] = ParenOpen /\ s = i + 6 + Places(n, c) /\ text[s - 1] = ParenClose
  /\ \A j \in 1 .. Places(n, c) : ItemIs(c, j, text[i + 4 + j])
  /\ s \in Nat /\ s >= at /\ s <= Len(text) /\ Len(text) \in Nat /\ at \in Nat /\ i \in Nat /\ Places(n, c) \in Nat
  /\ Peek = text[at] /\ Whole(text)

\* The items of a valid list are numbers and the parentheses of tuples.
LEMMA ListItems ==
  ASSUME NEW i, NEW s, ListTo(i, s), NEW c \in {1, 3}, NEW n \in Nat, c = Components[text[i + 2]], n = Counts[text[i + 3]]
  PROVE  ListIs(i, s, c, n)
<1>1. s \in Nat /\ i \in Nat /\ ListOf(text, full, i + 1, s - 1)
  BY DEF ListTo
<1>2. /\ (i + 1) + 1 = i + 2 /\ (i + 1) + 2 = i + 3 /\ (i + 1) + 3 = i + 4 /\ (i + 1) + 4 = i + 5
  BY <1>1
<1>3. Places(n, c) \in Nat
  BY ItemsAre
<1>4. /\ full => n * c <= MaxRetained
      /\ text[i + 4] = ParenOpen /\ s - 1 = i + 5 + Places(n, c) /\ text[s - 1] = ParenClose
      /\ \A j \in 1 .. Places(n, c) :
           LET t == text[i + 4 + j]
           IN  IF c = 1 \/ j % 5 \in 2 .. 4 THEN t \in Numbers ELSE t = IF j % 5 = 1 THEN ParenOpen ELSE ParenClose
  BY <1>1, <1>2, Zenon DEF ListOf
<1>5. \A j \in 1 .. Places(n, c) : ItemIs(c, j, text[i + 4 + j])
  BY <1>4, Zenon DEF ItemIs
<1>6. s = i + 6 + Places(n, c)
  BY <1>1, <1>3, <1>4
<1>7. /\ full => n * c <= MaxRetained
      /\ text[i + 4] = ParenOpen /\ text[s - 1] = ParenClose
  BY <1>4, Zenon
<1> QED
  BY <1>3, <1>5, <1>6, <1>7 DEF ListIs, ListTo

\* The bytes behind a place are at least the tokens behind it.
LEMMA BytesFacts ==
  ASSUME NEW file \in Seq(Tokens), NEW i \in Nat
  PROVE  BytesAfter(file, i) \in Int /\ BytesAfter(file, i) >= Len(file) - i
<1>1. Len(file) \in Nat
  OBVIOUS
<1>2. IsFiniteSet(i .. Len(file) - 1)
  BY <1>1, FS_Interval
<1>3. IsFiniteSet({j \in i .. Len(file) - 1 : Apart(file[j], file[j + 1])})
  BY <1>2, FS_Subset
<1>4. Cardinality({j \in i .. Len(file) - 1 : Apart(file[j], file[j + 1])}) \in Nat
  BY <1>3, FS_CardinalityType
<1> QED
  BY <1>1, <1>4 DEF BytesAfter

\* The opener.
LEMMA SizedAccepts ==
  ASSUME Sure, NEW slot, NEW i, NEW rest, EntryAt("value", slot, i, rest), Fine("value", i),
         Sized("value", slot, i, rest)
  PROVE  Accepts
<1>1. PICK c, n, list : /\ c = Components[text[i + 2]] /\ n = Counts[text[i + 3]]
                        /\ list = [slot |-> slot, components |-> c, count |-> n]
  OBVIOUS
<1>2. /\ text[i + 1] = "nonuniform" /\ text[i + 2] \in DOMAIN Components /\ text[i + 3] \in DOMAIN Counts
      /\ at = i + 4
  BY DEF Sized
<1>3. goals = <<GoalOf("opener", list)>> \o rest
  BY <1>1, Zenon DEF Sized
<1>4. c \in {1, 3} /\ n \in Nat
  BY <1>1, <1>2, ListWords
<1>5. PICK s : ListTo(i, s) /\ IsSeq(rest)
  BY <1>2, ListFine
<1>6. ListIs(i, s, c, n)
  BY <1>1, <1>4, <1>5, ListItems
<1>7. Rule = GoalOf("opener", list).rule /\ Of = GoalOf("opener", list).of
  BY <1>3, <1>5, GoalOne
<1>8. Rule = "opener" /\ Of = list
  BY <1>7, Literals
<1>9. Encoded(n, c) = Places(n, c) + 2
  <2>1. CASE c = 1
    BY <1>4, <2>1 DEF Encoded, Places
  <2>2. CASE c = 3
    BY <1>4, <2>2 DEF Encoded, Places
  <2> QED
    BY <1>4, <2>1, <2>2
<1>10. BytesAfter(text, at) >= Encoded(n, c)
  <2>1. text \in Seq(Tokens)
    BY AtFacts DEF Sure
  <2>2. s = i + 6 + Places(n, c) /\ s <= Len(text) /\ Len(text) \in Nat /\ at \in Nat /\ i \in Nat /\ Places(n, c) \in Nat
    BY <1>6 DEF ListIs
  <2>3. BytesAfter(text, at) \in Int /\ BytesAfter(text, at) >= Len(text) - at
    BY <2>1, <2>2, BytesFacts
  <2> QED
    BY <1>2, <1>9, <2>2, <2>3
<1>11. ListFits(list)
  <2>1. list.count = n /\ list.components = c
    BY <1>1
  <2>2. full => n * c <= MaxRetained
    BY <1>6 DEF ListIs
  <2> QED
    BY <1>10, <2>1, <2>2 DEF ListFits
<1>12. Usable = {ParenOpen}
  BY <1>8, <1>11 DEF Usable
<1>13. Peek = ParenOpen /\ Whole(text)
  BY <1>2, <1>6 DEF ListIs
<1> QED
  BY <1>8, <1>12, <1>13, Accepting

\* An item, or the closer.
LEMMA NumberingAccepts ==
  ASSUME Sure, NEW slot, NEW i, NEW rest, EntryAt("value", slot, i, rest), Fine("value", i),
         Numbering("value", slot, i, rest)
  PROVE  Accepts
<1>1. PICK c \in {1, 3}, n \in Nat, r \in Nat : IsList(slot, i, rest, c, n, r) /\ r <= Places(n, c)
  BY NumberingFacts
<1>2. /\ at = i + 5 + r /\ text[i + 1] = "nonuniform"
      /\ c = Components[text[i + 2]] /\ n = Counts[text[i + 3]]
  BY <1>1 DEF IsList
<1>3. PICK s : ListTo(i, s) /\ IsSeq(rest)
  BY <1>2, ListFine
<1>4. ListIs(i, s, c, n)
  BY <1>2, <1>3, ListItems
<1>5. /\ s = i + 6 + Places(n, c) /\ text[s - 1] = ParenClose
      /\ \A j \in 1 .. Places(n, c) : ItemIs(c, j, text[i + 4 + j])
      /\ i \in Nat /\ Places(n, c) \in Nat /\ Peek = text[at] /\ Whole(text)
  BY <1>4 DEF ListIs
<1>6. CASE r = Places(n, c)
  <2>1. goals = ListGoals(n, c, slot, r) \o rest
    BY <1>1 DEF IsList, Itemised, ListGoals
  <2>2. goals = <<Expect(ParenClose), Expect(Semicolon)>> \o rest
    BY <1>3, <1>6, <2>1, ListGoalsEnd DEF Ends
  <2>3. Rule = Expect(ParenClose).rule /\ Of = Expect(ParenClose).of
    BY <1>3, <2>2, GoalTwo
  <2>4. Rule = "expect" /\ Of = ParenClose
    BY <2>3, Literals
  <2>5. at = s - 1
    BY <1>2, <1>5, <1>6
  <2> QED
    BY <1>5, <2>4, <2>5, UsableFacts, Accepting
<1>7. CASE r < Places(n, c)
  <2>1. PICK item, number : number = GoalOf("number", slot) /\ item = ItemAt(c, number, r + 1)
    OBVIOUS
  <2>2. Rule = item.rule /\ Of = item.of
    <3>1. NextItem(c, slot, r, item)
      BY <2>1 DEF NextItem
    <3>2. IsList(slot, i, rest, c, n, r)
      BY <1>1
    <3>3. Leaves(item, n, c, slot, r, rest)
      BY <1>3, <1>7, <3>1, <3>2, ListGoalsLeft
    <3> QED
      BY <3>3 DEF Leaves
  <2>3. ANumber(c, r, item, number) \/ AnOpener(c, r, item) \/ ACloser(c, r, item)
    BY <2>1, ItemCases
  <2>4. ItemIs(c, r + 1, Peek)
    <3>1. r + 1 \in 1 .. Places(n, c) /\ i + 4 + (r + 1) = at
      BY <1>2, <1>5, <1>7
    <3> QED
      BY <1>5, <3>1
  <2>5. CASE ANumber(c, r, item, number)
    <3>1. Rule = "number" /\ Peek \in Numbers
      BY <2>1, <2>2, <2>4, <2>5, Literals DEF ANumber
    <3> QED
      BY <1>5, <3>1, UsableFacts, Accepting
  <2>6. CASE AnOpener(c, r, item)
    <3>1. Rule = "expect" /\ Of = ParenOpen /\ Peek = ParenOpen
      BY <2>2, <2>4, <2>6, Literals DEF AnOpener
    <3> QED
      BY <1>5, <3>1, UsableFacts, Accepting
  <2>7. CASE ACloser(c, r, item)
    <3>1. Rule = "expect" /\ Of = ParenClose /\ Peek = ParenClose
      BY <2>2, <2>4, <2>7, Literals DEF ACloser
    <3> QED
      BY <1>5, <3>1, UsableFacts, Accepting
  <2> QED
    BY <2>3, <2>5, <2>6, <2>7
<1> QED
  BY <1>1, <1>5, <1>6, <1>7

\* Within an entry that is fine every token is accepted.
LEMMA StageAccepts ==
  ASSUME Sure, NEW kind, NEW slot, NEW i, NEW rest, EntryAt(kind, slot, i, rest), Stage(kind, slot, i, rest), Fine(kind, i)
  PROVE  Accepts
<1>1. CASE Started(kind, slot, i, rest)
  BY <1>1, StartedAccepts
<1>2. CASE Ending(kind, slot, i, rest)
  BY <1>2, EndingAccepts
<1>3. CASE Grouped(kind, slot, i, rest)
  BY <1>3, GroupedAccepts
<1>4. CASE Bracing(kind, slot, i, rest) \/ Braced(kind, slot, i, rest)
  BY <1>4, BracingAccepts, BracedAccepts
<1>5. CASE Lining(kind, slot, i, rest)
  BY <1>5, LiningAccepts
<1>6. CASE Counting(kind, slot, i, rest)
  BY <1>6, CountingAccepts
<1>7. CASE UniformNext(kind, slot, i, rest)
  BY <1>7, UniformAccepts
<1>8. CASE Listing(kind, slot, i, rest)
  <2>1. kind = "value"
    BY <1>8 DEF Listing
  <2> QED
    BY <1>8, <2>1, ListingAccepts
<1>9. CASE Sizing(kind, slot, i, rest)
  <2>1. kind = "value"
    BY <1>9 DEF Sizing
  <2> QED
    BY <1>9, <2>1, ListingAccepts
<1>10. CASE Sized(kind, slot, i, rest)
  <2>1. kind = "value"
    BY <1>10 DEF Sized
  <2> QED
    BY <1>10, <2>1, SizedAccepts
<1>11. CASE Numbering(kind, slot, i, rest)
  <2>1. kind = "value"
    BY <1>11 DEF Numbering
  <2> QED
    BY <1>11, <2>1, NumberingAccepts
<1> QED
  BY <1>1, <1>2, <1>3, <1>4, <1>5, <1>6, <1>7, <1>8, <1>9, <1>10, <1>11 DEF Stage

-----------------------------------------------------------------------------
(***************************************************************************)
(* The end of an entry.                                                    *)
(***************************************************************************)
Lists == {"file", "header", "patch"}

\* What an entry writes has a place in its block.
LEMMA SlotFits ==
  ASSUME NEW block \in Lists, NEW key, block = "file" => key \notin FileBlocks
  PROVE  /\ Fitting(Kind(block, key), Slot(block, key))
         /\ block = "file" => Slot(block, key) \in {"internal", "dimensions", "none"}
         /\ block = "header" => Slot(block, key) \in {"object", "class", "none"}
         /\ block = "patch" => Slot(block, key) \in {"type", "value", "inlet", "none"}
<1>1. CASE block = "file"
  BY <1>1 DEF Fitting, Kind, Slot
<1>2. CASE block = "header"
  BY <1>2 DEF Fitting, Kind, Slot
<1>3. CASE block = "patch"
  BY <1>3 DEF Fitting, Kind, Slot
<1> QED
  BY <1>1, <1>2, <1>3 DEF Lists

\* The goals behind a block are a sequence.
LEMMA RestSeq ==
  ASSUME NEW block
  PROVE  IsSeq(Rest(block)) /\ IsSeq(Outer(block)) /\ IsSeq(BoundaryRest)
<1>1. \A a : IsSeq(<<a>>)
  BY Tuples
<1>2. \A a, r : IsSeq(r) => IsSeq(<<a>> \o r)
  BY HeadJoined
<1>3. IsSeq(BoundaryRest)
  <2>1. IsSeq(<<Expect(BraceClose)>> \o <<Goal("file")>>)
    BY <1>1, <1>2
  <2> QED
    BY <1>2, <2>1 DEF BoundaryRest
<1>4. IsSeq(<<Expect(BraceClose)>> \o BoundaryRest) /\ IsSeq(<<Expect(BraceClose)>> \o <<Goal("file")>>) /\ IsSeq(<<>>)
  BY <1>1, <1>2, <1>3, Tuples
<1>5. IsSeq(Outer(block))
  BY <1>4 DEF Outer
<1> QED
  BY <1>1, <1>2, <1>3, <1>5 DEF Rest

\* A step within an entry leaves what was found before it.
LEMMA FoundKept ==
  ASSUME NEW block \in Lists, NEW key, block = "file" => key \notin FileBlocks, NEW slot, slot = Slot(block, key),
         Stays(slot), NEW b, NEW o, NEW k, FoundIn(text, full, found, patches, block, b, o, k, slot)
  PROVE  FoundIn(text, full, found', patches, block, b, o, k, slot)
<1>1. \A s \in Slots \ {slot} : found'[s] = found[s]
  BY DEF Stays
<1>2. /\ block = "file" => slot \in {"internal", "dimensions", "none"}
      /\ block = "header" => slot \in {"object", "class", "none"}
      /\ block = "patch" => slot \in {"type", "value", "inlet", "none"}
  BY SlotFits
<1>3. ASSUME NEW keys, NEW but, slot = but \/ slot \notin FileSlots, FileFound(text, full, found, patches, keys, but)
      PROVE  FileFound(text, full, found', patches, keys, but)
  <2>1. ASSUME NEW s \in FileSlots \ {but} PROVE found'[s] = Says(text, full, keys, s)
    BY <1>1, <1>3, <2>1 DEF FileFound, Slots
  <2> QED
    BY <1>3, <2>1 DEF FileFound
<1>4. CASE block = "file"
  <2>1. FileFound(text, full, found, patches, FileBefore(text, k), slot)
    BY <1>4 DEF FoundIn
  <2>2. FileFound(text, full, found', patches, FileBefore(text, k), slot)
    BY <1>3, <2>1
  <2> QED
    BY <1>4, <2>2 DEF FoundIn
<1>5. CASE block = "header"
  <2>1. /\ FileFound(text, full, found, patches, FileBefore(text, o), "object")
        /\ HeaderFound(text, found, Before(text, o, k, {}), slot)
    BY <1>5 DEF FoundIn
  <2>2. slot = "object" \/ slot \notin FileSlots
    BY <1>2, <1>5 DEF FileSlots
  <2>3. FileFound(text, full, found', patches, FileBefore(text, o), "object")
    BY <1>3, <2>1, <2>2
  <2>4. HeaderFound(text, found', Before(text, o, k, {}), slot)
    BY <1>1, <2>1 DEF HeaderFound, Slots, FileSlots
  <2> QED
    BY <1>5, <2>3, <2>4 DEF FoundIn
<1>6. CASE block = "patch"
  <2>1. /\ FileFound(text, full, found, patches, FileBefore(text, b), "patches")
        /\ patches = PatchesAt(text, full, Before(text, b, o, Tokens))
        /\ found["name"] = Value("name", o, 0)
        /\ PatchFound(text, full, found, Before(text, o, k, {}), slot)
    BY <1>6 DEF FoundIn
  <2>2. slot \notin FileSlots /\ slot # "name"
    BY <1>2, <1>6 DEF FileSlots
  <2>3. FileFound(text, full, found', patches, FileBefore(text, b), "patches")
    BY <1>3, <2>1, <2>2
  <2>4. found'["name"] = found["name"]
    BY <1>1, <2>2 DEF Slots, PatchSlots
  <2>5. PatchFound(text, full, found', Before(text, o, k, {}), slot)
    BY <1>1, <2>1 DEF PatchFound, Slots, PatchSlots
  <2> QED
    BY <1>6, <2>1, <2>3, <2>4, <2>5 DEF FoundIn
<1> QED
  BY <1>4, <1>5, <1>6 DEF Lists

\* Behind an entry is the next one of its block.
LEMMA EntryDone ==
  ASSUME text \in Seq(Tokens), NEW block \in Lists, NEW b, NEW o, NEW i \in 1 .. Len(text), text[i] \in Plain,
         block = "file" => text[i] \notin FileBlocks, NEW kind, kind = Kind(block, text[i]),
         NEW slot, slot = Slot(block, text[i]), NEW rest, rest = Rest(block),
         BlockAt(text, full, block, b, o, i),
         FoundIn(text, full, found, patches, block, b, o, i, slot), Stays(slot), Done(kind, slot, i, rest)'
  PROVE  AtHead(block, b, o)'
<1>1. text' = text /\ full' = full /\ patches' = patches
  BY DEF Stays
<1>2. PICK e, read : e = EntryEnd(text, i, read) /\ read = FALSE
  OBVIOUS
<1>3. /\ goals' = rest /\ local' = <<>> /\ Said(text, full, found', slot, i)
      /\ \A q \in i .. at' : Level(text, i) <= Level(text, q)
      /\ Level(text, at') = Level(text, i)
  BY <1>1, Zenon DEF Done
<1>4. at' = e + 1 /\ e # 0
  BY <1>1, <1>2, Zenon DEF Done, Ended
<1>5. ValidEntry(text, full, i, block)
  BY <1>1, Zenon DEF Done, ValidEntry
<1>6. BlockAt(text, full, block, b, o, e + 1)
  BY <1>2, <1>3, <1>4, <1>5, AtNext DEF Lists
<1>7. FoundIn(text, full, found', patches, block, b, o, i, slot)
  <2>1. PICK key : key = text[i]
    OBVIOUS
  <2> QED
    BY <2>1, FoundKept
<1>8. FoundIn(text, full, found', patches, block, b, o, e + 1, "none")
  <2>1. PICK key, fnd : key = text[i] /\ fnd = found'
    OBVIOUS
  <2>2. FoundIn(text, full, fnd, patches, block, b, o, i, slot) /\ Said(text, full, fnd, slot, i)
    BY <1>3, <1>7, <2>1
  <2>3. FoundIn(text, full, fnd, patches, block, b, o, e + 1, "none")
    BY <1>2, <1>4, <2>1, <2>2, FoundNext DEF Lists
  <2> QED
    BY <2>1, <2>3
<1> QED
  BY <1>1, <1>3, <1>4, <1>6, <1>8 DEF AtHead

-----------------------------------------------------------------------------
(***************************************************************************)
(* The loops over entries.                                                 *)
(***************************************************************************)

\* The goals of a loop.
LEMMA HeadGoals ==
  ASSUME NEW block \in Places4, goals = Rest(block)
  PROVE  /\ Rule = block /\ Head(goals) = Goal(block)
         /\ Go(<<>>) => goals' = Outer(block)
         /\ \A then : IsSeq(then) /\ Go(then \o <<Head(goals)>>) => goals' = then \o Rest(block)
<1>1. PICK r : r = Outer(block)
  OBVIOUS
<1>2. IsSeq(r)
  BY <1>1, RestSeq
<1>3. Rest(block) = <<Goal(block)>> \o r
  <2>1. CASE block = "file"
    <3>1. r = <<>> /\ Rest(block) = <<Goal("file")>>
      BY <1>1, <2>1 DEF Outer, Rest
    <3>2. IsSeq(<<Goal("file")>>)
      BY Tuples
    <3> QED
      BY <2>1, <3>1, <3>2, JoinNone
  <2>2. CASE block # "file"
    BY <1>1, <2>2 DEF Rest
  <2> QED
    BY <2>1, <2>2
<1>4. PICK h : h = Goal(block)
  OBVIOUS
<1>5. goals = <<h>> \o r
  BY <1>3, <1>4
<1>6. Rule = h.rule /\ Head(goals) = h /\ Tail(goals) = r /\ (Go(<<>>) => goals' = r)
  BY <1>2, <1>5, GoalOne
<1>7. ASSUME NEW then, IsSeq(then), Go(then \o <<Head(goals)>>) PROVE goals' = then \o Rest(block)
  <2>1. goals' = (then \o <<h>>) \o r
    BY <1>6, <1>7 DEF Go
  <2>2. IsSeq(<<h>>)
    BY Tuples
  <2>3. (then \o <<h>>) \o r = then \o (<<h>> \o r)
    BY <1>2, <1>7, <2>2, JoinThree
  <2> QED
    BY <1>3, <1>4, <2>1, <2>3
<1> QED
  BY <1>1, <1>4, <1>6, <1>7, Literals

\* Those of a block that begins.
LEMMA InnerGoals ==
  ASSUME NEW inner, NEW block, <<inner, block>> \in {<<"header", "file">>, <<"boundary", "file">>, <<"patch", "boundary">>}
  PROVE  <<Expect(BraceOpen), Goal(inner), Expect(BraceClose)>> \o Rest(block) = <<Expect(BraceOpen)>> \o Rest(inner)
<1>1. PICK x, y, z, r : x = Expect(BraceOpen) /\ y = Goal(inner) /\ z = Expect(BraceClose) /\ r = Rest(block)
  OBVIOUS
<1>2. IsSeq(r)
  BY <1>1, RestSeq
<1>3. IsSeq(<<x>>) /\ IsSeq(<<y>>) /\ IsSeq(<<z>>)
  BY Tuples
<1>4. <<x, y, z>> = <<x>> \o (<<y>> \o <<z>>)
  BY Pairs
<1>5. IsSeq(<<y>> \o <<z>>) /\ (<<y>> \o <<z>>) \o r = <<y>> \o (<<z>> \o r)
  BY <1>2, <1>3, JoinThree
<1>6. (<<x>> \o (<<y>> \o <<z>>)) \o r = <<x>> \o ((<<y>> \o <<z>>) \o r)
  BY <1>2, <1>3, <1>5, JoinThree
<1>7. Rest(inner) = <<y>> \o (<<z>> \o r)
  BY <1>1, Zenon DEF Rest, Outer, BoundaryRest
<1> QED
  BY <1>1, <1>4, <1>5, <1>6, <1>7

\* What was found but for a slot.
LEMMA FoundBut ==
  ASSUME NEW block \in Lists, NEW file, NEW keep, NEW fnd, NEW pts, NEW b, NEW o, NEW k, NEW slot,
         FoundIn(file, keep, fnd, pts, block, b, o, k, "none")
  PROVE  FoundIn(file, keep, fnd, pts, block, b, o, k, slot)
<1>1. CASE block = "file"
  BY <1>1 DEF FoundIn, FileFound, FileSlots
<1>2. CASE block = "header"
  BY <1>2 DEF FoundIn, HeaderFound
<1>3. CASE block = "patch"
  BY <1>3 DEF FoundIn, PatchFound
<1> QED
  BY <1>1, <1>2, <1>3 DEF Lists

\* The key of an entry that is no block.
LEMMA EntryBegins ==
  ASSUME Token, NEW block \in Lists, NEW b, NEW o, AtHead(block, b, o), Peek \in Plain,
         block = "file" => Peek \notin FileBlocks, NEW i, i = at, UNCHANGED <<local, found, patches>>,
         goals' = StartGoals(Kind(block, Peek), Slot(block, Peek)) \o Rest(block)
  PROVE  InEntry(block, b, o, i)'
<1>1. /\ i \in 1 .. Len(text) /\ text \in Seq(Tokens) /\ at' = i + 1 /\ text' = text /\ full' = full
      /\ Peek = text[i] /\ i \in Nat
  BY DEF Token
<1>2. local' = <<>> /\ BlockAt(text, full, block, b, o, i) /\ FoundIn(text, full, found, patches, block, b, o, i, "none")
  BY DEF AtHead
<1>3. Going(text, i, i + 1)
  BY <1>1, GoingStarts
<1>4. PICK kind, slot, rest : kind = Kind(block, Peek) /\ slot = Slot(block, Peek) /\ rest = Rest(block)
  OBVIOUS
<1>5. Started(kind, slot, i, rest)'
  BY <1>1, <1>2, <1>4 DEF Started
<1>6. Stage(kind, slot, i, rest)'
  BY <1>5 DEF Stage
<1>7. FoundIn(text, full, found, patches, block, b, o, i, slot)
  BY <1>2, FoundBut
<1>8. i \in 1 .. at' - 1 /\ block # "boundary"
  BY <1>1 DEF Lists
<1> QED
  BY <1>1, <1>2, <1>3, <1>4, <1>6, <1>7, <1>8 DEF InEntry

\* The reader never goes back.
LEMMA AtGrows == ASSUME Read PROVE at' \in {at, at + 1}
<1>1. ReadFile \/ ReadHeader \/ ReadBoundary \/ ReadPatch => TakeToken \/ at' = at
  BY DEF ReadFile, ReadHeader, ReadBoundary, ReadPatch, Entry, Unknown, EndLoop, Leave
<1>2. \/ ReadExpected \/ ReadOptional \/ ReadScalar \/ ReadExponent \/ ReadValue \/ ReadUniform \/ ReadList \/ ReadCount
      \/ ReadOpener \/ ReadNumber
      => TakeToken \/ at' = at
  BY DEF ReadExpected, ReadOptional, ReadScalar, ReadExponent, ReadValue, ReadUniform, ReadList, ReadCount,
         ReadOpener, ReadNumber, Leave
<1>3. SkipFirstOfExact \/ SkipFirstOfLine \/ TakeGroup \/ TakeRest => TakeToken
  BY DEF SkipFirstOfExact, SkipFirstOfLine, TakeGroup, TakeRest
<1>4. Refuse => at' = at
  BY DEF Refuse
<1>5. TakeToken => at' = at + 1
  BY DEF TakeToken
<1> QED
  BY <1>1, <1>2, <1>3, <1>4, <1>5 DEF Read

\* An entry goes on or ends.
LEMMA InEntryStep ==
  ASSUME Sure, FoundOK, NEW block \in Places4, NEW b, NEW o, NEW i, InEntry(block, b, o, i), Read, ~Refuse
  PROVE  (InEntry(block, b, o, i)' \/ AtHead(block, b, o)') /\ FoundOK' /\ UNCHANGED <<text, mode>>
<1>1. /\ block \in Lists /\ i \in 1 .. at - 1 /\ text[i] \in Plain /\ (block = "file" => text[i] \notin FileBlocks)
      /\ Going(text, i, at) /\ BlockAt(text, full, block, b, o, i)
  BY DEF InEntry, Places4, Lists
<1>2. PICK kind, slot, rest : kind = Kind(block, text[i]) /\ slot = Slot(block, text[i]) /\ rest = Rest(block)
  OBVIOUS
<1>3. Stage(kind, slot, i, rest) /\ FoundIn(text, full, found, patches, block, b, o, i, slot)
  BY <1>2 DEF InEntry
<1>4. Fitting(kind, slot) /\ IsSeq(rest)
  <2>1. PICK key : key = text[i]
    OBVIOUS
  <2> QED
    BY <1>1, <1>2, <2>1, SlotFits, RestSeq
<1>5. EntryAt(kind, slot, i, rest)
  BY <1>1, <1>4 DEF EntryAt
<1>6. Advances(kind, slot, i, rest)
  BY <1>3, <1>5, StageTaken
<1>7. Stays(slot) /\ text' = text /\ full' = full /\ mode' = mode /\ patches' = patches /\ FoundOK'
  BY <1>6 DEF Advances, Stays
<1>8. text \in Seq(Tokens) /\ at \in Nat /\ Len(text) \in Nat /\ at <= Len(text) + 1
  BY AtFacts DEF Sure
<1>9. CASE Stage(kind, slot, i, rest)' /\ Going(text, i, at)'
  <2>1. FoundIn(text, full, found', patches, block, b, o, i, slot)
    <3>1. PICK key : key = text[i]
      OBVIOUS
    <3> QED
      BY <1>1, <1>2, <1>3, <1>7, <3>1, FoundKept
  <2>2. i \in 1 .. at' - 1
    BY <1>1, <1>8, AtGrows
  <2> QED
    BY <1>1, <1>2, <1>7, <1>9, <2>1, <2>2 DEF InEntry, Lists
<1>10. CASE Done(kind, slot, i, rest)'
  <2>1. i \in 1 .. Len(text)
    BY <1>1, <1>8
  <2>2. AtHead(block, b, o)'
    BY <1>1, <1>2, <1>3, <1>7, <1>8, <1>10, <2>1, EntryDone
  <2> QED
    BY <1>7, <2>2
<1> QED
  BY <1>6, <1>7, <1>9, <1>10 DEF Advances

-----------------------------------------------------------------------------
\* What was found is forgotten in parts.
LEMMA ForgetOK ==
  ASSUME FoundOK, Forget({"object"})
  PROVE  FoundOK' /\ found'["object"] = Absent /\ \A s \in Slots \ {"object"} : found'[s] = found[s]
<1>1. found = [s \in FileSlots \cup PatchSlots |-> found[s]]
  BY DEF FoundOK
<1>2. DOMAIN found = Slots
  <2>1. PICK f : f = found
    OBVIOUS
  <2>2. f = [s \in FileSlots \cup PatchSlots |-> f[s]]
    BY <1>1, <2>1
  <2> QED
    BY <2>1, <2>2 DEF Slots
<1>3. found' = [s \in Slots |-> IF s \in {"object"} THEN Absent ELSE found[s]]
  BY <1>2 DEF Forget
<1>4. "object" \in Slots
  BY DEF Slots, FileSlots
<1>5. FoundOK'
  BY <1>3 DEF FoundOK, Slots
<1> QED
  BY <1>3, <1>4, <1>5

\* The key of a block.
LEMMA OpeningNext ==
  ASSUME Token, NEW i, i = at, NEW inner, inner # "none", goals' = <<Expect(BraceOpen)>> \o Rest(inner), local' = <<>>,
         Peek \in Plain, NEW block, Inner(block, Peek) = inner, NEW b, NEW o, BlockAt(text, full, block, b, o, i),
         FreshIn(inner, block, b, o, i)'
  PROVE  Opening(block, b, o, i)'
<1>1. /\ i \in Nat /\ at' = i + 1 /\ text' = text /\ full' = full /\ Peek = text[i] /\ i = at' - 1
  BY DEF Token
<1> QED
  BY <1>1, Zenon DEF Opening

\* The key of an entry of the file.
LEMMA FileTaken ==
  ASSUME Sure, FoundOK, NEW block, block = "file", NEW b, NEW o, AtHead(block, b, o), ReadFile, Peek # "end",
         NEW i, i = at
  PROVE  /\ FoundOK' /\ UNCHANGED <<text, mode>>
         /\ i \in 1 .. Len(text)
         /\ InEntry(block, b, o, i)' \/ Opening(block, b, o, i)'
<1>1. block \in Places4 /\ block \in Lists /\ goals = Rest(block) /\ local = <<>> /\ BlockAt(text, full, block, b, o, i)
      /\ FileFound(text, full, found, patches, FileBefore(text, i), "none")
  BY DEF AtHead, Places4, Lists, FoundIn
<1>2. Accepts /\ TakeToken
  BY DEF ReadFile, Reading, Unknown, Entry
<1>3. Token
  BY <1>2, TokenStep DEF Sure
<1>4. /\ i \in 1 .. Len(text) /\ i \in Nat /\ at' = i + 1 /\ text' = text /\ full' = full /\ mode' = mode /\ Peek = text[i]
  BY <1>3 DEF Token
<1>5. \A then : IsSeq(then) /\ Go(then \o <<Head(goals)>>) => goals' = then \o Rest(block)
  BY <1>1, HeadGoals
<1>6. CASE Peek = "FoamFile"
  <2>1. Entry(<<Expect(BraceOpen), Goal("header"), Expect(BraceClose)>>) /\ Forget({"object"})
    BY <1>6 DEF ReadFile, Unknown
  <2>2. goals' = <<Expect(BraceOpen), Goal("header"), Expect(BraceClose)>> \o Rest(block)
    BY <1>5, <2>1, Tuples DEF Entry
  <2>3. goals' = <<Expect(BraceOpen)>> \o Rest("header") /\ local' = local /\ patches' = patches
    BY <2>1, <2>2, InnerGoals DEF Entry
  <2>4. FoundOK' /\ found'["object"] = Absent /\ \A s \in Slots \ {"object"} : found'[s] = found[s]
    BY <2>1, ForgetOK
  <2>5. FileFound(text, full, found', patches, FileBefore(text, i), "object")
    BY <1>1, <2>4 DEF FileFound, FileSlots, Slots
  <2>6. Inner(block, Peek) = "header" /\ Peek \in Plain
    BY <1>1, <1>6 DEF Inner, Plain, Ordinary, Keywords
  <2>7. Opening(block, b, o, i)'
    <3>1. PICK inner : inner = "header"
      OBVIOUS
    <3>2. FreshIn(inner, block, b, o, i)'
      BY <1>4, <2>3, <2>4, <2>5, <3>1 DEF FreshIn
    <3> QED
      BY <1>1, <1>3, <2>3, <2>6, <3>1, <3>2, OpeningNext
  <2> QED
    BY <1>4, <2>4, <2>7
<1>7. CASE Peek = "boundaryField"
  <2>1. /\ Go(<<Expect(BraceOpen), Goal("boundary"), Expect(BraceClose), Head(goals)>>)
        /\ patches' = <<>> /\ UNCHANGED <<local, found>>
    BY <1>7 DEF ReadFile, Unknown
  <2>2. goals' = <<Expect(BraceOpen), Goal("boundary"), Expect(BraceClose)>> \o Rest(block)
    <3>1. PICK x, y, z, h : x = Expect(BraceOpen) /\ y = Goal("boundary") /\ z = Expect(BraceClose) /\ h = Head(goals)
      OBVIOUS
    <3>2. <<x, y, z>> \o <<h>> = <<x, y, z, h>>
      BY ConcatThree
    <3>3. Go(<<x, y, z>> \o <<Head(goals)>>)
      BY <2>1, <3>1, <3>2
    <3>4. goals' = <<x, y, z>> \o Rest(block)
      BY <1>5, <3>3, Tuples
    <3> QED
      BY <3>1, <3>4
  <2>3. goals' = <<Expect(BraceOpen)>> \o Rest("boundary")
    BY <2>2, InnerGoals
  <2>4. FoundOK'
    BY <2>1 DEF FoundOK
  <2>5. FileFound(text, full, found', patches', FileBefore(text, i), "patches")
    BY <1>1, <2>1 DEF FileFound, FileSlots
  <2>6. Inner(block, Peek) = "boundary" /\ Peek \in Plain
    BY <1>1, <1>7 DEF Inner, Plain, Ordinary, Keywords
  <2>7. Opening(block, b, o, i)'
    <3>1. PICK inner : inner = "boundary"
      OBVIOUS
    <3>2. FreshIn(inner, block, b, o, i)'
      BY <1>4, <2>1, <2>5, <3>1 DEF FreshIn
    <3> QED
      BY <1>1, <1>3, <2>1, <2>3, <2>6, <3>1, <3>2, OpeningNext
  <2> QED
    BY <1>4, <2>4, <2>7
<1>8. CASE Peek \notin FileBlocks
  <2>1. /\ Peek \in Plain /\ UNCHANGED <<local, found, patches>>
        /\ goals' = StartGoals(Kind(block, Peek), Slot(block, Peek)) \o Rest(block)
    <3>1. CASE Peek = "dimensions"
      <4>1. /\ Entry(<<Expect(BracketOpen), GoalOf("exponents", 0)>>) /\ UNCHANGED found
        BY <3>1 DEF ReadFile, Unknown
      <4>2. goals' = <<Expect(BracketOpen), GoalOf("exponents", 0)>> \o Rest(block)
        BY <1>5, <4>1, Tuples DEF Entry
      <4>3. Kind(block, Peek) = "exponents"
        BY <3>1 DEF Kind
      <4> QED
        BY <3>1, <4>1, <4>2, <4>3 DEF Entry, StartGoals, Plain, Ordinary, Keywords
    <3>2. CASE Peek = "internalField"
      <4>1. /\ Entry(<<GoalOf("value", "internal")>>) /\ UNCHANGED found
        BY <3>2 DEF ReadFile, Unknown
      <4>2. goals' = <<GoalOf("value", "internal")>> \o Rest(block)
        BY <1>5, <4>1, Tuples DEF Entry
      <4>3. Kind(block, Peek) = "value" /\ Slot(block, Peek) = "internal"
        BY <3>2 DEF Kind, Slot
      <4> QED
        BY <3>2, <4>1, <4>2, <4>3 DEF Entry, StartGoals, Plain, Ordinary, Keywords
    <3>3. CASE Peek \notin {"dimensions", "internalField"}
      <4>1. Unknown("exact") /\ Peek \in Plain
        BY <1>8, <3>3 DEF ReadFile, FileBlocks
      <4>2. goals' = <<Goal("exact")>> \o Rest(block)
        BY <1>5, <4>1, Tuples DEF Unknown
      <4>3. Kind(block, Peek) = "exact"
        BY <3>3 DEF Kind
      <4> QED
        BY <4>1, <4>2, <4>3 DEF Unknown, StartGoals
    <3> QED
      BY <3>1, <3>2, <3>3
  <2>2. InEntry(block, b, o, i)'
    BY <1>1, <1>3, <1>8, <2>1, EntryBegins
  <2>3. FoundOK'
    BY <2>1 DEF FoundOK
  <2> QED
    BY <1>4, <2>2, <2>3
<1> QED
  BY <1>6, <1>7, <1>8 DEF FileBlocks

\* The end of the file.
LEMMA FileEnds ==
  ASSUME Sure, NEW b, NEW o, AtHead("file", b, o), ReadFile, Peek = "end"
  PROVE  ReadAsWritten'
<1>1. /\ at \in Nat /\ Len(text) \in Nat /\ text \in Seq(Tokens) /\ at \in 1 .. Len(text) + 1 /\ Nest(text, at, open)
  BY AtFacts DEF Sure, Lexed
<1>2. mode' = "done" /\ UNCHANGED <<text, full, found, patches>> /\ Accepts
  <2>1. "end" \notin Plain
    BY TokenKinds
  <2>2. "FoamFile" \in Plain /\ "dimensions" \in Plain /\ "internalField" \in Plain /\ "boundaryField" \in Plain
    BY DEF Plain, Ordinary, Keywords
  <2> QED
    BY <2>1, <2>2 DEF ReadFile, Reading
<1>3. at = Len(text) + 1
  <2> SUFFICES ASSUME at # Len(text) + 1 PROVE FALSE
    OBVIOUS
  <2>1. at \in 1 .. Len(text)
    BY <1>1
  <2>2. text[at] = "end" /\ text[at] \in Tokens
    BY <1>1, <2>1 DEF Peek, TokenAt
  <2> QED
    BY <2>2, TokenKinds
<1>4. open = <<>>
  BY <1>2 DEF Accepts, Lexes
<1>5. Whole(text)
  BY <1>1, <1>3, <1>4, NestEnds
<1>6. /\ FileAt(text, full, at) /\ FileFound(text, full, found, patches, FileBefore(text, at), "none")
  BY DEF AtHead, BlockAt, FoundIn
<1>7. FileBefore(text, at) = FileKeys(text)
  <2>1. at - 1 = Len(text)
    BY <1>1, <1>3
  <2> QED
    BY <2>1 DEF FileBefore, FileKeys
<1>8. Valid(text, full)
  BY <1>5, <1>6, <1>7 DEF Valid, FileAt
<1>9. /\ \A s \in FileSlots : found[s] = Says(text, full, FileKeys(text), s)
      /\ patches = PatchesSaid(text, full, FileKeys(text))
  BY <1>6, <1>7 DEF FileFound, FileSlots
<1> QED
  BY <1>2, <1>8, <1>9 DEF ReadAsWritten

-----------------------------------------------------------------------------
\* A loop that is not over takes the key of an entry.
LEMMA LoopToken ==
  ASSUME Sure, Accepts, Rule \in {"header", "boundary", "patch"}
  PROVE  /\ Peek # "end" /\ Peek \in Plain \cup {BraceClose}
         /\ Peek = text[at] /\ at \in 1 .. Len(text) /\ BraceClose \notin Plain
<1>1. Peek \in Plain \cup {BraceClose}
  BY UsableFacts DEF Accepts
<1>2. BraceClose \notin Plain /\ BraceClose # "end"
  BY TokenNames, TokenKinds DEF Structural
<1>3. Peek # "end"
  BY <1>1, <1>2, TokenKinds
<1> QED
  BY <1>1, <1>2, <1>3, Taken DEF Sure

\* The entries of a header.
LEMMA HeaderTaken ==
  ASSUME Sure, FoundOK, NEW block, block = "header", NEW b, NEW o, AtHead(block, b, o), ReadHeader,
         NEW i, i = at, Peek \in Plain
  PROVE  /\ FoundOK' /\ UNCHANGED <<text, mode>>
         /\ i \in 1 .. Len(text)
         /\ InEntry(block, b, o, i)'
<1>1. block \in Places4 /\ block \in Lists /\ goals = Rest(block)
  BY DEF AtHead, Places4, Lists
<1>2. Accepts /\ Rule = "header"
  BY DEF ReadHeader, Reading
<1>3. Peek # BraceClose /\ Peek # "end"
  BY <1>2, LoopToken
<1>4. TakeToken
  BY <1>3 DEF ReadHeader, Unknown, Entry, EndLoop
<1>5. Token
  BY <1>2, <1>3, <1>4, TokenStep DEF Sure
<1>6. i \in 1 .. Len(text) /\ text' = text /\ mode' = mode
  BY <1>5 DEF Token
<1>7. \A then : IsSeq(then) /\ Go(then \o <<Head(goals)>>) => goals' = then \o Rest(block)
  BY <1>1, HeadGoals
<1>8. /\ UNCHANGED <<local, found, patches>>
      /\ goals' = StartGoals(Kind(block, Peek), Slot(block, Peek)) \o Rest(block)
  <2>1. CASE Peek \in {"class", "object"}
    <3>1. Entry(<<GoalOf("scalar", Peek), Expect(Semicolon)>>) /\ UNCHANGED found
      BY <1>3, <2>1 DEF ReadHeader, EndLoop
    <3>2. goals' = <<GoalOf("scalar", Peek), Expect(Semicolon)>> \o Rest(block)
      BY <1>7, <3>1, Tuples DEF Entry
    <3>3. Kind(block, Peek) = "word" /\ Slot(block, Peek) = Peek
      BY <2>1 DEF Kind, Slot
    <3> QED
      BY <3>1, <3>2, <3>3 DEF Entry, StartGoals
  <2>2. CASE Peek \notin {"class", "object"}
    <3>1. Unknown("exact")
      BY <1>3, <2>2 DEF ReadHeader, EndLoop
    <3>2. goals' = <<Goal("exact")>> \o Rest(block)
      BY <1>7, <3>1, Tuples DEF Unknown
    <3>3. Kind(block, Peek) = "exact"
      BY <2>2 DEF Kind
    <3> QED
      BY <3>1, <3>2, <3>3 DEF Unknown, StartGoals
  <2> QED
    BY <2>1, <2>2
<1>9. InEntry(block, b, o, i)'
  BY <1>1, <1>5, <1>8, EntryBegins
<1>10. FoundOK'
  BY <1>8 DEF FoundOK
<1> QED
  BY <1>6, <1>9, <1>10

\* The entries of a patch.
LEMMA PatchTaken ==
  ASSUME Sure, FoundOK, NEW block, block = "patch", NEW b, NEW o, AtHead(block, b, o), ReadPatch,
         NEW i, i = at, Peek \in Plain
  PROVE  /\ FoundOK' /\ UNCHANGED <<text, mode>>
         /\ i \in 1 .. Len(text)
         /\ InEntry(block, b, o, i)'
<1>1. block \in Places4 /\ block \in Lists /\ goals = Rest(block)
  BY DEF AtHead, Places4, Lists
<1>2. Accepts /\ Rule = "patch"
  BY DEF ReadPatch, Reading
<1>3. Peek # BraceClose /\ Peek # "end"
  BY <1>2, LoopToken
<1>4. TakeToken
  BY <1>3 DEF ReadPatch, Unknown, Entry, EndLoop
<1>5. Token
  BY <1>2, <1>3, <1>4, TokenStep DEF Sure
<1>6. i \in 1 .. Len(text) /\ text' = text /\ mode' = mode
  BY <1>5 DEF Token
<1>7. \A then : IsSeq(then) /\ Go(then \o <<Head(goals)>>) => goals' = then \o Rest(block)
  BY <1>1, HeadGoals
<1>8. /\ UNCHANGED <<local, found, patches>>
      /\ goals' = StartGoals(Kind(block, Peek), Slot(block, Peek)) \o Rest(block)
  <2>1. CASE Peek = "type"
    <3>1. Entry(<<GoalOf("scalar", "type"), Expect(Semicolon)>>) /\ UNCHANGED found
      BY <1>3, <2>1 DEF ReadPatch, EndLoop
    <3>2. goals' = <<GoalOf("scalar", "type"), Expect(Semicolon)>> \o Rest(block)
      BY <1>7, <3>1, Tuples DEF Entry
    <3>3. Kind(block, Peek) = "word" /\ Slot(block, Peek) = "type"
      BY <2>1 DEF Kind, Slot
    <3> QED
      BY <3>1, <3>2, <3>3 DEF Entry, StartGoals
  <2>2. CASE Peek \in {"value", "inletValue"}
    <3>1. PICK slot : slot = IF Peek = "value" THEN "value" ELSE "inlet"
      OBVIOUS
    <3>2. Entry(<<GoalOf("value", slot)>>) /\ UNCHANGED found
      BY <1>3, <2>2, <3>1 DEF ReadPatch, EndLoop
    <3>3. goals' = <<GoalOf("value", slot)>> \o Rest(block)
      BY <1>7, <3>2, Tuples DEF Entry
    <3>4. Kind(block, Peek) = "value" /\ Slot(block, Peek) = slot
      BY <2>2, <3>1 DEF Kind, Slot
    <3> QED
      BY <3>2, <3>3, <3>4 DEF Entry, StartGoals
  <2>3. CASE Peek \notin {"type", "value", "inletValue"}
    <3>1. Unknown("line")
      BY <1>3, <2>3 DEF ReadPatch, EndLoop
    <3>2. goals' = <<Goal("line")>> \o Rest(block)
      BY <1>7, <3>1, Tuples DEF Unknown
    <3>3. Kind(block, Peek) = "line"
      BY <2>3 DEF Kind
    <3> QED
      BY <3>1, <3>2, <3>3 DEF Unknown, StartGoals
  <2> QED
    BY <2>1, <2>2, <2>3
<1>9. InEntry(block, b, o, i)'
  BY <1>1, <1>5, <1>8, EntryBegins
<1>10. FoundOK'
  BY <1>8 DEF FoundOK
<1> QED
  BY <1>6, <1>9, <1>10

\* The name of a patch.
LEMMA NameTaken ==
  ASSUME Sure, FoundOK, NEW block, block = "boundary", NEW b, NEW o, AtHead(block, b, o), ReadBoundary,
         NEW i, i = at, Peek \in Plain
  PROVE  /\ FoundOK' /\ UNCHANGED <<text, mode>>
         /\ i \in 1 .. Len(text)
         /\ Opening(block, b, o, i)'
<1>1. block \in Places4 /\ goals = Rest(block) /\ local = <<>> /\ BlockAt(text, full, block, b, o, i)
      /\ FoundIn(text, full, found, patches, block, b, o, i, "none")
  BY DEF AtHead, Places4
<1>2. Accepts /\ Rule = "boundary"
  BY DEF ReadBoundary, Reading
<1>3. Peek # BraceClose /\ Peek # "end"
  BY <1>2, LoopToken
<1>4. /\ Entry(<<Expect(BraceOpen), Goal("patch"), Expect(BraceClose)>>)
      /\ found' = [s \in DOMAIN found |-> CASE s = "name" -> Value("name", at, 0)
                                            [] s \in PatchSlots \ {"name"} -> Absent
                                            [] OTHER -> found[s]]
  BY <1>3 DEF ReadBoundary, EndLoop
<1>5. Token
  BY <1>2, <1>3, <1>4, TokenStep DEF Sure, Entry
<1>6. i \in 1 .. Len(text) /\ text' = text /\ mode' = mode /\ full' = full
  BY <1>5 DEF Token
<1>7. goals' = <<Expect(BraceOpen), Goal("patch"), Expect(BraceClose)>> \o Rest(block)
  BY <1>1, <1>4, HeadGoals, Tuples DEF Entry
<1>8. goals' = <<Expect(BraceOpen)>> \o Rest("patch") /\ local' = local /\ patches' = patches
  BY <1>4, <1>7, InnerGoals DEF Entry
<1>9. DOMAIN found = Slots
  <2>1. PICK f : f = found
    OBVIOUS
  <2>2. f = [s \in FileSlots \cup PatchSlots |-> f[s]]
    BY <2>1 DEF FoundOK
  <2> QED
    BY <2>1, <2>2 DEF Slots
<1>10. /\ FoundOK' /\ found'["name"] = Value("name", i, 0)
       /\ \A s \in {"type", "value", "inlet"} : found'[s] = Absent
       /\ \A s \in FileSlots : found'[s] = found[s]
  <2>1. found' = [s \in Slots |-> CASE s = "name" -> Value("name", i, 0)
                                    [] s \in PatchSlots \ {"name"} -> Absent
                                    [] OTHER -> found[s]]
    BY <1>4, <1>9
  <2>2. FoundOK'
    BY <2>1 DEF FoundOK, Slots
  <2> QED
    BY <2>1, <2>2 DEF Slots, FileSlots, PatchSlots
<1>11. FoundIn(text, full, found', patches, block, b, o, i, "none")
  <2>1. /\ FileFound(text, full, found, patches, FileBefore(text, o), "patches")
        /\ patches = PatchesAt(text, full, Before(text, o, i, Tokens))
    BY <1>1 DEF FoundIn
  <2>2. FileFound(text, full, found', patches, FileBefore(text, o), "patches")
    BY <1>10, <2>1 DEF FileFound
  <2> QED
    BY <2>1, <2>2 DEF FoundIn
<1>12. Opening(block, b, o, i)'
  <2>1. PICK inner : inner = "patch"
    OBVIOUS
  <2>2. FreshIn(inner, block, b, o, i)'
    BY <1>6, <1>8, <1>10, <1>11, <2>1 DEF FreshIn
  <2>3. Inner(block, Peek) = inner
    BY <2>1 DEF Inner
  <2> QED
    BY <1>1, <1>5, <1>8, <2>1, <2>2, <2>3, OpeningNext
<1> QED
  BY <1>6, <1>10, <1>12

-----------------------------------------------------------------------------
\* A loop over the entries of a block ends before its closing brace.
LEMMA LoopEnds ==
  ASSUME Sure, FoundOK, NEW block \in {"header", "boundary", "patch"}, NEW b \in 0 .. Len(text), NEW o, AtHead(block, b, o),
         ReadHeader \/ ReadBoundary \/ ReadPatch, Peek = BraceClose
  PROVE  /\ FoundOK' /\ UNCHANGED <<text, mode>>
         /\ o \in 1 .. Len(text)
         /\ \E outer \in Places4 : Closing(outer, 0, b, o)'
<1>1. block \in Places4 /\ goals = Rest(block) /\ local = <<>> /\ BlockAt(text, full, block, b, o, at)
      /\ FoundIn(text, full, found, patches, block, b, o, at, "none")
  BY DEF AtHead, Places4
<1>2. Rule = block /\ (Go(<<>>) => goals' = Outer(block))
  BY <1>1, HeadGoals
<1>3. Accepts /\ Rule \in {"header", "boundary", "patch"}
  BY DEF ReadHeader, ReadBoundary, ReadPatch, Reading
<1>4. Peek = text[at] /\ at \in 1 .. Len(text) /\ BraceClose \notin Plain
  BY <1>3, LoopToken
<1>5. /\ block # "patch" => EndLoop(patches)
      /\ block = "patch" => EndLoop(Append(patches, [s \in PatchSlots |-> found[s]]))
  <2>1. "class" \in Plain /\ "object" \in Plain /\ "type" \in Plain /\ "value" \in Plain /\ "inletValue" \in Plain
    BY DEF Plain, Ordinary, Keywords
  <2>2. CASE ReadHeader
    <3>1. EndLoop(patches) /\ Rule = "header"
      BY <1>4, <2>1, <2>2 DEF ReadHeader, Reading
    <3> QED
      BY <1>2, <3>1
  <2>3. CASE ReadBoundary
    <3>1. EndLoop(patches) /\ Rule = "boundary"
      BY <1>4, <2>3 DEF ReadBoundary, Reading
    <3> QED
      BY <1>2, <3>1
  <2>4. CASE ReadPatch
    <3>1. EndLoop(Append(patches, [s \in PatchSlots |-> found[s]])) /\ Rule = "patch"
      BY <1>4, <2>1, <2>4 DEF ReadPatch, Reading
    <3> QED
      BY <1>2, <3>1
  <2> QED
    BY <2>2, <2>3, <2>4
<1>6. /\ goals' = Outer(block) /\ local' = <<>>
      /\ text' = text /\ full' = full /\ mode' = mode /\ at' = at /\ found' = found
  BY <1>1, <1>2, <1>5 DEF EndLoop, Leave
<1>7. FoundOK'
  BY <1>6 DEF FoundOK
<1>8. at' <= Len(text') /\ text'[at'] = BraceClose
  BY <1>4, <1>6
<1>9. CASE block = "header"
  <2>1. o \in 1 .. Len(text) /\ text[o] = "FoamFile"
    BY <1>1, <1>9 DEF BlockAt, HeaderAt
  <2>2. patches' = patches
    BY <1>5, <1>9 DEF EndLoop
  <2>3. FoundIn(text, full, found, patches, block, b, o, at, "none")'
    BY <1>1, <1>6, <2>2
  <2>4. Inner("file", text[o]) = block
    BY <1>9, <2>1 DEF Inner
  <2>5. Closing("file", 0, b, o)'
    BY <1>1, <1>6, <1>8, <1>9, <2>3, <2>4, Zenon DEF Closing
  <2> QED
    BY <1>6, <1>7, <2>1, <2>5 DEF Places4
<1>10. CASE block = "boundary"
  <2>1. o \in 1 .. Len(text) /\ text[o] = "boundaryField"
    BY <1>1, <1>10 DEF BlockAt, BoundaryAt
  <2>2. patches' = patches
    BY <1>5, <1>10 DEF EndLoop
  <2>3. FoundIn(text, full, found, patches, block, b, o, at, "none")'
    BY <1>1, <1>6, <2>2
  <2>4. Inner("file", text[o]) = block
    BY <1>10, <2>1 DEF Inner
  <2>5. Closing("file", 0, b, o)'
    BY <1>1, <1>6, <1>8, <1>10, <2>3, <2>4, Zenon DEF Closing
  <2> QED
    BY <1>6, <1>7, <2>1, <2>5 DEF Places4
<1>11. CASE block = "patch"
  <2>1. o \in 1 .. Len(text)
    BY <1>1, <1>11 DEF BlockAt, PatchAt
  <2>2. /\ FileFound(text, full, found, patches, FileBefore(text, b), "patches")
        /\ patches = PatchesAt(text, full, Before(text, b, o, Tokens))
        /\ found["name"] = Value("name", o, 0)
        /\ PatchFound(text, full, found, Before(text, o, at, {}), "none")
    BY <1>1, <1>11 DEF FoundIn
  <2>3. patches' = Append(patches, [s \in PatchSlots |-> found[s]])
    BY <1>5, <1>11 DEF EndLoop
  <2>4. [s \in PatchSlots |-> found[s]]
          = [s \in PatchSlots |-> IF s = "name" THEN Value("name", o, 0) ELSE PatchSays(text, full, Before(text, o, at, {}), s)]
    <3>1. \A s \in PatchSlots : found[s] = IF s = "name" THEN Value("name", o, 0)
                                           ELSE PatchSays(text, full, Before(text, o, at, {}), s)
      BY <2>2 DEF PatchFound, PatchSlots
    <3> QED
      BY <3>1
  <2>5. FileFound(text, full, found, patches, FileBefore(text, b), "patches")'
    <3>1. FileFound(text, full, found, patches', FileBefore(text, b), "patches")
      BY <2>2 DEF FileFound
    <3> QED
      BY <1>6, <3>1
  <2>6. Inner("boundary", text[o]) = block
    BY <1>11 DEF Inner
  <2>7. patches' = Append(PatchesAt(text', full', Before(text', b, o, Tokens)),
                          [s \in PatchSlots |-> IF s = "name" THEN Value("name", o, 0)
                                                ELSE PatchSays(text', full', Before(text', o, at', {}), s)])
    BY <1>6, <2>2, <2>3, <2>4
  <2>8. Closing("boundary", 0, b, o)'
    BY <1>1, <1>6, <1>8, <1>11, <2>5, <2>6, <2>7, Zenon DEF Closing
  <2> QED
    BY <1>6, <1>7, <2>1, <2>8 DEF Places4
<1> QED
  BY <1>9, <1>10, <1>11

-----------------------------------------------------------------------------
\* A brace that is expected.
LEMMA BraceTaken ==
  ASSUME Sure, FoundOK, NEW t \in Structural, NEW r, IsSeq(r), goals = <<Expect(t)>> \o r, ReadExpected
  PROVE  /\ Token /\ Peek = t /\ goals' = r /\ FoundOK'
         /\ UNCHANGED <<text, full, mode, local, found, patches>>
         /\ at \in 1 .. Len(text) /\ text[at] = t /\ at' = at + 1
<1>1. Of = Expect(t).of /\ Rule = Expect(t).rule /\ (Go(<<>>) => goals' = r)
  BY GoalOne
<1>2. Accepts /\ TakeToken /\ Go(<<>>) /\ UNCHANGED <<local, found, patches>>
  BY DEF ReadExpected, Reading
<1>3. Rule = "expect" /\ Of = t
  BY <1>1, Literals
<1>4. Peek = t /\ Peek # "end"
  <2>1. Peek # "end" /\ Peek \in Usable
    BY <1>2, <1>3, NotEnd
  <2> QED
    BY <1>3, <2>1, UsableFacts
<1>5. Token
  BY <1>2, <1>4, TokenStep DEF Sure
<1>6. FoundOK'
  BY <1>2 DEF FoundOK
<1> QED
  BY <1>1, <1>2, <1>4, <1>5, <1>6 DEF Token

\* The blocks that entries can be.
LEMMA InnerCases ==
  ASSUME NEW block \in Places4, NEW key, NEW inner, inner = Inner(block, key), inner # "none"
  PROVE  \/ block = "file" /\ inner = "header" /\ key = "FoamFile"
         \/ block = "file" /\ inner = "boundary" /\ key = "boundaryField"
         \/ block = "boundary" /\ inner = "patch"
BY DEF Inner, Places4

\* A block begins.
LEMMA OpeningTaken ==
  ASSUME Sure, FoundOK, NEW block \in Places4, NEW b, NEW o \in 0 .. Len(text), NEW i \in 1 .. Len(text),
         Opening(block, b, o, i), Read, ~Refuse
  PROVE  /\ FoundOK' /\ UNCHANGED <<text, mode>>
         /\ \E inner \in Places4 : AtHead(inner, o, i)'
<1>1. PICK inner, r : inner = Inner(block, text[i]) /\ r = Rest(inner)
  OBVIOUS
<1>2. /\ inner # "none" /\ goals = <<Expect(BraceOpen)>> \o r /\ local = <<>> /\ i = at - 1
      /\ text[i] \in Plain /\ BlockAt(text, full, block, b, o, i) /\ FreshIn(inner, block, b, o, i)
  BY <1>1, Zenon DEF Opening
<1>3. IsSeq(r) /\ BraceOpen \in Structural
  BY <1>1, RestSeq, TokenNames DEF Structural
<1>4. Rule = "expect"
  <2>1. Rule = Expect(BraceOpen).rule
    BY <1>2, <1>3, GoalOne
  <2> QED
    BY <2>1, Literals
<1>5. ReadExpected
  BY <1>4, ReadBy
<1>6. /\ goals' = r /\ FoundOK'
      /\ UNCHANGED <<text, full, mode, local, found, patches>>
      /\ at \in 1 .. Len(text) /\ text[at] = BraceOpen /\ at' = at + 1
  BY <1>2, <1>3, <1>5, BraceTaken
<1>7. text \in Seq(Tokens) /\ at \in Nat
  BY AtFacts DEF Sure
<1>8. at = i + 1 /\ at' = i + 2 /\ i + 1 \in 1 .. Len(text) /\ text[i + 1] = BraceOpen
  BY <1>2, <1>6, <1>7
<1>9. \A blocks : Inside(text, i, i + 2, blocks) /\ Before(text, i, i + 2, blocks) = {}
  BY <1>2, <1>7, <1>8, InsideBegins
<1>10. ASSUME inner \in Places4, BlockAt(text, full, inner, o, i, i + 2),
              FoundIn(text, full, found, patches, inner, o, i, i + 2, "none")
       PROVE  AtHead(inner, o, i)'
  BY <1>1, <1>2, <1>6, <1>8, <1>10 DEF AtHead
<1>11. CASE block = "file" /\ inner = "header" /\ text[i] = "FoamFile"
  <2>1. FileAt(text, full, i)
    BY <1>2, <1>11 DEF BlockAt
  <2>2. HeaderAt(text, full, i, i + 2)
    BY <1>9, <1>11, <2>1 DEF HeaderAt
  <2>3. FileFound(text, full, found, patches, FileBefore(text, i), "object") /\ found["object"] = Absent
    BY <1>2, <1>11 DEF FreshIn
  <2>4. HeaderFound(text, found, Before(text, i, i + 2, {}), "none")
    BY <1>9, <2>3, LatestNone DEF HeaderFound, WordAt
  <2>5. BlockAt(text, full, inner, o, i, i + 2) /\ FoundIn(text, full, found, patches, inner, o, i, i + 2, "none")
    BY <1>11, <2>2, <2>3, <2>4 DEF BlockAt, FoundIn
  <2> QED
    BY <1>6, <1>10, <1>11, <2>5 DEF Places4
<1>12. CASE block = "file" /\ inner = "boundary" /\ text[i] = "boundaryField"
  <2>1. FileAt(text, full, i)
    BY <1>2, <1>12 DEF BlockAt
  <2>2. BoundaryAt(text, full, i, i + 2)
    BY <1>9, <1>12, <2>1 DEF BoundaryAt
  <2>3. FileFound(text, full, found, patches, FileBefore(text, i), "patches") /\ patches = <<>>
    BY <1>2, <1>12 DEF FreshIn
  <2>4. patches = PatchesAt(text, full, Before(text, i, i + 2, Tokens))
    BY <1>9, <2>3, PatchesBegin
  <2>5. BlockAt(text, full, inner, o, i, i + 2) /\ FoundIn(text, full, found, patches, inner, o, i, i + 2, "none")
    BY <1>12, <2>2, <2>3, <2>4 DEF BlockAt, FoundIn
  <2> QED
    BY <1>6, <1>10, <1>12, <2>5 DEF Places4
<1>13. CASE block = "boundary" /\ inner = "patch"
  <2>1. BoundaryAt(text, full, o, i)
    BY <1>2, <1>13 DEF BlockAt
  <2>2. PatchAt(text, full, o, i, i + 2)
    BY <1>2, <1>9, <2>1 DEF PatchAt
  <2>3. /\ FoundIn(text, full, found, patches, block, b, o, i, "none")
        /\ found["name"] = Value("name", i, 0)
        /\ \A s \in {"type", "value", "inlet"} : found[s] = Absent
    BY <1>2, <1>13 DEF FreshIn
  <2>4. /\ FileFound(text, full, found, patches, FileBefore(text, o), "patches")
        /\ patches = PatchesAt(text, full, Before(text, o, i, Tokens))
    BY <1>13, <2>3 DEF FoundIn
  <2>5. PatchFound(text, full, found, Before(text, i, i + 2, {}), "none")
    <3>1. \A s \in {"type", "value", "inlet"} : PatchSays(text, full, {}, s) = Absent
      BY LatestNone DEF PatchSays, WordAt, ValueAt
    <3> QED
      BY <1>9, <2>3, <3>1 DEF PatchFound
  <2>6. BlockAt(text, full, inner, o, i, i + 2) /\ FoundIn(text, full, found, patches, inner, o, i, i + 2, "none")
    BY <1>13, <2>2, <2>3, <2>4, <2>5 DEF BlockAt, FoundIn
  <2> QED
    BY <1>6, <1>10, <1>13, <2>6 DEF Places4
<1> QED
  BY <1>1, <1>2, <1>11, <1>12, <1>13, InnerCases

\* And ends.
LEMMA ClosingTaken ==
  ASSUME Sure, FoundOK, NEW block \in Places4, NEW b, NEW o \in 0 .. Len(text), NEW i \in 1 .. Len(text),
         Closing(block, b, o, i), Read, ~Refuse
  PROVE  /\ FoundOK' /\ UNCHANGED <<text, mode>>
         /\ AtHead(block, b, o)'
<1>1. PICK inner, r : inner = Inner(block, text[i]) /\ r = IF block = "boundary" THEN BoundaryRest ELSE <<Goal("file")>>
  OBVIOUS
<1>2. /\ inner # "none" /\ goals = Outer(inner) /\ local = <<>>
      /\ at <= Len(text) /\ text[at] = BraceClose
      /\ BlockAt(text, full, inner, o, i, at)
      /\ inner = "patch" =>
           /\ FileFound(text, full, found, patches, FileBefore(text, o), "patches")
           /\ patches = Append(PatchesAt(text, full, Before(text, o, i, Tokens)),
                               [s \in PatchSlots |-> IF s = "name" THEN Value("name", i, 0)
                                                     ELSE PatchSays(text, full, Before(text, i, at, {}), s)])
      /\ inner # "patch" => FoundIn(text, full, found, patches, inner, o, i, at, "none")
  BY <1>1, Zenon DEF Closing
<1>3. PICK key : key = text[i]
  OBVIOUS
<1>4. \/ block = "file" /\ inner = "header"
      \/ block = "file" /\ inner = "boundary"
      \/ block = "boundary" /\ inner = "patch"
  BY <1>1, <1>2, <1>3, InnerCases
<1>5. goals = <<Expect(BraceClose)>> \o r /\ r = Rest(block) /\ IsSeq(r)
  <2>1. r = Rest(block)
    BY <1>1, <1>4 DEF Rest, BoundaryRest, Outer
  <2>2. IsSeq(r)
    BY <2>1, RestSeq
  <2> QED
    BY <1>1, <1>2, <1>4, <2>1, <2>2 DEF Outer
<1>6. BraceClose \in Structural
  BY TokenNames DEF Structural
<1>7. Rule = "expect"
  <2>1. Rule = Expect(BraceClose).rule
    BY <1>5, GoalOne
  <2> QED
    BY <2>1, Literals
<1>8. ReadExpected
  BY <1>7, ReadBy
<1>9. /\ goals' = r /\ FoundOK'
      /\ UNCHANGED <<text, full, mode, local, found, patches>>
      /\ at \in 1 .. Len(text) /\ text[at] = BraceClose /\ at' = at + 1
  BY <1>5, <1>6, <1>8, BraceTaken
<1>10. text \in Seq(Tokens)
  BY AtFacts DEF Sure
<1>11. ASSUME BlockAt(text, full, block, b, o, at + 1), FoundIn(text, full, found, patches, block, b, o, at + 1, "none")
       PROVE  AtHead(block, b, o)'
  BY <1>2, <1>5, <1>9, <1>11 DEF AtHead
<1>12. CASE block = "file" /\ inner = "header"
  <2>1. /\ HeaderAt(text, full, i, at)
        /\ FileFound(text, full, found, patches, FileBefore(text, i), "object")
        /\ HeaderFound(text, found, Before(text, i, at, {}), "none")
    BY <1>2, <1>12 DEF BlockAt, FoundIn
  <2>2. PICK k, fnd, pts, keep : k = at /\ fnd = found /\ pts = patches /\ keep = full
    OBVIOUS
  <2>3. FileAt(text, keep, k + 1) /\ FileFound(text, keep, fnd, pts, FileBefore(text, k + 1), "none")
    BY <1>9, <1>10, <2>1, <2>2, HeaderDone
  <2> QED
    BY <1>9, <1>11, <1>12, <2>2, <2>3 DEF BlockAt, FoundIn
<1>13. CASE block = "file" /\ inner = "boundary"
  <2>1. /\ BoundaryAt(text, full, i, at)
        /\ FileFound(text, full, found, patches, FileBefore(text, i), "patches")
        /\ patches = PatchesAt(text, full, Before(text, i, at, Tokens))
    BY <1>2, <1>13 DEF BlockAt, FoundIn
  <2>2. PICK k, fnd, pts, keep : k = at /\ fnd = found /\ pts = patches /\ keep = full
    OBVIOUS
  <2>3. FileAt(text, keep, k + 1) /\ FileFound(text, keep, fnd, pts, FileBefore(text, k + 1), "none")
    BY <1>9, <1>10, <2>1, <2>2, BoundaryDone
  <2> QED
    BY <1>9, <1>11, <1>13, <2>2, <2>3 DEF BlockAt, FoundIn
<1>14. CASE block = "boundary" /\ inner = "patch"
  <2>1. PatchAt(text, full, o, i, at)
    BY <1>2, <1>14 DEF BlockAt
  <2>2. /\ BoundaryAt(text, full, o, at + 1)
        /\ Before(text, o, at + 1, Tokens) = Before(text, o, i, Tokens) \cup {i}
        /\ Earlier(Before(text, o, i, Tokens), i)
        /\ KeysIn(text, i, {}) = Before(text, i, at, {})
    BY <1>9, <1>10, <2>1, PatchDone
  <2>3. patches = Append(PatchesAt(text, full, Before(text, o, i, Tokens)), Patch(text, full, i))
    BY <1>2, <1>14, <2>2 DEF Patch
  <2>4. patches = PatchesAt(text, full, Before(text, o, at + 1, Tokens))
    BY <2>2, <2>3, PatchesNext
  <2>5. FoundIn(text, full, found, patches, block, b, o, at + 1, "none")
    BY <1>2, <1>14, <2>4 DEF FoundIn
  <2>6. BlockAt(text, full, block, b, o, at + 1)
    BY <1>14, <2>2 DEF BlockAt
  <2> QED
    BY <1>9, <1>11, <2>5, <2>6
<1> QED
  BY <1>4, <1>12, <1>13, <1>14

-----------------------------------------------------------------------------
(***************************************************************************)
(* The keys of a file that is valid.                                       *)
(***************************************************************************)

\* No level of a file that is whole is below that of the file.
LEMMA WholeLevels ==
  ASSUME NEW file \in Seq(Tokens), Whole(file), NEW p \in 1 .. Len(file)
  PROVE  Level(file, p) \in Nat /\ Level(file, Len(file) + 1) = 0
<1>1. Len(file) \in Nat /\ Level(file, Len(file) + 1) = 0
  BY DEF Whole
<1>2. CASE p = 1
  BY <1>1, <1>2, LevelFacts
<1>3. CASE p # 1
  <2>1. p - 1 \in 1 .. Len(file) /\ (p - 1) + 1 = p
    BY <1>1, <1>3
  <2>2. Level(file, (p - 1) + 1) \in 0 .. MaxNesting
    BY <2>1 DEF Whole
  <2> QED
    BY <1>1, <2>1, <2>2
<1> QED
  BY <1>2, <1>3

\* Every opening delimiter of it is closed.
LEMMA PartnerExists ==
  ASSUME NEW file \in Seq(Tokens), Whole(file), NEW p \in 1 .. Len(file), file[p] \in Openers
  PROVE  /\ Partner(file, p) \in p + 1 .. Len(file)
         /\ Level(file, Partner(file, p) + 1) = Level(file, p)
         /\ <<file[p], file[Partner(file, p)]>> \in Matching
<1>1. Len(file) \in Nat /\ p \in Nat /\ Level(file, p) \in Nat /\ Level(file, Len(file) + 1) = 0
  BY WholeLevels
<1>2. SUFFICES Partner(file, p) # 0
  BY <1>1, PartnerFacts DEF Whole
<1>3. SUFFICES ASSUME \A k \in p + 1 .. Len(file) : Level(file, k + 1) # Level(file, p)
               PROVE  FALSE
  BY <1>1, PartnerFacts
<1> DEFINE S == {n \in Nat : p + 1 + n <= Len(file) + 1 => Level(file, p + 1 + n) > Level(file, p)}
<1>4. 0 \in S
  <2>1. Level(file, p + 1) = Level(file, p) + 1
    BY LevelStep
  <2>2. p + 1 + 0 = p + 1
    BY <1>1
  <2> QED
    BY <1>1, <2>1, <2>2
<1>5. \A n \in Nat : n \in S => n + 1 \in S
  <2> SUFFICES ASSUME NEW n \in Nat, n \in S, p + 1 + (n + 1) <= Len(file) + 1
               PROVE  Level(file, p + 1 + (n + 1)) > Level(file, p)
    OBVIOUS
  <2>1. PICK k : k = p + 1 + n
    OBVIOUS
  <2>2. k \in p + 1 .. Len(file) /\ k \in 1 .. Len(file) /\ p + 1 + (n + 1) = k + 1 /\ k <= Len(file) + 1
    BY <1>1, <2>1
  <2>3. Level(file, k) > Level(file, p)
    BY <2>1, <2>2
  <2>4. /\ Level(file, k) \in Int /\ Level(file, k + 1) \in Int
        /\ file[k] \in Openers => Level(file, k + 1) = Level(file, k) + 1
        /\ file[k] \in Closers => Level(file, k + 1) = Level(file, k) - 1
        /\ file[k] \notin Openers \cup Closers => Level(file, k + 1) = Level(file, k)
    BY <2>2, LevelStep
  <2>5. Level(file, k + 1) >= Level(file, p)
    BY <1>1, <2>3, <2>4
  <2>6. Level(file, k + 1) # Level(file, p)
    BY <1>3, <2>2
  <2> QED
    BY <1>1, <2>2, <2>4, <2>5, <2>6
<1>6. Nat \subseteq S
  <2> HIDE DEF S
  <2> QED
    BY <1>4, <1>5, SetInduction
<1>7. Len(file) - p \in Nat /\ p + 1 + (Len(file) - p) = Len(file) + 1
  BY <1>1
<1>8. Len(file) - p \in S
  BY <1>6, <1>7
<1>9. Level(file, Len(file) + 1) > Level(file, p)
  BY <1>1, <1>7, <1>8
<1> QED
  BY <1>1, <1>9

\* Within a block there is the key of an entry of it or its closing brace.
LEMMA InsideValid ==
  ASSUME NEW file \in Seq(Tokens), Whole(file), NEW o \in 1 .. Len(file), file[o] \in Plain,
         NEW k, NEW blocks, Inside(file, o, k, blocks)
  PROVE  /\ k \in 1 .. Len(file)
         /\ file[k] # BraceClose => k \in KeysIn(file, o, blocks)
<1>1. /\ Block(file, o) /\ k \in o + 2 .. Len(file) + 1
      /\ \A q \in o + 2 .. k : Level(file, q) > Level(file, o)
      /\ OnTrack(file, o + 2, k, blocks)
  BY DEF Inside
<1>2. Len(file) \in Nat /\ o \in Nat /\ k \in Nat /\ Level(file, o) \in Int
  BY <1>1, LevelType
<1>3. o + 1 \in 1 .. Len(file) /\ file[o + 1] = BraceOpen
  BY <1>1, <1>2, TokenNames DEF Block, TokenAt
<1>4. PICK P : P = Partner(file, o + 1)
  OBVIOUS
<1>5. P \in (o + 1) + 1 .. Len(file) /\ Level(file, P + 1) = Level(file, o + 1) /\ <<BraceOpen, file[P]>> \in Matching
  BY <1>3, <1>4, PartnerExists, TokenNames
<1>6. Level(file, o + 1) = Level(file, o)
  BY GoingStarts
<1>7. k <= P
  <2> SUFFICES ASSUME k > P PROVE FALSE
    BY <1>2, <1>5
  <2>1. P + 1 \in o + 2 .. k
    BY <1>2, <1>5
  <2> QED
    BY <1>1, <1>2, <1>5, <1>6, <2>1
<1>8. file[P] = BraceClose
  BY <1>5 DEF Matching, BraceOpen, ParenOpen, BracketOpen
<1>9. k \in 1 .. Len(file)
  BY <1>1, <1>2, <1>5, <1>7
<1>10. ASSUME k # P PROVE k \in KeysIn(file, o, blocks)
  <2>1. PICK last, s : last = P - 1 /\ s = o + 2
    OBVIOUS
  <2>2. last \in k .. Len(file) /\ s \in Nat
    BY <1>2, <1>5, <1>7, <1>10, <2>1
  <2>3. OnTrack(file, s, k, blocks)
    BY <1>1, <2>1
  <2>4. k \in Keys(file, s, last, blocks)
    BY <1>9, <2>2, <2>3, TrackKey
  <2> QED
    BY <1>4, <2>1, <2>4 DEF KeysIn
<1> QED
  BY <1>8, <1>9, <1>10

\* Of the file.
LEMMA FileValid ==
  ASSUME NEW file \in Seq(Tokens), NEW keep, Valid(file, keep), NEW k \in 1 .. Len(file), FileAt(file, keep, k)
  PROVE  ValidFileEntry(file, keep, k)
<1>1. PICK s, last : s = 1 /\ last = Len(file)
  OBVIOUS
<1>2. OnTrack(file, s, k, FileBlocks) /\ s \in Nat /\ last \in k .. Len(file)
  BY <1>1 DEF FileAt
<1>3. k \in Keys(file, s, last, FileBlocks)
  BY <1>2, TrackKey
<1> QED
  BY <1>1, <1>3 DEF Valid, FileKeys

\* Of each block.
LEMMA HeaderValid ==
  ASSUME NEW file \in Seq(Tokens), NEW keep, Valid(file, keep), NEW o, NEW k, HeaderAt(file, keep, o, k)
  PROVE  k \in 1 .. Len(file) /\ (file[k] # BraceClose => ValidEntry(file, keep, k, "header"))
<1>1. o \in 1 .. Len(file) /\ file[o] = "FoamFile" /\ FileAt(file, keep, o) /\ Inside(file, o, k, {})
  BY DEF HeaderAt
<1>2. file[o] \in Plain
  BY <1>1 DEF Plain, Ordinary, Keywords
<1>3. ValidHeader(file, keep, o)
  <2>1. ValidFileEntry(file, keep, o)
    BY <1>1, FileValid
  <2> QED
    BY <1>1, <2>1 DEF ValidFileEntry
<1>4. k \in 1 .. Len(file) /\ (file[k] # BraceClose => k \in KeysIn(file, o, {}))
  BY <1>1, <1>2, InsideValid DEF Valid
<1> QED
  BY <1>3, <1>4 DEF ValidHeader

\* In a boundary of a valid file stands a closing brace or a valid patch.
LEMMA BoundaryValid ==
  ASSUME NEW file \in Seq(Tokens), NEW keep, Valid(file, keep), NEW o, NEW k, BoundaryAt(file, keep, o, k)
  PROVE  k \in 1 .. Len(file) /\ (file[k] # BraceClose => ValidPatch(file, keep, k))
<1>1. o \in 1 .. Len(file) /\ file[o] = "boundaryField" /\ FileAt(file, keep, o) /\ Inside(file, o, k, Tokens)
  BY DEF BoundaryAt
<1>2. file[o] \in Plain
  BY <1>1 DEF Plain, Ordinary, Keywords
<1>3. ValidBoundary(file, keep, o)
  <2>1. ValidFileEntry(file, keep, o)
    BY <1>1, FileValid
  <2> QED
    BY <1>1, <2>1 DEF ValidFileEntry
<1>4. k \in 1 .. Len(file) /\ (file[k] # BraceClose => k \in KeysIn(file, o, Tokens))
  BY <1>1, <1>2, InsideValid DEF Valid
<1> QED
  BY <1>3, <1>4 DEF ValidBoundary

\* In a patch of a valid file stands a closing brace or a valid entry.
LEMMA PatchValid ==
  ASSUME NEW file \in Seq(Tokens), NEW keep, Valid(file, keep), NEW b, NEW o, NEW k, PatchAt(file, keep, b, o, k)
  PROVE  k \in 1 .. Len(file) /\ (file[k] # BraceClose => ValidEntry(file, keep, k, "patch"))
<1>1. o \in 1 .. Len(file) /\ file[o] \in Plain /\ BoundaryAt(file, keep, b, o) /\ Inside(file, o, k, {})
  BY DEF PatchAt
<1>2. file[o] # BraceClose
  BY <1>1, TokenNames, TokenKinds DEF Structural
<1>3. ValidPatch(file, keep, o)
  BY <1>1, <1>2, BoundaryValid
<1>4. k \in 1 .. Len(file) /\ (file[k] # BraceClose => k \in KeysIn(file, o, {}))
  BY <1>1, InsideValid DEF Valid
<1> QED
  BY <1>3, <1>4 DEF ValidPatch

-----------------------------------------------------------------------------
\* The keys of a valid file are tokens that are not structural.
LEMMA ValidKeys ==
  ASSUME NEW file, NEW keep, NEW k
  PROVE  /\ \A block : ValidEntry(file, keep, k, block) => file[k] \in Plain
         /\ ValidPatch(file, keep, k) => file[k] \in Plain
         /\ ValidFileEntry(file, keep, k) => file[k] \in Plain
         /\ ValidFileEntry(file, keep, k) /\ file[k] \notin FileBlocks => ValidEntry(file, keep, k, "file")
         /\ ValidFileEntry(file, keep, k) /\ file[k] \in FileBlocks => Block(file, k)
<1>1. \A block : ValidEntry(file, keep, k, block) => file[k] \in Plain
  BY DEF ValidEntry
<1>2. ValidPatch(file, keep, k) => file[k] \in Plain
  BY DEF ValidPatch
<1>3. "FoamFile" \in Plain /\ "boundaryField" \in Plain
  BY DEF Plain, Ordinary, Keywords
<1>4. ValidFileEntry(file, keep, k) => \/ file[k] = "FoamFile" /\ Block(file, k)
                                       \/ file[k] = "boundaryField" /\ Block(file, k)
                                       \/ file[k] \notin FileBlocks /\ ValidEntry(file, keep, k, "file")
  BY DEF ValidFileEntry, ValidHeader, ValidBoundary, FileBlocks
<1> QED
  BY <1>1, <1>2, <1>3, <1>4 DEF FileBlocks

\* The place of a key, in a file that is valid.
LEMMA PlaceValid ==
  ASSUME NEW file \in Seq(Tokens), NEW keep, Valid(file, keep), NEW block \in Places4, NEW b, NEW o, NEW k,
         BlockAt(file, keep, block, b, o, k)
  PROVE  /\ k \in 1 .. Len(file) + 1
         /\ block # "file" => k \in 1 .. Len(file)
         /\ k \in 1 .. Len(file) /\ (block = "file" \/ file[k] # BraceClose) =>
              /\ file[k] \in Plain
              /\ block \in Lists /\ (block = "file" => file[k] \notin FileBlocks) => ValidEntry(file, keep, k, block)
              /\ Inner(block, file[k]) # "none" => Block(file, k)
<1>1. /\ k \in 1 .. Len(file) + 1
      /\ block = "file" => FileAt(file, keep, k)
      /\ block = "header" => HeaderAt(file, keep, o, k)
      /\ block = "boundary" => BoundaryAt(file, keep, o, k)
      /\ block = "patch" => PatchAt(file, keep, b, o, k)
  BY BlockPlaces
<1>2. CASE block = "file"
  <2>1. ASSUME k \in 1 .. Len(file)
        PROVE  ValidFileEntry(file, keep, k)
    BY <1>1, <1>2, <2>1, FileValid
  <2>2. Inner(block, file[k]) # "none" => file[k] \in FileBlocks
    BY <1>2 DEF Inner, FileBlocks
  <2> QED
    BY <1>1, <1>2, <2>1, <2>2, ValidKeys
<1>3. CASE block = "header"
  <2>1. k \in 1 .. Len(file) /\ (file[k] # BraceClose => ValidEntry(file, keep, k, "header"))
    BY <1>1, <1>3, HeaderValid
  <2>2. Inner(block, file[k]) = "none"
    BY <1>3 DEF Inner
  <2> QED
    BY <1>1, <1>3, <2>1, <2>2, ValidKeys
<1>4. CASE block = "boundary"
  <2>1. k \in 1 .. Len(file) /\ (file[k] # BraceClose => ValidPatch(file, keep, k))
    BY <1>1, <1>4, BoundaryValid
  <2> QED
    BY <1>1, <1>4, <2>1, ValidKeys DEF ValidPatch, Lists
<1>5. CASE block = "patch"
  <2>1. k \in 1 .. Len(file) /\ (file[k] # BraceClose => ValidEntry(file, keep, k, "patch"))
    BY <1>1, <1>5, PatchValid
  <2>2. Inner(block, file[k]) = "none"
    BY <1>5 DEF Inner
  <2> QED
    BY <1>1, <1>5, <2>1, <2>2, ValidKeys
<1> QED
  BY <1>2, <1>3, <1>4, <1>5 DEF Places4

\* What is at hand in a loop over the entries of a valid file is accepted,
LEMMA HeadAccepts ==
  ASSUME Sure, Valid(text, full), NEW block \in Places4, NEW b, NEW o, AtHead(block, b, o)
  PROVE  Accepts
<1>1. goals = Rest(block) /\ BlockAt(text, full, block, b, o, at) /\ Whole(text)
  BY DEF AtHead, Valid
<1>2. Rule = block
  BY <1>1, HeadGoals
<1>3. text \in Seq(Tokens) /\ Len(text) \in Nat /\ at \in Nat
  BY AtFacts DEF Sure
<1>4. PICK k, keep : k = at /\ keep = full
  OBVIOUS
<1>5. /\ k \in 1 .. Len(text) + 1
      /\ block # "file" => k \in 1 .. Len(text)
      /\ k \in 1 .. Len(text) /\ (block = "file" \/ text[k] # BraceClose) => text[k] \in Plain
  BY <1>1, <1>3, <1>4, PlaceValid
<1>6. Peek = IF at > Len(text) THEN "end" ELSE text[at]
  BY <1>1, WholePeek DEF Sure
<1>7. Peek \in Usable
  <2>1. CASE block = "file"
    BY <1>2, <1>3, <1>4, <1>5, <1>6, <2>1, UsableFacts
  <2>2. CASE block # "file"
    BY <1>2, <1>3, <1>4, <1>5, <1>6, <2>2, UsableFacts DEF Places4
  <2> QED
    BY <2>1, <2>2
<1> QED
  BY <1>1, <1>2, <1>7, Accepting DEF Places4

\* in an entry,
LEMMA InEntryAccepts ==
  ASSUME Sure, FoundOK, Valid(text, full), NEW block \in Places4, NEW b, NEW o, NEW i, InEntry(block, b, o, i)
  PROVE  Accepts
<1>1. /\ block \in Lists /\ i \in 1 .. at - 1 /\ text[i] \in Plain /\ (block = "file" => text[i] \notin FileBlocks)
      /\ Going(text, i, at) /\ BlockAt(text, full, block, b, o, i)
  BY DEF InEntry, Places4, Lists
<1>2. PICK kind, slot, rest, key : kind = Kind(block, text[i]) /\ slot = Slot(block, text[i]) /\ rest = Rest(block) /\ key = text[i]
  OBVIOUS
<1>3. Stage(kind, slot, i, rest)
  BY <1>2 DEF InEntry
<1>4. Fitting(kind, slot) /\ IsSeq(rest)
  BY <1>1, <1>2, SlotFits, RestSeq
<1>5. EntryAt(kind, slot, i, rest)
  BY <1>1, <1>4 DEF EntryAt
<1>6. text \in Seq(Tokens) /\ i \in 1 .. Len(text)
  BY <1>1, AtFacts DEF Sure
<1>7. text[i] # BraceClose
  BY <1>1, TokenNames, TokenKinds DEF Structural
<1>8. PICK keep : keep = full
  OBVIOUS
<1>9. ValidEntry(text, keep, i, block)
  BY <1>1, <1>6, <1>7, <1>8, PlaceValid
<1>10. Fine(kind, i)
  BY <1>2, <1>8, <1>9, Zenon DEF Fine, Valid, ValidEntry, Last
<1> QED
  BY <1>3, <1>5, <1>10, StageAccepts

\* and at the braces of a block.
LEMMA BraceAccepts ==
  ASSUME Sure, Valid(text, full), NEW block \in Places4, NEW b, NEW o, NEW i \in 1 .. Len(text),
         Opening(block, b, o, i) \/ Closing(block, b, o, i)
  PROVE  Accepts
<1>1. PICK inner, r, keep : inner = Inner(block, text[i]) /\ r = Rest(inner) /\ keep = full
  OBVIOUS
<1>2. text \in Seq(Tokens) /\ Len(text) \in Nat /\ at \in Nat /\ Whole(text)
  BY AtFacts DEF Sure, Valid
<1>3. BraceClose \in Structural /\ BraceOpen \in Structural /\ "end" # BraceOpen
  BY TokenNames DEF Structural
<1>4. ASSUME NEW t \in Structural, NEW s, IsSeq(s), goals = <<Expect(t)>> \o s, Peek = t
      PROVE  Accepts
  <2>1. Rule = Expect(t).rule /\ Of = Expect(t).of
    BY <1>4, GoalOne
  <2>2. Rule = "expect" /\ Of = t
    BY <2>1, Literals
  <2> QED
    BY <1>2, <1>4, <2>2, UsableFacts, Accepting
<1>5. CASE Opening(block, b, o, i)
  <2>1. /\ inner # "none" /\ goals = <<Expect(BraceOpen)>> \o r /\ i = at - 1
        /\ text[i] \in Plain /\ BlockAt(text, full, block, b, o, i)
    BY <1>1, <1>5, Zenon DEF Opening
  <2>2. text[i] # BraceClose
    BY <1>3, <2>1, TokenKinds
  <2>3. Block(text, i)
    BY <1>1, <1>2, <2>1, <2>2, PlaceValid
  <2>4. Peek = BraceOpen
    <3>1. i + 1 = at
      BY <1>2, <2>1
    <3> QED
      BY <2>3, <3>1 DEF Block, Peek
  <2>5. IsSeq(r)
    BY <1>1, RestSeq
  <2> QED
    BY <1>3, <1>4, <2>1, <2>4, <2>5
<1>6. CASE Closing(block, b, o, i)
  <2>1. /\ inner # "none" /\ goals = Outer(inner) /\ at <= Len(text) /\ text[at] = BraceClose
    BY <1>1, <1>6, Zenon DEF Closing
  <2>2. inner # "file"
    BY <1>1 DEF Inner
  <2>3. \E s : IsSeq(s) /\ goals = <<Expect(BraceClose)>> \o s
    <3>1. IsSeq(BoundaryRest) /\ IsSeq(<<Goal("file")>>)
      BY RestSeq, Tuples
    <3> QED
      BY <2>1, <2>2, <3>1 DEF Outer
  <2>4. Peek = BraceClose
    BY <2>1 DEF Peek, TokenAt
  <2> QED
    BY <1>3, <1>4, <2>3, <2>4
<1> QED
  BY <1>5, <1>6

-----------------------------------------------------------------------------
(***************************************************************************)
(* What is read is what is written.                                        *)
(***************************************************************************)

\* The reader at the begin of a file.
LEMMA WhereBegins ==
  ASSUME NEW file \in Seq(Tokens), NEW keep, Begin(file, keep)
  PROVE  Where /\ FoundOK
<1>1. /\ text = file /\ full = keep /\ at = 1 /\ local = <<>> /\ goals = <<Goal("file")>>
      /\ found = NothingFound /\ patches = <<>>
  BY DEF Begin, Ready
<1>2. PICK s : s = 1
  OBVIOUS
<1>3. Len(file) \in Nat /\ s \in 1 .. Len(file) + 1
  BY <1>2
<1>4. OnTrack(file, s, s, FileBlocks) /\ Keys(file, s, s - 1, FileBlocks) = {}
  BY <1>3, TrackStarts
<1>5. Level(file, s) = 0
  BY <1>2, LevelFacts
<1>6. FileBefore(file, s) = {}
  BY <1>2, <1>4 DEF FileBefore
<1>7. FileAt(file, keep, s)
  BY <1>2, <1>3, <1>4, <1>5, <1>6 DEF FileAt
<1>8. FileFound(file, keep, found, patches, FileBefore(file, s), "none")
  <2>1. \A key : Latest(file, {}, key) = 0
    BY LatestNone
  <2>2. \A x \in FileSlots : Says(file, keep, {}, x) = Absent
    BY <2>1 DEF Says, ValueAt, ExponentsAt, FileSlots
  <2>3. PatchesSaid(file, keep, {}) = <<>>
    BY <2>1, PatchesBegin DEF PatchesSaid
  <2>4. \A x \in FileSlots : found[x] = Absent
    BY <1>1 DEF NothingFound
  <2> QED
    BY <1>1, <1>6, <2>2, <2>3, <2>4 DEF FileFound
<1>9. AtHead("file", 0, 0)
  BY <1>1, <1>2, <1>7, <1>8 DEF AtHead, Rest, BlockAt, FoundIn
<1>10. FoundOK
  BY <1>1 DEF FoundOK, NothingFound
<1>11. 0 \in 0 .. Len(text) /\ "file" \in Places4
  BY <1>1, <1>3 DEF Places4
<1> QED
  BY <1>9, <1>10, <1>11 DEF Where

\* A loop over entries takes a token.
LEMMA HeadTaken ==
  ASSUME Sure, FoundOK, NEW block \in Places4, NEW b \in 0 .. Len(text), NEW o \in 0 .. Len(text), AtHead(block, b, o),
         Read, ~Refuse
  PROVE  \/ Where' /\ FoundOK' /\ UNCHANGED mode
         \/ ReadAsWritten' /\ mode' = "done"
<1>1. Rule = block
  BY HeadGoals DEF AtHead
<1>2. PICK i : i = at
  OBVIOUS
<1>3. CASE block = "file" /\ Peek = "end"
  <2>1. ReadFile
    BY <1>1, <1>3, ReadBy
  <2>2. ReadAsWritten'
    BY <1>3, <2>1, FileEnds
  <2>3. mode' = "done"
    <3>1. "end" \notin Plain /\ "end" \notin {"FoamFile", "dimensions", "internalField", "boundaryField"}
      BY TokenKinds
    <3> QED
      BY <1>3, <2>1, <3>1 DEF ReadFile
  <2> QED
    BY <2>2, <2>3
<1>4. CASE block = "file" /\ Peek # "end"
  <2>1. ReadFile
    BY <1>1, <1>4, ReadBy
  <2>2. /\ FoundOK' /\ UNCHANGED <<text, mode>> /\ i \in 1 .. Len(text)
        /\ InEntry(block, b, o, i)' \/ Opening(block, b, o, i)'
    BY <1>2, <1>4, <2>1, FileTaken
  <2> QED
    BY <2>2 DEF Where
<1>5. CASE block # "file"
  <2>1. /\ block = "header" => ReadHeader
        /\ block = "boundary" => ReadBoundary
        /\ block = "patch" => ReadPatch
    BY <1>1, ReadBy
  <2>2. block \in {"header", "boundary", "patch"}
    BY <1>5 DEF Places4
  <2>3. Accepts
    BY <2>1, <2>2 DEF ReadHeader, ReadBoundary, ReadPatch, Reading
  <2>4. Peek \in Plain \cup {BraceClose}
    BY <1>1, <2>2, <2>3, LoopToken
  <2>5. CASE Peek = BraceClose
    <3>1. /\ FoundOK' /\ UNCHANGED <<text, mode>> /\ o \in 1 .. Len(text)
          /\ \E outer \in Places4 : Closing(outer, 0, b, o)'
      BY <2>1, <2>2, <2>5, LoopEnds
    <3>2. 0 \in 0 .. Len(text)
      BY AtFacts DEF Sure
    <3> QED
      BY <3>1, <3>2 DEF Where
  <2>6. CASE Peek \in Plain
    <3>1. /\ FoundOK' /\ UNCHANGED <<text, mode>> /\ i \in 1 .. Len(text)
          /\ InEntry(block, b, o, i)' \/ Opening(block, b, o, i)'
      BY <1>2, <2>1, <2>2, <2>6, HeaderTaken, PatchTaken, NameTaken
    <3> QED
      BY <3>1 DEF Where
  <2> QED
    BY <2>4, <2>5, <2>6
<1> QED
  BY <1>3, <1>4, <1>5

\* From one place in the grammar the reader comes to the next, or to the end of the file.
LEMMA WhereStep ==
  ASSUME Sure, Where, FoundOK, Read, ~Refuse
  PROVE  \/ Where' /\ FoundOK' /\ UNCHANGED mode
         \/ ReadAsWritten' /\ mode' = "done"
<1>1. PICK block \in Places4, b \in 0 .. Len(text), o \in 0 .. Len(text) :
        \/ AtHead(block, b, o)
        \/ \E i \in 1 .. Len(text) : InEntry(block, b, o, i) \/ Opening(block, b, o, i) \/ Closing(block, b, o, i)
  BY DEF Where
<1>2. CASE AtHead(block, b, o)
  BY <1>2, HeadTaken
<1>3. ASSUME NEW i \in 1 .. Len(text), InEntry(block, b, o, i)
      PROVE  Where' /\ FoundOK' /\ UNCHANGED mode
  <2>1. (InEntry(block, b, o, i)' \/ AtHead(block, b, o)') /\ FoundOK' /\ UNCHANGED <<text, mode>>
    BY <1>3, InEntryStep
  <2> QED
    BY <2>1 DEF Where
<1>4. ASSUME NEW i \in 1 .. Len(text), Opening(block, b, o, i)
      PROVE  Where' /\ FoundOK' /\ UNCHANGED mode
  <2>1. FoundOK' /\ UNCHANGED <<text, mode>> /\ \E inner \in Places4 : AtHead(inner, o, i)'
    BY <1>4, OpeningTaken
  <2>2. i \in 0 .. Len(text)
    OBVIOUS
  <2> QED
    BY <2>1, <2>2 DEF Where
<1>5. ASSUME NEW i \in 1 .. Len(text), Closing(block, b, o, i)
      PROVE  Where' /\ FoundOK' /\ UNCHANGED mode
  <2>1. FoundOK' /\ UNCHANGED <<text, mode>> /\ AtHead(block, b, o)'
    BY <1>5, ClosingTaken
  <2> QED
    BY <2>1 DEF Where
<1> QED
  BY <1>1, <1>2, <1>3, <1>4, <1>5

\* Wherever the reader is in a valid file it accepts the token.
LEMMA WhereAccepts ==
  ASSUME Sure, Where, FoundOK, Valid(text, full)
  PROVE  Accepts
BY HeadAccepts, InEntryAccepts, BraceAccepts DEF Where

\* Every step of the reader keeps the invariant.
LEMMA WrittenStep ==
  ASSUME MaxNesting \in Nat, ReaderOK, WrittenOK, Read
  PROVE  WrittenOK'
<1>1. Sure
  BY DEF Sure, ReaderOK, SkipState
<1>2. mode = "reading"
  BY DEF Read, Refuse, ReadFile, ReadHeader, ReadBoundary, ReadPatch, ReadExpected, ReadOptional, ReadScalar,
         ReadExponent, ReadValue, ReadUniform, ReadList, ReadCount, ReadOpener, ReadNumber, SkipFirstOfExact,
         SkipFirstOfLine, TakeGroup, TakeRest, Reading
<1>3. Where /\ FoundOK
  BY <1>2 DEF WrittenOK
<1>4. CASE Refuse
  <2>1. mode' = "refused" /\ text' = text /\ full' = full /\ ~Accepts
    BY <1>4 DEF Refuse
  <2>2. ~Valid(text, full)
    BY <1>1, <1>3, <2>1, WhereAccepts
  <2> QED
    BY <2>1, <2>2 DEF WrittenOK, ReadAsWritten
<1>5. CASE ~Refuse
  <2>1. \/ Where' /\ FoundOK' /\ UNCHANGED mode
        \/ ReadAsWritten' /\ mode' = "done"
    BY <1>1, <1>3, <1>5, WhereStep
  <2> QED
    BY <1>2, <2>1 DEF WrittenOK, ReadAsWritten
<1> QED
  BY <1>4, <1>5

\* And every other step.
LEMMA WrittenElse ==
  ASSUME WrittenOK, Close \/ UNCHANGED reader
  PROVE  WrittenOK'
<1>1. CASE Close
  BY <1>1 DEF Close, WrittenOK, ReadAsWritten
<1>2. CASE UNCHANGED reader
  <2>1. UNCHANGED <<text, full, mode, at, open, local, goals, found, patches, skip>>
    BY <1>2 DEF reader
  <2>2. mode = "reading" => Where' /\ FoundOK'
    <3>1. Where => Where'
      <4>1. \A block, b, o : AtHead(block, b, o) => AtHead(block, b, o)'
        BY <2>1 DEF AtHead
      <4>2. \A block, b, o, i : Opening(block, b, o, i) => Opening(block, b, o, i)'
        <5> SUFFICES ASSUME NEW block, NEW b, NEW o, NEW i PROVE Opening(block, b, o, i) => Opening(block, b, o, i)'
          OBVIOUS
        <5>1. \A inner : FreshIn(inner, block, b, o, i) => FreshIn(inner, block, b, o, i)'
          BY <2>1 DEF FreshIn
        <5> QED
          BY <2>1, <5>1 DEF Opening
      <4>3. \A block, b, o, i : Closing(block, b, o, i) => Closing(block, b, o, i)'
        <5> SUFFICES ASSUME NEW block, NEW b, NEW o, NEW i PROVE Closing(block, b, o, i) => Closing(block, b, o, i)'
          OBVIOUS
        <5> QED
          BY <2>1 DEF Closing
      <4>4. \A block, b, o, i : InEntry(block, b, o, i) => InEntry(block, b, o, i)'
        <5>1. ASSUME NEW kind, NEW slot, NEW i, NEW rest
              PROVE  Stage(kind, slot, i, rest) => Stage(kind, slot, i, rest)'
          <6>1. \A g : (Local(g) => Local(g)') /\ (InGroup(g) => InGroup(g)')
            BY <2>1 DEF Local, InGroup
          <6>2. Started(kind, slot, i, rest) => Started(kind, slot, i, rest)'
            BY <2>1 DEF Started
          <6>3. Ending(kind, slot, i, rest) => Ending(kind, slot, i, rest)'
            BY <2>1 DEF Ending
          <6>4. Grouped(kind, slot, i, rest) => Grouped(kind, slot, i, rest)'
            BY <2>1, <6>1 DEF Grouped
          <6>5. Bracing(kind, slot, i, rest) => Bracing(kind, slot, i, rest)'
            BY <2>1, <6>1 DEF Bracing
          <6>6. Braced(kind, slot, i, rest) => Braced(kind, slot, i, rest)'
            BY <2>1 DEF Braced
          <6>7. Lining(kind, slot, i, rest) => Lining(kind, slot, i, rest)'
            BY <2>1, <6>1 DEF Lining
          <6>8. Counting(kind, slot, i, rest) => Counting(kind, slot, i, rest)'
            BY <2>1 DEF Counting
          <6>9. UniformNext(kind, slot, i, rest) => UniformNext(kind, slot, i, rest)'
            BY <2>1 DEF UniformNext
          <6>10. Listing(kind, slot, i, rest) => Listing(kind, slot, i, rest)'
            BY <2>1 DEF Listing
          <6>11. Sizing(kind, slot, i, rest) => Sizing(kind, slot, i, rest)'
            BY <2>1 DEF Sizing
          <6>12. Sized(kind, slot, i, rest) => Sized(kind, slot, i, rest)'
            BY <2>1 DEF Sized
          <6>13. Numbering(kind, slot, i, rest) => Numbering(kind, slot, i, rest)'
            BY <2>1 DEF Numbering, Itemised
          <6> QED
            BY <6>2, <6>3, <6>4, <6>5, <6>6, <6>7, <6>8, <6>9, <6>10, <6>11, <6>12, <6>13 DEF Stage
        <5> SUFFICES ASSUME NEW block, NEW b, NEW o, NEW i PROVE InEntry(block, b, o, i) => InEntry(block, b, o, i)'
          OBVIOUS
        <5> QED
          BY <2>1, <5>1 DEF InEntry
      <4> QED
        BY <2>1, <4>1, <4>2, <4>3, <4>4 DEF Where
    <3>2. FoundOK => FoundOK'
      BY <2>1 DEF FoundOK
    <3> QED
      BY <3>1, <3>2 DEF WrittenOK
  <2> QED
    BY <2>1, <2>2 DEF WrittenOK, ReadAsWritten
<1> QED
  BY <1>1, <1>2
-----------------------------------------------------------------------------
(***************************************************************************)
(* The reader in front of the set of fields.                               *)
(***************************************************************************)

\* Every initial state satisfies ReaderOK.
LEMMA LoadingBegins ==
  ASSUME LoadingAssumption, LoadingInit
  PROVE  ReaderOK
<1>1. MaxNesting \in Nat /\ Texts \subseteq Seq(Tokens)
  BY DEF LoadingAssumption
<1>2. <<>> \in Seq(Tokens) /\ FALSE \in BOOLEAN
  OBVIOUS
<1>3. CASE NoFile
  BY <1>1, <1>2, <1>3, ReadyOK DEF NoFile
<1>4. ASSUME NEW file \in Texts, NEW keep \in BOOLEAN, Begin(file, keep) PROVE ReaderOK
  <2>1. file \in Seq(Tokens)
    BY <1>1
  <2> QED
    BY <1>1, <1>4, <2>1, ReadyOK DEF Begin
<1> QED
  BY <1>3, <1>4 DEF LoadingInit

\* Every step of LoadingNext keeps ReaderOK.
LEMMA LoadingStep ==
  ASSUME LoadingAssumption, ReaderOK, [LoadingNext]_<<vars, reader>>
  PROVE  ReaderOK'
<1>1. MaxNesting \in Nat
  BY DEF LoadingAssumption
<1>2. Read \/ Close \/ UNCHANGED reader
  BY DEF LoadingNext, ReadToken, ReceiveRead, ReceiveMade, Dismiss
<1> QED
  BY <1>1, <1>2, ReadStep, CloseOK, OKUnchanged

\* For every file and every limit: a cursor over the tokens of a file skips what the reader of
\* the stream skips, and fails where that does.
THEOREM SkipsAgreeAlways == ASSUME LoadingAssumption PROVE LoadingSpec => []SkipsAgree
<1>1. LoadingInit => ReaderOK
  BY LoadingBegins
<1>2. ReaderOK /\ [LoadingNext]_<<vars, reader>> => ReaderOK'
  BY LoadingStep
<1>3. ReaderOK => SkipsAgree
  BY OKAgrees DEF LoadingAssumption
<1> QED
  BY <1>1, <1>2, <1>3, PTL DEF LoadingSpec

\* For every file and every limit, what the reader has of a file that it reads is what the grammar
\* says of it, and it refuses no file that is one (parse_field_file_reader).
THEOREM ReadAsWrittenAlways == ASSUME LoadingAssumption PROVE LoadingSpec => []ReadAsWritten
<1>1. LoadingInit => ReaderOK /\ WrittenOK
  <2> SUFFICES ASSUME LoadingInit PROVE ReaderOK /\ WrittenOK
    OBVIOUS
  <2>1. ReaderOK
    BY LoadingBegins
  <2>2. CASE NoFile
    <3>1. mode = "none"
      BY <2>2, Zenon DEF NoFile, Ready
    <3> QED
      BY <2>1, <3>1 DEF WrittenOK, ReadAsWritten
  <2>3. ASSUME NEW file \in Texts, NEW keep \in BOOLEAN, Begin(file, keep) PROVE WrittenOK
    <3>1. file \in Seq(Tokens)
      BY DEF LoadingAssumption
    <3>2. mode = "reading"
      BY <2>3 DEF Begin, Ready
    <3>3. Where /\ FoundOK
      BY <2>3, <3>1, WhereBegins
    <3> QED
      BY <3>2, <3>3 DEF WrittenOK, ReadAsWritten
  <2> QED
    BY <2>1, <2>2, <2>3 DEF LoadingInit
<1>2. (ReaderOK /\ WrittenOK) /\ [LoadingNext]_<<vars, reader>> => (ReaderOK /\ WrittenOK)'
  <2> SUFFICES ASSUME ReaderOK, WrittenOK, [LoadingNext]_<<vars, reader>> PROVE ReaderOK' /\ WrittenOK'
    OBVIOUS
  <2>1. ReaderOK'
    BY LoadingStep
  <2>2. Read \/ Close \/ UNCHANGED reader
    BY DEF LoadingNext, ReadToken, ReceiveRead, ReceiveMade, Dismiss
  <2>3. WrittenOK'
    BY <2>2, WrittenStep, WrittenElse DEF LoadingAssumption
  <2> QED
    BY <2>1, <2>3
<1>3. ReaderOK /\ WrittenOK => ReadAsWritten
  BY DEF WrittenOK
<1> QED
  BY <1>1, <1>2, <1>3, PTL DEF LoadingSpec

\* Whatever is read in front of it, the set of fields goes the way of FieldOwnership.
THEOREM LoadingImplementsOwnership == LoadingSpec => Spec
<1>1. LoadingInit => Init
  BY DEF LoadingInit
<1>2. [LoadingNext]_<<vars, reader>> => [Next]_vars
  BY DEF LoadingNext, ReadToken, ReceiveRead, ReceiveMade, Dismiss, Next
<1> QED
  BY <1>1, <1>2, PTL DEF LoadingSpec, Spec

\* What is proved of FieldOwnership holds of it behind the reader, too.
THEOREM LoadedAsOwned == ASSUME NAssumption PROVE LoadingSpec => [](OneOwner /\ PlanWindow) /\ OneShotSpec
BY LoadingImplementsOwnership, SingleOwner, WindowCorrect, ImplementsOneShot, PTL
=============================================================================
