-------------------------- MODULE SafeOutputProofs --------------------------
(***************************************************************************)
(* Proofs about SafeOutput, for any number of processes and directories:   *)
(* what a process was given stays, and a roll-back takes away what its own *)
(* process made and nothing else.                                          *)
(***************************************************************************)
EXTENDS SafeOutput, TLAPS

\* The directories that have their name are one path, and at most one file has its own, below it.
OnePath == /\ \A d \in linked \ {Root} : up[d] \in linked /\ Level(up[d]) = Level(d) - 1
           /\ \A c \in linked, d \in linked : Level(c) = Level(d) => c = d
           /\ \A f \in named : place[f] \in linked /\ Level(place[f]) = Depth
           /\ \A f \in named, g \in named : f = g

\* How far down a process is when it is where it is.
Going == {"open", "search", "descend", "make", "reopen", "enter"}
AtFile == {"classify", "unlink", "create", "check", "chmod", "done"}
Where(p) == /\ pc[p] \in {"open", "search"} => held[p] = Root
            /\ pc[p] \in {"descend", "make", "reopen", "enter", "lookup"} => Level(held[p]) < Depth
            /\ pc[p] \in AtFile => Level(held[p]) = Depth
            /\ pc[p] = "rollback" => kind[p] = "absolute"
            /\ pc[p] = "failed" /\ kind[p] = "absolute" => created[p] = {}

\* What a process has not made yet: no file, and no directory below the one it holds and enters.
NotYet(p) ==
  /\ pc[p] \in Going \cup {"parent", "lookup", "classify", "unlink", "create"} => place[p] = Nowhere
  /\ pc[p] \in Going => \A l \in 1 .. Depth :
       l > Level(held[p]) /\ (pc[p] = "enter" => l # Level(held[p]) + 1) => up[<<p, l>>] = Nowhere

\* What it rolls back is there, and its own: nobody else has removed it or put another in its place.
Owned(p) ==
  /\ \A d \in created[p] : /\ <<p, Level(d) + 1>> \in linked
                           /\ up[<<p, Level(d) + 1>>] = d
                           /\ pc[p] \in Going => Level(d) < Level(held[p])
  /\ pc[p] = "enter" => /\ <<p, Level(held[p]) + 1>> \in linked
                        /\ up[<<p, Level(held[p]) + 1>>] = held[p]

\* The file it has made keeps its name, unless a replacement has taken it.
Given(p) == pc[p] \in {"check", "chmod", "done"} =>
              /\ place[p] = held[p]
              /\ p \in named \/ \E q \in Processes \ {p} : removed[q]

\* Something was made in the directory that its maker does not roll back.
Used(p, d) == \/ \E f \in Makers : place[f] = d
              \/ \E c \in Dirs : c[1] # p /\ up[c] = d

\* A directory that it made is rolled back, or used, or holds one that is.
Accounted(p) ==
  kind[p] = "absolute" /\ pc[p] # "killed" => \A l \in 1 .. Depth : <<p, l>> \in linked =>
    \/ up[<<p, l>>] \in created[p]
    \/ pc[p] = "enter" /\ l = Level(held[p]) + 1
    \/ /\ pc[p] \in {"rollback", "failed"}
       /\ \/ Used(p, <<p, l>>)
          \/ /\ <<p, l + 1>> \in linked
             /\ up[<<p, l + 1>>] = <<p, l>> /\ <<p, l>> \notin created[p]

Proc(p) == /\ Where(p) /\ NotYet(p) /\ Owned(p) /\ Given(p) /\ Accounted(p)

\* A file that was made is missing for a replacement only.
Kept == (\E f \in Makers : place[f] # Nowhere) =>
          \/ named # {}
          \/ \E q \in Processes : removed[q] /\ pc[q] \in {"create", "rollback", "failed", "killed"}

IInv == /\ TypeOK /\ OnePath /\ Kept
        /\ \A p \in Processes : Proc(p)
-----------------------------------------------------------------------------
\* Directories are pairs of a maker and a level.
LEMMA DirFacts ==
  ASSUME OutputAssumption
  PROVE  /\ Root \in Dirs /\ Level(Root) = 0
         /\ Nowhere \notin Dirs
         /\ \A d \in Dirs : Level(d) \in 0 .. Depth /\ d[1] \in Makers /\ d = <<d[1], Level(d)>>
         /\ \A m \in Makers, l \in 0 .. Depth :
              <<m, l>> \in Dirs /\ Level(<<m, l>>) = l /\ <<m, l>>[1] = m
         /\ \A p \in Processes : p # Other /\ p \in Makers /\ \A l \in Int : <<p, l>> # Root
         /\ Other \in Makers /\ Depth \in Nat /\ Depth > 0
BY DEF OutputAssumption, Root, Nowhere, Dirs, Level, Makers

\* A directory has at most one in it, one level below, and that only while it has its name.
LEMMA ChildFacts ==
  ASSUME OutputAssumption, TypeOK, OnePath, NEW d \in Dirs
  PROVE  /\ \A c \in Children(d) : /\ c \in linked /\ c \in Dirs /\ c # Root
                                   /\ up[c] = d /\ d \in linked
                                   /\ Level(c) = Level(d) + 1 /\ Level(c) \in 1 .. Depth
         /\ \A b \in Children(d), c \in Children(d) : b = c
<1>1. \A c \in Children(d) : /\ c \in linked /\ c \in Dirs /\ c # Root
                             /\ up[c] = d /\ d \in linked
                             /\ Level(c) = Level(d) + 1 /\ Level(c) \in 1 .. Depth
  BY DirFacts DEF Children, TypeOK, OnePath
<1> QED  BY <1>1 DEF OnePath

\* A process keeps its part of the invariant when others make and remove what is not its own.
LEMMA Frame ==
  ASSUME OutputAssumption, TypeOK, NEW q \in Processes, Proc(q),
         kind' = kind, pc'[q] = pc[q], held'[q] = held[q], created'[q] = created[q],
         \A r \in Processes : removed[r] => removed'[r],
         \A d \in Dirs : up[d] # Nowhere => up'[d] = up[d],
         \A l \in 1 .. Depth : up'[<<q, l>>] = up[<<q, l>>],
         \A f \in Makers : place[f] # Nowhere => place'[f] = place[f],
         place'[q] = place[q],
         \A l \in 1 .. Depth : <<q, l>> \in linked <=> <<q, l>> \in linked',
         q \in named => q \in named' \/ \E r \in Processes \ {q} : removed'[r]
  PROVE  Proc(q)'
<1>1. Where(q)'  BY DEF Proc, Where
<1>2. NotYet(q)'  BY DEF Proc, NotYet
<1>3. Owned(q)'
  <2>1. held[q] \in Dirs /\ \A d \in created[q] : d \in Dirs /\ Level(d) + 1 \in 1 .. Depth
    BY DirFacts DEF TypeOK
  <2>2. \A d \in created[q] : <<q, Level(d) + 1>> \in linked' /\ up'[<<q, Level(d) + 1>>] = d
    BY <2>1 DEF Proc, Owned
  <2>3. pc[q] = "enter" => Level(held[q]) + 1 \in 1 .. Depth
    BY <2>1, DirFacts DEF Proc, Where
  <2> QED  BY <2>1, <2>2, <2>3 DEF Proc, Owned
<1>4. Given(q)'  BY DEF Proc, Given
<1>5. Accounted(q)'
  <2>1. \A d \in Dirs : Used(q, d) => Used(q, d)'
    BY DirFacts DEF Used
  <2>2. \A l \in 1 .. Depth : <<q, l>> \in Dirs
    BY DirFacts
  <2>3. \A l \in 1 .. Depth : <<q, l + 1>> \in linked => l + 1 \in 1 .. Depth
    <3> TAKE l \in 1 .. Depth
    <3> HAVE <<q, l + 1>> \in linked
    <3>1. <<q, l + 1>> \in Dirs  BY DEF TypeOK
    <3> QED  BY <3>1, DirFacts DEF Dirs
  <2> SUFFICES ASSUME kind[q] = "absolute", pc[q] # "killed", NEW l \in 1 .. Depth, <<q, l>> \in linked
               PROVE  \/ up'[<<q, l>>] \in created[q]
                      \/ pc[q] = "enter" /\ l = Level(held[q]) + 1
                      \/ /\ pc[q] \in {"rollback", "failed"}
                         /\ \/ Used(q, <<q, l>>)'
                            \/ /\ <<q, l + 1>> \in linked'
                               /\ up'[<<q, l + 1>>] = <<q, l>> /\ <<q, l>> \notin created[q]
    BY DEF Accounted
  <2> QED  BY <2>1, <2>2, <2>3 DEF Proc, Accounted
<1> QED  BY <1>1, <1>2, <1>3, <1>4, <1>5 DEF Proc

\* A process that makes and removes nothing touches its own part only.
LEMMA Quiet ==
  ASSUME OutputAssumption, IInv, NEW p \in Processes, Proc(p)', TypeOK',
         UNCHANGED <<kind, removed, fileSystem>>,
         \A q \in Processes \ {p} : pc'[q] = pc[q] /\ held'[q] = held[q] /\ created'[q] = created[q],
         pc[p] \in {"create", "rollback"} => pc'[p] \in {"create", "rollback", "failed", "killed"},
         pc[p] \notin {"failed", "killed"}
  PROVE  IInv'
<1>1. OnePath'  BY DEF IInv, OnePath, fileSystem
<1>2. Kept'  BY DEF IInv, Kept, fileSystem
<1>3. ASSUME NEW q \in Processes \ {p}
      PROVE  Proc(q)'
  BY <1>3, Frame DEF IInv, fileSystem
<1> QED  BY <1>1, <1>2, <1>3 DEF IInv

\* The same of a process that makes or removes something.
LEMMA Loud ==
  ASSUME OutputAssumption, IInv, NEW p \in Processes, TypeOK', OnePath', Kept', Proc(p)',
         kind' = kind,
         \A q \in Processes \ {p} : pc'[q] = pc[q] /\ held'[q] = held[q] /\ created'[q] = created[q],
         \A r \in Processes : removed[r] => removed'[r],
         \A d \in Dirs : up[d] # Nowhere => up'[d] = up[d],
         \A d \in Dirs : d[1] # p => up'[d] = up[d] /\ (d \in linked <=> d \in linked'),
         \A f \in Makers : place[f] # Nowhere => place'[f] = place[f],
         \A f \in Makers \ {p} : place'[f] = place[f],
         \A f \in named : f \in named' \/ removed'[p]
  PROVE  IInv'
<1>1. ASSUME NEW q \in Processes \ {p}
      PROVE  Proc(q)'
  <2>1. \A l \in 1 .. Depth : <<q, l>> \in Dirs /\ <<q, l>>[1] = q
    BY DirFacts
  <2> QED  BY <1>1, <2>1, Frame, DirFacts DEF IInv
<1> QED  BY <1>1 DEF IInv

LEMMA Initially ==
  ASSUME OutputAssumption, Init
  PROVE  IInv
<1>1. PICK n \in 0 .. Depth : linked = {Other} \X (0 .. n)
  BY DEF Init
<1>2. \A d \in linked : d \in Dirs /\ d = <<Other, Level(d)>> /\ Level(d) \in 0 .. n
  BY <1>1, DirFacts DEF Level, Dirs
<1>3. Root \in linked
  BY <1>1 DEF Root
<1>4. \A f \in named : f = Other /\ n = Depth /\ <<Other, Depth>> \in linked
  <2> SUFFICES ASSUME NEW f \in named
               PROVE  f = Other /\ n = Depth /\ <<Other, Depth>> \in linked
    OBVIOUS
  <2>1. f = Other /\ At(Depth) # {}
    BY DEF Init
  <2>2. PICK d \in linked : Level(d) = Depth
    BY <2>1 DEF At
  <2> QED  BY <2>1, <2>2, <1>1, <1>2, DirFacts
<1>5. TypeOK
  <2>1. up \in [Dirs -> Dirs \cup {Nowhere}]
    <3>1. \A d \in linked \ {Root} : <<Other, Level(d) - 1>> \in Dirs
      BY <1>2, DirFacts DEF Root
    <3> QED  BY <3>1 DEF Init
  <2>2. named \subseteq Makers /\ place \in [Makers -> Dirs \cup {Nowhere}]
    BY <1>4, DirFacts DEF Init
  <2>3. pc \in [Processes -> {"open", "descend"}]
    BY DEF Init
  <2> QED  BY <1>2, <1>3, <2>1, <2>2, <2>3, DirFacts DEF Init, TypeOK
<1>6. OnePath
  <2>1. ASSUME NEW d \in linked \ {Root}
        PROVE  up[d] \in linked /\ Level(up[d]) = Level(d) - 1
    <3>1. d = <<Other, Level(d)>> /\ Level(d) \in 1 .. n
      BY <1>2, <2>1, DirFacts DEF Root
    <3>2. up[d] = <<Other, Level(d) - 1>>
      BY <1>2, <2>1 DEF Init
    <3> QED  BY <3>1, <3>2, <1>1, DirFacts DEF Level
  <2>2. \A f \in named : place[f] = <<Other, Depth>>
    BY <1>4, DirFacts DEF Init
  <2> QED  BY <1>2, <1>4, <2>1, <2>2, DirFacts DEF OnePath
<1>7. Kept
  BY DirFacts DEF Init, Kept
<1>8. ASSUME NEW p \in Processes
      PROVE  Proc(p)
  <2>1. \A l \in 1 .. Depth : <<p, l>> \in Dirs /\ <<p, l>> \notin linked /\ <<p, l>> # Root
    BY <1>2, DirFacts DEF Root
  <2>2. \A l \in 1 .. Depth : up[<<p, l>>] = Nowhere
    BY <2>1 DEF Init
  <2>3. place[p] = Nowhere
    BY <1>4, DirFacts DEF Init
  <2>4. pc[p] \in {"open", "descend"} /\ held[p] = Root /\ created[p] = {}
    BY DEF Init
  <2> QED  BY <2>1, <2>2, <2>3, <2>4, DirFacts
           DEF Proc, Where, NotYet, Owned, Given, Accounted, AtFile
<1> QED  BY <1>5, <1>6, <1>7, <1>8 DEF IInv
-----------------------------------------------------------------------------
\* What the parts of the invariant speak of.
LEMMA ProcTypes ==
  ASSUME OutputAssumption, TypeOK, NEW p \in Processes
  PROVE  /\ held[p] \in Dirs /\ Level(held[p]) \in 0 .. Depth
         /\ \A d \in created[p] : d \in Dirs /\ Level(d) \in 0 .. Depth - 1
         /\ \A l \in 1 .. Depth : <<p, l>> \in Dirs /\ <<p, l>> # Root /\ Level(<<p, l>>) = l
BY DirFacts DEF TypeOK

\* Going down into a directory, which is noted when it was made.
LEMMA Entering ==
  ASSUME OutputAssumption, IInv, NEW p \in Processes, NEW d \in linked, Entered(p, d),
         pc[p] \in Going, Level(held[p]) <= Level(d),
         UNCHANGED <<kind, sought, captured, removed, fileSystem>>,
         created' = IF pc[p] = "enter" THEN [created EXCEPT ![p] = @ \cup {held[p]}] ELSE created,
         pc[p] = "enter" => Level(held[p]) < Level(d)
  PROVE  IInv'
<1>1. d \in Dirs /\ TypeOK /\ OnePath /\ Proc(p)
  BY DEF IInv, TypeOK
<1>2. Level(d) \in 0 .. Depth
  BY <1>1, DirFacts
<1>3. /\ held' = [held EXCEPT ![p] = d]
      /\ pc' = [pc EXCEPT ![p] = IF Level(d) < Depth THEN "descend"
                                 ELSE IF kind[p] = "replace" THEN "parent" ELSE "create"]
  BY DEF Entered, Holds, Goes, Missing
<1>4. /\ held'[p] = d
      /\ pc'[p] \in {"descend", "parent", "create"}
      /\ pc'[p] = "descend" => Level(d) < Depth
      /\ pc'[p] = "create" => Level(d) = Depth
      /\ created'[p] = IF pc[p] = "enter" THEN created[p] \cup {held[p]} ELSE created[p]
  BY <1>1, <1>2, <1>3 DEF TypeOK
<1>5. pc[p] = "enter" => Level(held[p]) < Depth
  BY <1>1 DEF Proc, Where
<1>6. TypeOK'
  <2>1. pc' \in [Processes -> {"open", "search", "descend", "make", "enter", "reopen", "parent",
                               "lookup", "classify", "unlink", "create", "check", "chmod",
                               "rollback"} \cup Ended]
    BY <1>1, <1>3 DEF TypeOK
  <2>2. created' \in [Processes -> SUBSET {c \in Dirs : Level(c) < Depth}]
    BY <1>1, <1>5, ProcTypes DEF TypeOK
  <2> QED  BY <1>1, <1>3, <2>1, <2>2 DEF TypeOK, fileSystem
<1>7. Where(p)'
  BY <1>4 DEF Where, AtFile
<1>8. NotYet(p)'
  <2>1. place'[p] = Nowhere
    BY <1>1 DEF Proc, NotYet, fileSystem
  <2>2. ASSUME NEW l \in 1 .. Depth, l > Level(d)
        PROVE  up[<<p, l>>] = Nowhere
    BY <1>1, <1>2, <2>2, ProcTypes DEF Proc, NotYet
  <2> QED  BY <1>4, <2>1, <2>2 DEF NotYet, Going, fileSystem
<1>9. Owned(p)'
  <2>1. ASSUME NEW c \in created'[p]
        PROVE  <<p, Level(c) + 1>> \in linked /\ up[<<p, Level(c) + 1>>] = c /\ Level(c) < Level(d)
    BY <1>1, <1>2, <1>4, <2>1, ProcTypes DEF Proc, Owned
  <2> QED  BY <1>4, <2>1 DEF Owned, fileSystem
<1>10. Given(p)'
  BY <1>4 DEF Given
<1>11. Accounted(p)'
  <2> SUFFICES ASSUME kind[p] = "absolute", NEW l \in 1 .. Depth, <<p, l>> \in linked
               PROVE  up[<<p, l>>] \in created'[p]
    BY DEF Accounted, fileSystem
  <2>1. up[<<p, l>>] \in created[p] \/ (pc[p] = "enter" /\ l = Level(held[p]) + 1)
    BY <1>1 DEF Proc, Accounted, Going
  <2> QED  BY <1>1, <1>4, <2>1 DEF Proc, Owned
<1>12. Proc(p)'
  BY <1>7, <1>8, <1>9, <1>10, <1>11 DEF Proc
<1>13. \A q \in Processes \ {p} : pc'[q] = pc[q] /\ held'[q] = held[q] /\ created'[q] = created[q]
  BY <1>1, <1>3 DEF TypeOK
<1> QED  BY <1>6, <1>12, <1>13, Quiet DEF Going

\* Giving up, or being killed, without making or removing anything.
LEMMA Stopping ==
  ASSUME OutputAssumption, IInv, NEW p \in Processes, Fails(p) \/ Goes(p, "killed"),
         pc[p] \notin {"enter", "rollback"} \cup Ended \/ (Goes(p, "killed") /\ pc[p] \notin Ended),
         UNCHANGED <<kind, held, sought, created, captured, removed, fileSystem>>
  PROVE  IInv'
<1>1. TypeOK /\ Proc(p)
  BY DEF IInv
<1>2. PICK to \in {"rollback", "failed", "killed"} :
        /\ pc' = [pc EXCEPT ![p] = to]
        /\ to = "rollback" => kind[p] = "absolute"
        /\ to = "failed" /\ kind[p] = "absolute" => created[p] = {}
        /\ to # "killed" => pc[p] \notin {"enter", "rollback"} \cup Ended
  BY DEF Fails, Goes, Ended
<1>3. pc'[p] = to
  BY <1>1, <1>2 DEF TypeOK
<1>4. TypeOK'
  BY <1>1, <1>2 DEF TypeOK, fileSystem, Ended
<1>5. Proc(p)'
  <2>1. Where(p)' /\ NotYet(p)' /\ Given(p)'
    BY <1>2, <1>3 DEF Where, AtFile, NotYet, Going, Given
  <2>2. Owned(p)'
    BY <1>1, <1>3 DEF Proc, Owned, Going, fileSystem
  <2>3. Accounted(p)'
    <3> SUFFICES ASSUME kind[p] = "absolute", to # "killed", NEW l \in 1 .. Depth, <<p, l>> \in linked
                 PROVE  up[<<p, l>>] \in created[p]
      BY <1>3 DEF Accounted, fileSystem
    <3> QED  BY <1>1, <1>2 DEF Proc, Accounted, Ended
  <2> QED  BY <2>1, <2>2, <2>3 DEF Proc
<1>6. \A q \in Processes \ {p} : pc'[q] = pc[q] /\ held'[q] = held[q] /\ created'[q] = created[q]
  BY <1>1, <1>2 DEF TypeOK
<1> QED  BY <1>3, <1>4, <1>5, <1>6, Quiet DEF Ended
\* Going on to the next call, without making or removing anything.
LEMMA Moving ==
  ASSUME OutputAssumption, IInv, NEW p \in Processes, NEW to, NEW d \in Dirs,
         pc' = [pc EXCEPT ![p] = to], held' = [held EXCEPT ![p] = d],
         sought' \in [Processes -> 0 .. Depth], captured' \in [Processes -> BOOLEAN],
         UNCHANGED <<kind, created, removed, fileSystem>>,
         pc[p] \notin {"enter", "create", "rollback"} \cup Ended,
         to \in {"search", "make", "reopen", "lookup", "classify", "unlink", "create", "chmod", "done"},
         to = "search" => d = Root,
         to \in {"make", "reopen", "lookup"} => Level(d) < Depth,
         to \in AtFile => Level(d) = Depth,
         to \in Going => pc[p] \in Going /\ d = held[p],
         to \in {"chmod", "done"} => pc[p] \in {"check", "chmod"} /\ d = held[p],
         to \in {"lookup", "classify", "unlink", "create"} => pc[p] \in {"parent", "lookup", "classify"}
  PROVE  IInv'
<1>1. TypeOK /\ Proc(p)
  BY DEF IInv
<1>2. pc'[p] = to /\ held'[p] = d
  BY <1>1 DEF TypeOK
<1>3. TypeOK'
  BY <1>1 DEF TypeOK, Ended, fileSystem
<1>4. Where(p)'
  BY <1>2 DEF Where, AtFile
<1>5. NotYet(p)'
  BY <1>1, <1>2 DEF Proc, NotYet, Going, fileSystem
<1>6. Owned(p)'
  BY <1>1, <1>2 DEF Proc, Owned, Going, fileSystem
<1>7. Given(p)'
  <2>1. named' = named /\ place' = place /\ removed' = removed
    BY DEF fileSystem
  <2>2. to \in {"chmod", "done"} => d = held[p] /\ pc[p] \in {"check", "chmod", "done"}
    OBVIOUS
  <2>3. to # "check"
    OBVIOUS
  <2> QED  BY <1>1, <1>2, <2>1, <2>2, <2>3 DEF Proc, Given
<1>8. Accounted(p)'
  <2> SUFFICES ASSUME kind[p] = "absolute", NEW l \in 1 .. Depth, <<p, l>> \in linked
               PROVE  up[<<p, l>>] \in created[p]
    BY DEF Accounted, fileSystem
  <2> QED  BY <1>1 DEF Proc, Accounted, Ended
<1>9. Proc(p)'
  BY <1>4, <1>5, <1>6, <1>7, <1>8 DEF Proc
<1>10. \A q \in Processes \ {p} : pc'[q] = pc[q] /\ held'[q] = held[q] /\ created'[q] = created[q]
  BY <1>1 DEF TypeOK
<1> QED  BY <1>3, <1>9, <1>10, Quiet DEF Ended
-----------------------------------------------------------------------------
\* The calls that look for a directory.
LEMMA LookingKeeps ==
  ASSUME OutputAssumption, IInv, NEW p \in Processes,
         OpenWhole(p) \/ Search(p) \/ Descend(p) \/ Reopen(p) \/ Enter(p)
  PROVE  IInv'
<1>1. TypeOK /\ OnePath /\ Proc(p)
  BY DEF IInv
<1>2. held[p] \in Dirs /\ Level(held[p]) \in 0 .. Depth /\ held = [held EXCEPT ![p] = held[p]]
  BY <1>1, ProcTypes DEF TypeOK
<1>3. \A c \in Children(held[p]) : c \in linked /\ Level(held[p]) < Level(c)
  BY <1>1, <1>2, ChildFacts
<1>4. pc[p] \in {"open", "search"} => held[p] = Root
  BY <1>1 DEF Proc, Where
<1>5. CASE OpenWhole(p)
  <2>1. CASE At(Depth) = {}
    BY <1>1, <1>2, <1>4, <1>5, <2>1, Moving DEF OpenWhole, Goes, Going, AtFile, Ended, TypeOK
  <2>2. CASE At(Depth) # {}
    BY <1>1, <1>2, <1>4, <1>5, <2>2, Entering, DirFacts DEF OpenWhole, At, Going, TypeOK
  <2> QED  BY <2>1, <2>2
<1>6. CASE Search(p)
  <2>1. CASE At(sought[p]) = {}
    <3>1. sought[p] # 0
      BY <1>1, <2>1, DirFacts DEF TypeOK, At
    <3>2. sought' \in [Processes -> 0 .. Depth]
      BY <1>1, <1>6, <2>1, <3>1, DirFacts DEF Search, TypeOK
    <3>3. pc' = [pc EXCEPT ![p] = "search"]
      BY <1>1, <1>6, <2>1 DEF Search, TypeOK
    <3> QED  BY <1>1, <1>2, <1>4, <1>6, <2>1, <3>2, <3>3, Moving
             DEF Search, Going, AtFile, Ended, TypeOK
  <2>2. CASE At(sought[p]) # {}
    <3>1. PICK d \in At(sought[p]) : Entered(p, d)
      BY <1>6, <2>2 DEF Search
    <3>2. d \in linked /\ Level(held[p]) <= Level(d)
      BY <1>1, <1>2, <1>4, <1>6, <3>1, DirFacts DEF Search, At, TypeOK
    <3> QED  BY <1>1, <1>6, <2>2, <3>1, <3>2, Entering DEF Search, Going
  <2> QED  BY <2>1, <2>2
<1>7. CASE Descend(p)
  <2>1. CASE Children(held[p]) = {}
    <3>1. Level(held[p]) < Depth
      BY <1>1, <1>7 DEF Descend, Proc, Where
    <3> QED  BY <1>1, <1>2, <1>7, <2>1, <3>1, Moving
             DEF Descend, Goes, Going, AtFile, Ended, TypeOK
  <2>2. CASE Children(held[p]) # {}
    <3>1. PICK d \in Children(held[p]) : Entered(p, d)
      BY <1>7, <2>2 DEF Descend
    <3> QED  BY <1>2, <1>3, <1>7, <3>1, DirFacts, <1>1, Entering DEF Descend, Going, TypeOK
  <2> QED  BY <2>1, <2>2
<1>8. CASE Reopen(p)
  <2>1. PICK d \in Children(held[p]) : Entered(p, d)
    BY <1>8 DEF Reopen
  <2>2. d \in linked /\ Level(held[p]) <= Level(d)
    BY <1>1, <1>2, <2>1, ChildFacts
  <2> QED  BY <1>8, <2>1, <2>2, Entering DEF Reopen, Going
<1>9. CASE Enter(p)
  <2>1. PICK d \in Children(held[p]) : Entered(p, d)
    BY <1>9 DEF Enter
  <2>2. d \in linked /\ Level(held[p]) <= Level(d)
    BY <1>1, <1>2, <2>1, ChildFacts
  <2> QED  BY <1>3, <1>9, <2>1, <2>2, Entering DEF Enter, Going
<1> QED  BY <1>5, <1>6, <1>7, <1>8, <1>9
\* The calls that make and remove nothing, and the failures.
LEMMA PassingKeeps ==
  ASSUME OutputAssumption, IInv, NEW p \in Processes,
         \/ MakeDirLate(p) \/ OpenParent(p) \/ LookUp(p) \/ Classify(p) \/ Check(p) \/ Chmod(p)
         \/ MakeDirFails(p) \/ OpenFails(p) \/ CreateFails(p) \/ FileFails(p) \/ Kill(p)
  PROVE  IInv'
<1>1. TypeOK /\ OnePath /\ Proc(p)
  BY DEF IInv
<1>2. held[p] \in Dirs /\ held = [held EXCEPT ![p] = held[p]]
  BY <1>1, ProcTypes DEF TypeOK
<1>3. captured \in [Processes -> BOOLEAN] /\ sought \in [Processes -> 0 .. Depth]
  BY <1>1 DEF TypeOK
<1>4. CASE MakeDirLate(p)
  <2>1. created' = created
    BY <1>1, <1>4 DEF MakeDirLate, NotedExisting, TypeOK
  <2>2. Level(held[p]) < Depth
    BY <1>1, <1>4 DEF MakeDirLate, Proc, Where
  <2> QED  BY <1>2, <1>3, <1>4, <2>1, <2>2, Moving DEF MakeDirLate, Goes, Going, AtFile, Ended
<1>5. CASE OpenParent(p)
  BY <1>3, <1>5, DirFacts, Moving DEF OpenParent, Goes, Holds, Going, AtFile, Ended
<1>6. CASE LookUp(p)
  <2>1. PICK d \in Children(held[p]) :
          Holds(p, d) /\ Goes(p, IF Level(d) < Depth THEN "lookup" ELSE "classify")
    BY <1>6 DEF LookUp, Missing
  <2>2. d \in Dirs /\ Level(d) \in 1 .. Depth
    BY <1>1, <1>2, <2>1, ChildFacts
  <2>3. /\ held' = [held EXCEPT ![p] = d]
        /\ UNCHANGED <<kind, sought, created, captured, removed, fileSystem>> /\ pc[p] = "lookup"
    BY <1>6, <2>1 DEF LookUp, Holds
  <2>4. CASE Level(d) < Depth
    BY <1>3, <2>1, <2>2, <2>3, <2>4, DirFacts, Moving DEF Goes, Going, AtFile, Ended
  <2>5. CASE Level(d) = Depth
    BY <1>3, <2>1, <2>2, <2>3, <2>5, DirFacts, Moving DEF Goes, Going, AtFile, Ended
  <2> QED  BY <2>2, <2>4, <2>5, DirFacts
<1>7. CASE Classify(p)
  <2>1. captured' \in [Processes -> BOOLEAN]
    BY <1>3, <1>7 DEF Classify
  <2>2. Level(held[p]) = Depth
    BY <1>1, <1>7 DEF Classify, Proc, Where, AtFile
  <2> QED  BY <1>2, <1>3, <1>7, <2>1, <2>2, DirFacts, Moving DEF Classify, Goes, Going, AtFile, Ended
<1>8. CASE Check(p) \/ Chmod(p)
  <2>1. Level(held[p]) = Depth
    BY <1>1, <1>8 DEF Check, Chmod, Proc, Where, AtFile
  <2> QED  BY <1>2, <1>3, <1>8, <2>1, DirFacts, Moving DEF Check, Chmod, Goes, Going, AtFile, Ended
<1>9. CASE MakeDirFails(p) \/ OpenFails(p) \/ CreateFails(p) \/ FileFails(p)
  BY <1>9, Stopping DEF MakeDirFails, OpenFails, CreateFails, FileFails, FailedCreation, Ended, fileSystem
<1>10. CASE Kill(p)
  BY <1>10, Stopping DEF Kill
<1> QED  BY <1>4, <1>5, <1>6, <1>7, <1>8, <1>9, <1>10
-----------------------------------------------------------------------------
\* A directory is made: the next of the path, by a process that has made none there before.
LEMMA MakeDirKeeps ==
  ASSUME OutputAssumption, IInv, NEW p \in Processes, MakeDir(p)
  PROVE  IInv'
<1> DEFINE h == held[p]
           d == <<p, Level(h) + 1>>
<1>1. TypeOK /\ OnePath /\ Kept /\ Proc(p)
  BY DEF IInv
<1>2. h \in Dirs /\ h \in linked /\ Level(h) \in 0 .. Depth - 1 /\ Children(h) = {}
  BY <1>1, ProcTypes DEF MakeDir, Proc, Where
<1>3. /\ d \in Dirs /\ d # Root /\ Level(d) = Level(h) + 1 /\ d[1] = p
      /\ up[d] = Nowhere
  BY <1>1, <1>2, DirFacts DEF MakeDir, Proc, NotYet, Going
<1>4. d \notin linked
  BY <1>1, <1>3, DirFacts DEF OnePath, TypeOK
<1>5. /\ pc' = [pc EXCEPT ![p] = "enter"] /\ linked' = linked \cup {d}
      /\ up' = [up EXCEPT ![d] = h]
      /\ UNCHANGED <<kind, held, sought, created, captured, removed, named, place>>
  BY DEF MakeDir, Goes
<1>6. pc'[p] = "enter" /\ up'[d] = h /\ \A c \in Dirs \ {d} : up'[c] = up[c]
  BY <1>1, <1>3, <1>5 DEF TypeOK
<1>7. TypeOK'
  BY <1>1, <1>2, <1>3, <1>5 DEF TypeOK
<1>8. OnePath'
  <2>1. \A c \in linked : Level(c) # Level(d)
    <3> SUFFICES ASSUME NEW c \in linked, Level(c) = Level(d)
                 PROVE  FALSE
      OBVIOUS
    <3>1. c # Root /\ up[c] \in linked /\ Level(up[c]) = Level(h)
      BY <1>1, <1>2, <1>3, DirFacts DEF OnePath
    <3>2. up[c] = h
      BY <1>1, <1>2, <3>1 DEF OnePath
    <3> QED  BY <1>2, <3>1, <3>2 DEF Children
  <2>2. \A c \in linked' \ {Root} : up'[c] \in linked' /\ Level(up'[c]) = Level(c) - 1
    <3> TAKE c \in linked' \ {Root}
    <3>1. CASE c = d
      BY <1>2, <1>3, <1>5, <1>6, <3>1, DirFacts
    <3>2. CASE c # d
      <4>1. c \in linked \ {Root} /\ c \in Dirs \ {d}
        BY <1>1, <1>5, <3>2 DEF TypeOK
      <4>2. up'[c] = up[c] /\ up[c] \in linked /\ Level(up[c]) = Level(c) - 1
        BY <1>1, <1>6, <4>1 DEF OnePath
      <4> QED  BY <1>5, <4>2
    <3> QED  BY <3>1, <3>2
  <2>3. \A b \in linked', c \in linked' : Level(b) = Level(c) => b = c
    BY <1>1, <1>5, <2>1 DEF OnePath
  <2> QED  BY <1>1, <1>5, <2>2, <2>3 DEF OnePath
<1>9. Kept'
  BY <1>1, <1>5, <1>6 DEF Kept, TypeOK, MakeDir
<1>10. Proc(p)'
  <2>1. Where(p)' /\ Given(p)'
    BY <1>2, <1>5, <1>6 DEF Where, Given, AtFile
  <2>2. NotYet(p)'
    <3>1. place[p] = Nowhere
      BY <1>1 DEF MakeDir, Proc, NotYet, Going
    <3>2. ASSUME NEW l \in 1 .. Depth, l > Level(h) + 1
          PROVE  up'[<<p, l>>] = Nowhere
      <4>1. <<p, l>> \in Dirs \ {d} /\ up[<<p, l>>] = Nowhere
        BY <1>1, <1>2, <1>3, <3>2, DirFacts DEF MakeDir, Proc, NotYet, Going
      <4> QED  BY <1>6, <4>1
    <3> QED  BY <1>2, <1>5, <1>6, <3>1, <3>2 DEF NotYet
  <2>3. Owned(p)'
    <3>1. ASSUME NEW c \in created[p]
          PROVE  /\ <<p, Level(c) + 1>> \in linked' /\ up'[<<p, Level(c) + 1>>] = c
                 /\ Level(c) < Level(h)
      <4>1. /\ <<p, Level(c) + 1>> \in linked /\ up[<<p, Level(c) + 1>>] = c /\ Level(c) < Level(h)
        BY <1>1, <3>1 DEF MakeDir, Proc, Owned, Going
      <4>2. <<p, Level(c) + 1>> \in Dirs \ {d}
        BY <1>1, <1>4, <4>1 DEF TypeOK
      <4> QED  BY <1>5, <1>6, <4>1, <4>2
    <3> QED  BY <1>5, <1>6, <3>1 DEF Owned
  <2>4. Accounted(p)'
    <3> SUFFICES ASSUME kind[p] = "absolute", NEW l \in 1 .. Depth, <<p, l>> \in linked'
                 PROVE  up'[<<p, l>>] \in created[p] \/ l = Level(h) + 1
      BY <1>5, <1>6 DEF Accounted
    <3>1. CASE <<p, l>> = d
      BY <1>3, <3>1, DirFacts
    <3>2. CASE <<p, l>> # d
      <4>1. <<p, l>> \in linked /\ <<p, l>> \in Dirs
        BY <1>1, <1>5, <3>2 DEF TypeOK
      <4>2. up[<<p, l>>] \in created[p]
        BY <1>1, <4>1 DEF MakeDir, Proc, Accounted
      <4> QED  BY <1>6, <3>2, <4>1, <4>2
    <3> QED  BY <3>1, <3>2
  <2> QED  BY <2>1, <2>2, <2>3, <2>4 DEF Proc
<1>11. \A c \in Dirs : up[c] # Nowhere => up'[c] = up[c]
  BY <1>3, <1>6
<1>12. \A c \in Dirs : c[1] # p => up'[c] = up[c] /\ (c \in linked <=> c \in linked')
  BY <1>3, <1>5, <1>6
<1>13. \A q \in Processes \ {p} : pc'[q] = pc[q] /\ held'[q] = held[q] /\ created'[q] = created[q]
  BY <1>1, <1>5 DEF TypeOK
<1>14. /\ kind' = kind
       /\ \A r \in Processes : removed[r] => removed'[r]
       /\ \A f \in Makers : place[f] # Nowhere => place'[f] = place[f]
       /\ \A f \in Makers \ {p} : place'[f] = place[f]
       /\ \A f \in named : f \in named' \/ removed'[p]
  BY <1>5
<1> HIDE DEF h, d
<1> QED  BY <1>7, <1>8, <1>9, <1>10, <1>11, <1>12, <1>13, <1>14, Loud
-----------------------------------------------------------------------------
\* Removing by its name, below a directory in which p has made one, removes nothing but that.
LEMMA OnlyOwn ==
  ASSUME OutputAssumption, TypeOK, OnePath, NEW p \in Processes, NEW d \in Dirs, Level(d) < Depth,
         <<p, Level(d) + 1>> \in linked, up[<<p, Level(d) + 1>>] = d
  PROVE  Children(d) = {<<p, Level(d) + 1>>}
<1>1. <<p, Level(d) + 1>> \in Children(d)
  BY DirFacts DEF Children
<1> QED  BY <1>1, ChildFacts

\* Removing an empty directory leaves a path.
LEMMA PathLeft ==
  ASSUME OutputAssumption, TypeOK, OnePath, NEW d \in Dirs, NEW R \in SUBSET Children(d),
         \A c \in R : Empty(c), linked' = linked \ R, UNCHANGED <<up, named, place>>
  PROVE  OnePath' /\ Root \in linked' /\ linked' \subseteq Dirs
<1>1. Root \notin R
  BY DEF Children
<1>2. ASSUME NEW c \in linked \ {Root}
      PROVE  up[c] \notin R
  BY <1>2 DEF Empty, Children
<1>3. ASSUME NEW f \in named
      PROVE  place[f] \notin R
  BY <1>3 DEF Empty, Files
<1> QED  BY <1>1, <1>2, <1>3 DEF OnePath, TypeOK

\* What was not empty holds a file, a directory of another process, or the next of its own.
LEMMA NotEmpty ==
  ASSUME OutputAssumption, TypeOK, OnePath, NEW p \in Processes, NEW l \in 1 .. Depth,
         <<p, l>> \in linked, ~Empty(<<p, l>>)
  PROVE  \/ Used(p, <<p, l>>)
         \/ <<p, l + 1>> \in linked /\ up[<<p, l + 1>>] = <<p, l>> /\ l + 1 \in 1 .. Depth
<1>1. <<p, l>> \in Dirs /\ Level(<<p, l>>) = l
  BY DirFacts
<1>2. CASE Files(<<p, l>>) # {}
  BY <1>2 DEF Files, Used, TypeOK
<1>3. CASE Children(<<p, l>>) # {}
  <2>1. PICK c \in Children(<<p, l>>) : TRUE
    BY <1>3
  <2>2. /\ c \in linked /\ c \in Dirs /\ up[c] = <<p, l>> /\ Level(c) = l + 1
        /\ Level(c) \in 1 .. Depth
    BY <1>1, <2>1, ChildFacts
  <2>3. CASE c[1] # p
    BY <2>2, <2>3 DEF Used
  <2>4. CASE c[1] = p
    BY <2>2, <2>4, DirFacts
  <2> QED  BY <2>3, <2>4
<1> QED  BY <1>2, <1>3 DEF Empty

LEMMA EnterFailsKeeps ==
  ASSUME OutputAssumption, IInv, NEW p \in Processes, EnterFails(p)
  PROVE  IInv'
<1> DEFINE h == held[p]
           R == linked \ linked'
<1>1. TypeOK /\ OnePath /\ Kept /\ Proc(p) /\ pc[p] = "enter"
  BY DEF IInv, EnterFails
<1>2. h \in Dirs /\ Level(h) \in 0 .. Depth - 1
  BY <1>1, ProcTypes DEF Proc, Where
<1>3. /\ <<p, Level(h) + 1>> \in linked /\ up[<<p, Level(h) + 1>>] = h
      /\ Children(h) = {<<p, Level(h) + 1>>}
  BY <1>1, <1>2, OnlyOwn DEF Proc, Owned
<1>4. UNCHANGED <<kind, held, sought, created, captured, removed, up, named, place>>
  BY DEF EnterFails
<1>5. PICK to \in {"rollback", "failed"} :
        /\ pc' = [pc EXCEPT ![p] = to]
        /\ to = "rollback" => kind[p] = "absolute"
        /\ to = "failed" /\ kind[p] = "absolute" => created[p] = {}
  BY DEF EnterFails, Fails, Goes
<1>6. pc'[p] = to
  BY <1>1, <1>5 DEF TypeOK
<1>7. /\ R \in SUBSET Children(h) /\ (\A c \in R : Empty(c)) /\ linked' = linked \ R
      /\ kind[p] = "absolute" => \A c \in Children(h) \ R : ~Empty(c)
  BY DEF EnterFails, Children
<1>8. OnePath' /\ Root \in linked' /\ linked' \subseteq Dirs
  <2> HIDE DEF h, R
  <2> QED  BY <1>1, <1>2, <1>4, <1>7, PathLeft
<1>9. TypeOK'
  BY <1>1, <1>4, <1>5, <1>8 DEF TypeOK, Ended
<1>10. Kept'
  BY <1>1, <1>4, <1>5, <1>6 DEF Kept, TypeOK
<1>11. \A c \in created[p] : c # h
  BY <1>1, <1>2 DEF Proc, Owned, Going
<1>12. Proc(p)'
  <2>1. Where(p)' /\ NotYet(p)' /\ Given(p)'
    BY <1>4, <1>5, <1>6 DEF Where, NotYet, Given, AtFile, Going
  <2>2. Owned(p)'
    <3>1. \A c \in created[p] : <<p, Level(c) + 1>> \in linked' /\ up[<<p, Level(c) + 1>>] = c
      BY <1>1, <1>3, <1>7, <1>11 DEF Proc, Owned
    <3> QED  BY <1>4, <1>6, <3>1 DEF Owned, Going
  <2>3. Accounted(p)'
    <3> SUFFICES ASSUME kind[p] = "absolute", NEW l \in 1 .. Depth, <<p, l>> \in linked',
                        up[<<p, l>>] \notin created[p]
                 PROVE  Used(p, <<p, l>>)
      BY <1>4, <1>5, <1>6 DEF Accounted, Used
    <3>1. <<p, l>> \in linked /\ l = Level(h) + 1
      BY <1>1, <1>7 DEF Proc, Accounted
    <3>2. ~Empty(<<p, l>>)
      BY <1>3, <1>7, <3>1
    <3>3. l + 1 \in 1 .. Depth => up[<<p, l + 1>>] = Nowhere
      BY <1>1, <1>2, <3>1 DEF Proc, NotYet, Going
    <3>4. <<p, l>> # Nowhere
      BY DirFacts
    <3> QED  BY <1>1, <3>1, <3>2, <3>3, <3>4, NotEmpty
  <2> QED  BY <2>1, <2>2, <2>3 DEF Proc
<1>13. \A c \in Dirs : c[1] # p => up'[c] = up[c] /\ (c \in linked <=> c \in linked')
  BY <1>2, <1>3, <1>4, <1>7, DirFacts
<1>14. \A q \in Processes \ {p} : pc'[q] = pc[q] /\ held'[q] = held[q] /\ created'[q] = created[q]
  BY <1>1, <1>4, <1>5 DEF TypeOK
<1> HIDE DEF h, R
<1> QED  BY <1>4, <1>8, <1>9, <1>10, <1>12, <1>13, <1>14, Loud

LEMMA RollbackKeeps ==
  ASSUME OutputAssumption, IInv, NEW p \in Processes, Rollback(p)
  PROVE  IInv'
<1>1. TypeOK /\ OnePath /\ Kept /\ Proc(p) /\ pc[p] = "rollback" /\ kind[p] = "absolute"
  BY DEF IInv, Rollback, Proc, Where
<1>2. PICK d \in created[p] :
        /\ \A e \in created[p] : Level(e) <= Level(d)
        /\ linked' = linked \ {c \in Children(d) : Empty(c)}
        /\ created' = [created EXCEPT ![p] = @ \ {d}]
        /\ pc' = [pc EXCEPT ![p] = IF created[p] = {d} THEN "failed" ELSE "rollback"]
  BY DEF Rollback, LastMade, Removable, Goes
<1> DEFINE R == {c \in Children(d) : Empty(c)}
<1>3. d \in Dirs /\ Level(d) \in 0 .. Depth - 1
  BY <1>1, ProcTypes
<1>4. /\ <<p, Level(d) + 1>> \in linked /\ up[<<p, Level(d) + 1>>] = d
      /\ Children(d) = {<<p, Level(d) + 1>>}
  BY <1>1, <1>3, OnlyOwn DEF Proc, Owned
<1>5. UNCHANGED <<kind, held, sought, captured, removed, up, named, place>>
  BY DEF Rollback
<1>6. /\ created'[p] = created[p] \ {d}
      /\ pc'[p] \in {"rollback", "failed"}
      /\ pc'[p] = "failed" => created'[p] = {}
  BY <1>1, <1>2 DEF TypeOK
<1>7. R \in SUBSET Children(d) /\ (\A c \in R : Empty(c)) /\ linked' = linked \ R
  BY <1>2
<1>8. OnePath' /\ Root \in linked' /\ linked' \subseteq Dirs
  <2> HIDE DEF R
  <2> QED  BY <1>1, <1>3, <1>5, <1>7, PathLeft
<1>9. TypeOK'
  BY <1>1, <1>2, <1>5, <1>8 DEF TypeOK, Ended
<1>10. Kept'
  BY <1>1, <1>2, <1>5, <1>6 DEF Kept, TypeOK
<1>11. Proc(p)'
  <2>1. Where(p)' /\ NotYet(p)' /\ Given(p)'
    BY <1>1, <1>5, <1>6 DEF Where, NotYet, Given, AtFile, Going
  <2>2. Owned(p)'
    <3>1. \A c \in created[p] \ {d} : <<p, Level(c) + 1>> \in linked' /\ up[<<p, Level(c) + 1>>] = c
      BY <1>1, <1>4, <1>7 DEF Proc, Owned
    <3> QED  BY <1>5, <1>6, <3>1 DEF Owned, Going
  <2>3. Accounted(p)'
    <3> SUFFICES ASSUME NEW l \in 1 .. Depth, <<p, l>> \in linked',
                        up[<<p, l>>] \notin created[p] \ {d}
                 PROVE  \/ Used(p, <<p, l>>)
                        \/ /\ <<p, l + 1>> \in linked'
                           /\ up[<<p, l + 1>>] = <<p, l>> /\ <<p, l>> \notin created[p] \ {d}
      BY <1>5, <1>6 DEF Accounted, Used
    <3>1. <<p, l>> \in linked /\ <<p, l>> \in Dirs /\ Level(<<p, l>>) = l
      BY <1>7, DirFacts
    <3>2. CASE up[<<p, l>>] \in created[p]
      <4>1. up[<<p, l>>] = d
        BY <3>2
      <4>2. <<p, l>> \in Children(d)
        BY <1>1, <3>1, <4>1, DirFacts DEF Children
      <4>3. ~Empty(<<p, l>>) /\ l = Level(d) + 1
        BY <1>1, <1>3, <1>7, <3>1, <4>2, ChildFacts
      <4>4. <<p, l>> \notin created[p]
        BY <1>1, <1>2, <1>3, <3>1, <4>3, ProcTypes
      <4>5. <<p, l>> # d
        BY <1>2, <4>4
      <4>6. \A c \in R : up[c] = d
        BY <1>4
      <4> HIDE DEF R
      <4> QED  BY <1>1, <1>7, <3>1, <4>3, <4>4, <4>5, <4>6, NotEmpty
    <3>3. CASE up[<<p, l>>] \notin created[p]
      <4>1. \/ Used(p, <<p, l>>)
            \/ /\ <<p, l + 1>> \in linked
               /\ up[<<p, l + 1>>] = <<p, l>> /\ <<p, l>> \notin created[p]
        BY <1>1, <3>1, <3>3 DEF Proc, Accounted
      <4>2. <<p, l>> \notin created[p] => <<p, l>> # d
        BY <1>2
      <4> QED  BY <1>4, <1>7, <4>1, <4>2
    <3> QED  BY <3>2, <3>3
  <2> QED  BY <2>1, <2>2, <2>3 DEF Proc
<1>12. \A c \in Dirs : c[1] # p => up'[c] = up[c] /\ (c \in linked <=> c \in linked')
  BY <1>3, <1>4, <1>5, <1>7, DirFacts
<1>13. \A q \in Processes \ {p} : pc'[q] = pc[q] /\ held'[q] = held[q] /\ created'[q] = created[q]
  BY <1>1, <1>2, <1>5 DEF TypeOK
<1> HIDE DEF R
<1> QED  BY <1>5, <1>8, <1>9, <1>10, <1>11, <1>12, <1>13, Loud
-----------------------------------------------------------------------------
\* The file is made in the last directory of the path, or loses its name.
LEMMA CreateKeeps ==
  ASSUME OutputAssumption, IInv, NEW p \in Processes, Create(p)
  PROVE  IInv'
<1>1. TypeOK /\ OnePath /\ Kept /\ Proc(p) /\ pc[p] = "create"
  BY DEF IInv, Create
<1>2. /\ held[p] \in linked /\ held[p] \in Dirs /\ Level(held[p]) = Depth
      /\ Files(held[p]) = {}
      /\ place[p] = Nowhere
  BY <1>1 DEF Create, Proc, Where, NotYet, AtFile, TypeOK
<1>3. named = {}
  <2> SUFFICES ASSUME NEW f \in named
               PROVE  FALSE
    OBVIOUS
  <2>1. place[f] = held[p]
    BY <1>1, <1>2 DEF OnePath
  <2> QED  BY <1>2, <2>1 DEF Files
<1>4. /\ named' = {p} /\ pc' = [pc EXCEPT ![p] = "check"]
      /\ place' = [place EXCEPT ![p] = held[p]]
      /\ UNCHANGED <<kind, held, sought, created, captured, removed, linked, up>>
  BY <1>3 DEF Create, Goes
<1>5. pc'[p] = "check" /\ place'[p] = held[p]
  BY <1>1, <1>4, DirFacts DEF TypeOK
<1>6. TypeOK'
  BY <1>1, <1>2, <1>4, DirFacts DEF TypeOK
<1>7. OnePath'
  BY <1>1, <1>2, <1>4, <1>5 DEF OnePath
<1>8. Kept'
  BY <1>4 DEF Kept
<1>9. Proc(p)'
  <2>1. Where(p)' /\ NotYet(p)' /\ Given(p)'
    BY <1>2, <1>4, <1>5 DEF Where, NotYet, Given, Going
  <2>2. Owned(p)'
    BY <1>1, <1>4, <1>5 DEF Proc, Owned, Going
  <2>3. Accounted(p)'
    <3>1. kind[p] = "absolute" => \A l \in 1 .. Depth :
            <<p, l>> \in linked => up[<<p, l>>] \in created[p]
      BY <1>1 DEF Proc, Accounted
    <3> QED  BY <1>4, <3>1 DEF Accounted
  <2> QED  BY <2>1, <2>2, <2>3 DEF Proc
<1>10. /\ \A q \in Processes \ {p} : pc'[q] = pc[q] /\ held'[q] = held[q] /\ created'[q] = created[q]
       /\ \A f \in Makers \ {p} : place'[f] = place[f]
       /\ \A f \in Makers : place[f] # Nowhere => place'[f] = place[f]
  BY <1>1, <1>2, <1>4 DEF TypeOK
<1> QED  BY <1>3, <1>4, <1>6, <1>7, <1>8, <1>9, <1>10, Loud

LEMMA UnnamingKeeps ==
  ASSUME OutputAssumption, IInv, NEW p \in Processes, Unlink(p) \/ ChmodFails(p)
  PROVE  IInv'
<1>1. TypeOK /\ OnePath /\ Kept /\ Proc(p) /\ pc[p] \in {"unlink", "chmod"}
  BY DEF IInv, Unlink, ChmodFails
<1>2. PICK to \in {"create", "rollback", "failed"} :
        /\ pc' = [pc EXCEPT ![p] = to]
        /\ to = "create" <=> pc[p] = "unlink"
        /\ to = "rollback" => kind[p] = "absolute"
        /\ to = "failed" /\ kind[p] = "absolute" => created[p] = {}
  BY DEF Unlink, ChmodFails, Fails, Goes
<1>3. pc'[p] = to
  BY <1>1, <1>2 DEF TypeOK
<1>4. /\ named' \subseteq named
      /\ removed' \in [Processes -> BOOLEAN]
      /\ \A r \in Processes : removed[r] => removed'[r]
      /\ named' # named => removed'[p]
      /\ UNCHANGED <<kind, held, sought, created, captured, linked, up, place>>
  BY <1>1 DEF Unlink, ChmodFails, Unnamed, TypeOK
<1>5. TypeOK'
  BY <1>1, <1>2, <1>4 DEF TypeOK, Ended
<1>6. OnePath'
  BY <1>1, <1>4 DEF OnePath
<1>7. Kept'
  <2>1. CASE named' = named
    BY <1>1, <1>2, <1>3, <1>4, <2>1 DEF Kept, TypeOK
  <2>2. CASE named' # named
    BY <1>3, <1>4, <2>2 DEF Kept
  <2> QED  BY <2>1, <2>2
<1>8. Proc(p)'
  <2>1. Where(p)' /\ NotYet(p)' /\ Given(p)'
    BY <1>1, <1>2, <1>3, <1>4 DEF Proc, Where, NotYet, Given, Going, AtFile
  <2>2. Owned(p)'
    BY <1>1, <1>3, <1>4 DEF Proc, Owned, Going
  <2>3. Accounted(p)'
    <3>1. kind[p] = "absolute" => \A l \in 1 .. Depth :
            <<p, l>> \in linked => up[<<p, l>>] \in created[p]
      BY <1>1 DEF Proc, Accounted
    <3> QED  BY <1>4, <3>1 DEF Accounted
  <2> QED  BY <2>1, <2>2, <2>3 DEF Proc
<1>9. \A q \in Processes \ {p} : pc'[q] = pc[q] /\ held'[q] = held[q] /\ created'[q] = created[q]
  BY <1>1, <1>2, <1>4 DEF TypeOK
<1> QED  BY <1>4, <1>5, <1>6, <1>7, <1>8, <1>9, Loud
-----------------------------------------------------------------------------
LEMMA StepKeeps ==
  ASSUME OutputAssumption, IInv, [Next]_vars
  PROVE  IInv'
<1>1. CASE UNCHANGED vars
  <2>1. TypeOK' /\ OnePath' /\ Kept'
    BY <1>1 DEF IInv, vars, fileSystem, TypeOK, OnePath, Kept
  <2>2. \A q \in Processes : Proc(q)'
    BY <1>1, Frame DEF IInv, vars, fileSystem
  <2> QED  BY <2>1, <2>2 DEF IInv
<1>2. ASSUME NEW p \in Processes, Step(p)
      PROVE  IInv'
  BY <1>2, LookingKeeps, PassingKeeps, MakeDirKeeps, EnterFailsKeeps, RollbackKeeps, CreateKeeps,
     UnnamingKeeps DEF Step
<1> QED  BY <1>1, <1>2 DEF Next

LEMMA Invariant ==
  ASSUME OutputAssumption
  PROVE  Spec => []IInv
BY Initially, StepKeeps, PTL DEF Spec

\* The file system stays one of directories on the path, and what processes hold are directories.
THEOREM TypeCorrect ==
  ASSUME OutputAssumption
  PROVE  Spec => []TypeOK
<1>1. IInv => TypeOK
  BY DEF IInv
<1> QED  BY <1>1, Invariant, PTL

\* However many processes open the file and fail, one that was given it has it, in the directory
\* that the path names, until a replacement removes it.
THEOREM PublishedStays ==
  ASSUME OutputAssumption
  PROVE  Spec => []Published
<1>1. IInv => Published
  <2> SUFFICES ASSUME IInv, NEW p \in Processes, pc[p] = "done", ~ \E q \in Processes \ {p} : removed[q]
               PROVE  OnPath(held[p]) /\ File = {p}
    BY DEF Published
  <2>1. TypeOK /\ OnePath /\ p \in named /\ place[p] = held[p]
    BY DEF IInv, Proc, Given
  <2>2. held[p] \in linked /\ Level(held[p]) = Depth
    BY <2>1 DEF OnePath
  <2>3. At(Depth) = {held[p]}
    BY <2>1, <2>2 DEF At, OnePath
  <2>4. Files(held[p]) = {p}
    BY <2>1 DEF Files, OnePath
  <2> QED  BY <2>2, <2>3, <2>4 DEF OnPath, File
<1> QED  BY <1>1, Invariant, PTL

\* No failure costs a file its name: a file is missing only where a replacement ended, or is,
\* between its two calls.
THEOREM NameKeptAlways ==
  ASSUME OutputAssumption
  PROVE  Spec => []NameKept
<1>1. IInv => NameKept
  <2> SUFFICES ASSUME IInv, place[Other] # Nowhere \/ \E p \in Processes : pc[p] = "done",
                      \A q \in Processes :
                        ~(removed[q] /\ pc[q] \in {"create", "rollback", "failed", "killed"})
               PROVE  File # {}
    BY DEF NameKept
  <2>1. TypeOK /\ OnePath /\ Kept /\ \A p \in Processes : Given(p)
    BY DEF IInv, Proc
  <2>2. \A p \in Processes : pc[p] = "done" => place[p] # Nowhere
    BY <2>1, ProcTypes, DirFacts DEF Given
  <2>3. PICK f \in named : TRUE
    BY <2>1, <2>2, DirFacts DEF Kept
  <2>4. place[f] \in At(Depth) /\ f \in Files(place[f])
    BY <2>1 DEF OnePath, At, Files
  <2> QED  BY <2>4 DEF File
<1> QED  BY <1>1, Invariant, PTL

\* A failed creation leaves none of its directories behind but for what is used.
THEOREM LeavesNoLitter ==
  ASSUME OutputAssumption
  PROVE  Spec => []NoLitter
<1>1. IInv => NoLitter
  <2> SUFFICES ASSUME IInv, NEW p \in Processes, kind[p] = "absolute", pc[p] = "failed",
                      NEW d \in linked, d[1] = p,
                      \A e \in linked : e[1] = p => Level(e) <= Level(d)
               PROVE  Used(p, d)
    BY DEF NoLitter, Used
  <2>1. TypeOK /\ OnePath /\ created[p] = {} /\ Accounted(p)
    BY DEF IInv, Proc, Where
  <2>2. d \in Dirs /\ d = <<p, Level(d)>> /\ Level(d) \in 0 .. Depth
    BY <2>1, DirFacts DEF TypeOK
  <2>3. Level(d) # 0
    BY <2>1, <2>2, DirFacts DEF OnePath, TypeOK
  <2>4. ~(<<p, Level(d) + 1>> \in linked)
    <3> SUFFICES ASSUME <<p, Level(d) + 1>> \in linked
                 PROVE  FALSE
      OBVIOUS
    <3>1. <<p, Level(d) + 1>>[1] = p /\ Level(<<p, Level(d) + 1>>) = Level(d) + 1
      BY DEF Level
    <3> QED  BY <2>2, <3>1
  <2> QED  BY <2>1, <2>2, <2>3, <2>4 DEF Accounted
<1> QED  BY <1>1, Invariant, PTL

\* A directory is taken away only by a failing creation that made it.
THEOREM OwnDirectoriesOnly ==
  ASSUME OutputAssumption
  PROVE  Spec => OwnDirectories
<1> DEFINE Own == \A d \in linked \ linked' : \E p \in Processes :
                    /\ d[1] = p /\ kind[p] = "absolute"
                    /\ pc[p] \in {"enter", "rollback"} /\ pc'[p] \in {"rollback", "failed"}
<1>1. ASSUME IInv, [Next]_vars
      PROVE  [Own]_vars
  <2> SUFFICES ASSUME NEW p \in Processes, Step(p), NEW d \in linked \ linked'
               PROVE  /\ d[1] = p /\ kind[p] = "absolute"
                      /\ pc[p] \in {"enter", "rollback"} /\ pc'[p] \in {"rollback", "failed"}
    BY <1>1 DEF Next
  <2>1. TypeOK /\ OnePath /\ Proc(p) /\ held[p] \in Dirs
    BY <1>1, ProcTypes DEF IInv
  <2>2. EnterFails(p) \/ Rollback(p)
    BY DEF Step, OpenWhole, Search, Descend, MakeDir, MakeDirLate, MakeDirFails, Enter, Reopen,
           OpenFails, OpenParent, LookUp, Classify, Unlink, Create, CreateFails, Check, Chmod,
           ChmodFails, FileFails, Kill, fileSystem
  <2>3. CASE EnterFails(p)
    <3>1. kind[p] = "absolute" /\ d \in Children(held[p]) /\ pc[p] = "enter"
      BY <2>3 DEF EnterFails
    <3>2. Level(held[p]) < Depth
      BY <2>1, <3>1 DEF Proc, Where
    <3>3. d = <<p, Level(held[p]) + 1>>
      BY <2>1, <3>1, <3>2, OnlyOwn DEF Proc, Owned
    <3>4. pc'[p] \in {"rollback", "failed"}
      BY <2>1, <2>3 DEF EnterFails, Fails, Goes, TypeOK
    <3> QED  BY <3>1, <3>3, <3>4
  <2>4. CASE Rollback(p)
    <3>1. PICK e \in created[p] : d \in Children(e)
      BY <2>4 DEF Rollback
    <3>2. e \in Dirs /\ Level(e) < Depth
      BY <2>1, ProcTypes
    <3>3. d = <<p, Level(e) + 1>>
      BY <2>1, <3>1, <3>2, OnlyOwn DEF Proc, Owned
    <3>4. pc[p] = "rollback" /\ pc'[p] \in {"rollback", "failed"}
      BY <2>1, <2>4 DEF Rollback, Goes, TypeOK
    <3>5. kind[p] = "absolute"
      BY <2>1, <3>4 DEF Proc, Where
    <3> QED  BY <3>3, <3>4, <3>5
  <2> QED  BY <2>2, <2>3, <2>4
<1>2. Spec => [][Own]_vars
  BY <1>1, Invariant, PTL DEF Spec
<1> QED  BY <1>2 DEF OwnDirectories
=============================================================================
