----------------------------- MODULE SafeOutput -----------------------------
(***************************************************************************)
(* The output files of several runs (safe_output.rs): processes that open  *)
(* the same file, each by a sequence of calls to the file system, none of  *)
(* which is made together with the next.  A process creates the file and   *)
(* the directories of its absolute path, and removes those again when it   *)
(* fails; creates it below a directory it has; or replaces it.  It may be  *)
(* killed between any two calls.                                           *)
(*                                                                         *)
(* The file has Depth directories above it, below one that all processes   *)
(* have.  A directory or a file is named by who made it, a handle to it    *)
(* stays one when it is removed.  Links are left out: nothing here is one. *)
(***************************************************************************)
EXTENDS Integers

CONSTANTS
  Processes,
  Other,      \* whoever made what was there before
  Depth       \* the number of directories above the file

ASSUME OutputAssumption == Other \notin Processes /\ Depth \in Nat \ {0}

Makers == Processes \cup {Other}
Dirs == Makers \X (0 .. Depth)
Root == <<Other, 0>>
Nowhere == <<Other, -1>>
Level(d) == d[2]

\* open_create_new_trusted_absolute, open_create_new, and ensure_dir with open_replace_regular.
Kinds == {"absolute", "below", "replace"}

VARIABLES
  kind,      \* what each process calls
  pc,        \* where it is
  held,      \* the directory it has opened last
  sought,    \* the level of the ancestor it looks for
  created,   \* the directories it keeps to roll back what it made in them
  captured,  \* replacement_mode: it has one
  removed,   \* it has removed a file by its name
  linked,    \* the directories that have their name
  up,        \* the directory each was made in
  named,     \* the files that have their name
  place      \* the directory each file was made in

fileSystem == <<linked, up, named, place>>
vars == <<kind, pc, held, sought, created, captured, removed, fileSystem>>

At(l) == {d \in linked : Level(d) = l}
Children(d) == {c \in linked : c # Root /\ up[c] = d}
Files(d) == {f \in named : place[f] = d}
Empty(d) == Children(d) = {} /\ Files(d) = {}

Init == /\ kind \in [Processes -> Kinds]
        /\ pc = [p \in Processes |-> IF kind[p] = "absolute" THEN "open" ELSE "descend"]
        /\ held = [p \in Processes |-> Root]
        /\ sought = [p \in Processes |-> Depth]
        /\ created = [p \in Processes |-> {}]
        /\ captured = [p \in Processes |-> FALSE]
        /\ removed = [p \in Processes |-> FALSE]
        /\ \E n \in 0 .. Depth : linked = {Other} \X (0 .. n)
        /\ up = [d \in Dirs |-> IF d \in linked \ {Root} THEN <<Other, Level(d) - 1>> ELSE Nowhere]
        /\ named \in SUBSET (IF At(Depth) = {} THEN {} ELSE {Other})
        /\ place = [f \in Makers |-> IF f \in named THEN <<Other, Depth>> ELSE Nowhere]

Goes(p, to) == pc' = [pc EXCEPT ![p] = to]
Holds(p, d) == held' = [held EXCEPT ![p] = d]

\* An error: the directories made on the way to an absolute path are rolled back.
Fails(p) == Goes(p, IF kind[p] = "absolute" /\ created[p] # {} THEN "rollback" ELSE "failed")

\* Going on below the last directory.
AlsoLast(d) == Level(d) <= Depth

\* Components of the path are left.
Missing(d) == Level(d) < Depth

\* The directory is opened; it may be the last one.
Entered(p, d) == /\ Holds(p, d)
                 /\ Goes(p, IF Missing(d) THEN "descend"
                            ELSE IF kind[p] = "replace" THEN "parent" ELSE "create")

-----------------------------------------------------------------------------
(***************************************************************************)
(* The directories: the whole absolute path, then its deepest ancestor     *)
(* that exists, from below; then down, opening or making one at a time.    *)
(***************************************************************************)
OpenWhole(p) == /\ pc[p] = "open"
                /\ IF At(Depth) = {}
                     THEN Goes(p, "search") /\ UNCHANGED held
                     ELSE \E d \in At(Depth) : Entered(p, d)
                /\ UNCHANGED <<kind, sought, created, captured, removed, fileSystem>>

Search(p) == /\ pc[p] = "search"
             /\ IF At(sought[p]) = {}
                  THEN /\ sought' = [sought EXCEPT ![p] = @ - 1]
                       /\ UNCHANGED <<pc, held>>
                  ELSE (\E d \in At(sought[p]) : Entered(p, d)) /\ UNCHANGED sought
             /\ UNCHANGED <<kind, created, captured, removed, fileSystem>>

Descend(p) == /\ pc[p] = "descend"
              /\ IF Children(held[p]) = {}
                   THEN Goes(p, "make") /\ UNCHANGED held
                   ELSE \E d \in Children(held[p]) : Entered(p, d)
              /\ UNCHANGED <<kind, sought, created, captured, removed, fileSystem>>

\* Nothing can be made in a directory that has been removed.
MakeDir(p) == LET d == <<p, Level(held[p]) + 1>>
              IN  /\ pc[p] = "make"
                  /\ held[p] \in linked
                  /\ Children(held[p]) = {}
                  /\ linked' = linked \cup {d}
                  /\ up' = [up EXCEPT ![d] = held[p]]
                  /\ Goes(p, "enter")
                  /\ UNCHANGED <<kind, held, sought, created, captured, removed, named, place>>

\* Another process was faster: its directory is entered, and not noted for the roll-back.
NotedExisting(p) == created[p]

MakeDirLate(p) == /\ pc[p] = "make"
                  /\ Children(held[p]) # {}
                  /\ created' = [created EXCEPT ![p] = NotedExisting(p)]
                  /\ Goes(p, "reopen")
                  /\ UNCHANGED <<kind, held, sought, captured, removed, fileSystem>>

MakeDirFails(p) == /\ pc[p] = "make"
                   /\ Fails(p)
                   /\ UNCHANGED <<kind, held, sought, created, captured, removed, fileSystem>>

Enter(p) == /\ pc[p] = "enter"
            /\ \E d \in Children(held[p]) : Entered(p, d)
            /\ created' = [created EXCEPT ![p] = @ \cup {held[p]}]
            /\ UNCHANGED <<kind, sought, captured, removed, fileSystem>>

\* An absolute path removes the directory that it made and cannot open.
EnterFails(p) == /\ pc[p] = "enter"
                 /\ linked' = IF kind[p] = "absolute"
                              THEN linked \ {d \in Children(held[p]) : Empty(d)} ELSE linked
                 /\ Fails(p)
                 /\ UNCHANGED <<kind, held, sought, created, captured, removed, up, named, place>>

Reopen(p) == /\ pc[p] = "reopen"
             /\ \E d \in Children(held[p]) : Entered(p, d)
             /\ UNCHANGED <<kind, sought, created, captured, removed, fileSystem>>

\* A directory cannot be opened: the one that was there may have been rolled back by now.
OpenFails(p) == /\ pc[p] \in {"open", "search", "descend", "reopen"}
                /\ Fails(p)
                /\ UNCHANGED <<kind, held, sought, created, captured, removed, fileSystem>>
-----------------------------------------------------------------------------
(***************************************************************************)
(* The file.  A replacement opens the directories once more, none is made. *)
(***************************************************************************)
OpenParent(p) == /\ pc[p] = "parent"
                 /\ Holds(p, Root)
                 /\ Goes(p, "lookup")
                 /\ UNCHANGED <<kind, sought, created, captured, removed, fileSystem>>

LookUp(p) == /\ pc[p] = "lookup"
             /\ \E d \in Children(held[p]) :
                  /\ Holds(p, d)
                  /\ Goes(p, IF Missing(d) THEN "lookup" ELSE "classify")
             /\ UNCHANGED <<kind, sought, created, captured, removed, fileSystem>>

Classify(p) == /\ pc[p] = "classify"
               /\ Goes(p, IF Files(held[p]) = {} THEN "create" ELSE "unlink")
               /\ captured' = [captured EXCEPT ![p] = Files(held[p]) # {}]
               /\ UNCHANGED <<kind, held, sought, created, removed, fileSystem>>

\* Whatever file has the name goes.
Unnamed(p) == named \ Files(held[p])

Unlink(p) == /\ pc[p] = "unlink"
             /\ Files(held[p]) # {}
             /\ named' = Unnamed(p)
             /\ removed' = [removed EXCEPT ![p] = TRUE]
             /\ Goes(p, "create")
             /\ UNCHANGED <<kind, held, sought, created, captured, linked, up, place>>

\* create_new: the name is free, and the directory has its own.
Create(p) == /\ pc[p] = "create"
             /\ held[p] \in linked
             /\ Files(held[p]) = {}
             /\ named' = named \cup {p}
             /\ place' = [place EXCEPT ![p] = held[p]]
             /\ Goes(p, "check")
             /\ UNCHANGED <<kind, held, sought, created, captured, removed, linked, up>>

\* Removing by its name a file that could not be created.
FailedCreationCleans(p) == Unnamed(p)

FailedCreation(p) == named

CreateFails(p) == /\ pc[p] = "create"
                  /\ named' = FailedCreation(p)
                  /\ Fails(p)
                  /\ UNCHANGED <<kind, held, sought, created, captured, removed, linked, up, place>>

Check(p) == /\ pc[p] = "check"
            /\ Goes(p, IF captured[p] THEN "chmod" ELSE "done")
            /\ UNCHANGED <<kind, held, sought, created, captured, removed, fileSystem>>

Chmod(p) == /\ pc[p] = "chmod"
            /\ Goes(p, "done")
            /\ UNCHANGED <<kind, held, sought, created, captured, removed, fileSystem>>

\* The file is removed again, by its name.
ChmodFails(p) == /\ pc[p] = "chmod"
                 /\ named' = Unnamed(p)
                 /\ removed' = [removed EXCEPT ![p] = @ \/ Files(held[p]) # {}]
                 /\ Fails(p)
                 /\ UNCHANGED <<kind, held, sought, created, captured, linked, up, place>>

\* The directories are gone, the file is, or it is none; a file that was made stays.
FileFails(p) == /\ pc[p] \in {"parent", "lookup", "classify", "unlink", "check"}
                /\ Fails(p)
                /\ UNCHANGED <<kind, held, sought, created, captured, removed, fileSystem>>
-----------------------------------------------------------------------------
\* Rolling back from the outermost directory.
Outermost(d, ds) == \A e \in ds : Level(d) <= Level(e)

LastMade(d, ds) == \A e \in ds : Level(e) <= Level(d)

\* Removing a directory with all that is in it.
RemovableWhole(d) == TRUE

\* remove_dir refuses a directory that is not empty.
Removable(d) == Empty(d)

\* The roll-back removes by name, and ignores what it cannot remove.
Rollback(p) == /\ pc[p] = "rollback"
               /\ \E d \in created[p] :
                    /\ LastMade(d, created[p])
                    /\ linked' = linked \ {c \in Children(d) : Removable(c)}
                    /\ created' = [created EXCEPT ![p] = @ \ {d}]
                    /\ Goes(p, IF created[p] = {d} THEN "failed" ELSE "rollback")
               /\ UNCHANGED <<kind, held, sought, captured, removed, up, named, place>>

Ended == {"done", "failed", "killed"}

Kill(p) == /\ pc[p] \notin Ended
           /\ Goes(p, "killed")
           /\ UNCHANGED <<kind, held, sought, created, captured, removed, fileSystem>>

Step(p) == \/ OpenWhole(p) \/ Search(p) \/ Descend(p)
           \/ MakeDir(p) \/ MakeDirLate(p) \/ MakeDirFails(p)
           \/ Enter(p) \/ EnterFails(p) \/ Reopen(p) \/ OpenFails(p)
           \/ OpenParent(p) \/ LookUp(p) \/ Classify(p) \/ Unlink(p)
           \/ Create(p) \/ CreateFails(p) \/ Check(p) \/ Chmod(p) \/ ChmodFails(p) \/ FileFails(p)
           \/ Rollback(p) \/ Kill(p)

Next == \E p \in Processes : Step(p)

Spec == Init /\ [][Next]_vars
-----------------------------------------------------------------------------
(***************************************************************************)
(* Properties.                                                             *)
(***************************************************************************)
TypeOK == /\ kind \in [Processes -> Kinds]
          /\ pc \in [Processes -> {"open", "search", "descend", "make", "enter", "reopen", "parent",
                                   "lookup", "classify", "unlink", "create", "check", "chmod",
                                   "rollback"} \cup Ended]
          /\ held \in [Processes -> Dirs]
          /\ sought \in [Processes -> 0 .. Depth]
          /\ created \in [Processes -> SUBSET {d \in Dirs : Level(d) < Depth}]
          /\ captured \in [Processes -> BOOLEAN]
          /\ removed \in [Processes -> BOOLEAN]
          /\ linked \subseteq Dirs /\ Root \in linked
          /\ up \in [Dirs -> Dirs \cup {Nowhere}]
          /\ named \subseteq Makers
          /\ place \in [Makers -> Dirs \cup {Nowhere}]

\* What the path names.
OnPath(d) == d \in linked /\ At(Level(d)) = {d}
File == UNION {Files(d) : d \in At(Depth)}

\* A process that was given a file made it, and the path names it and its directory, however
\* many others have failed and rolled back since.  Only a removal by name, in a replacement,
\* takes the name from it (and leaves the directory to the roll-back of who made it).
Published == \A p \in Processes : pc[p] = "done" =>
               \/ OnPath(held[p]) /\ File = {p}
               \/ \E q \in Processes \ {p} : removed[q]

\* A file that was there or was given out is missing only between the two calls of a
\* replacement, or after one that ended there; a failure to create never costs a file.
NameKept == (place[Other] # Nowhere \/ \E p \in Processes : pc[p] = "done") =>
              \/ File # {}
              \/ \E q \in Processes : removed[q] /\ pc[q] \in {"create", "rollback", "failed", "killed"}

\* A directory is taken away only by a failing creation at an absolute path, which made it
\* itself: never one that another process made, although it is removed by its name.
OwnDirectories ==
  [][\A d \in linked \ linked' : \E p \in Processes :
       /\ d[1] = p /\ kind[p] = "absolute"
       /\ pc[p] \in {"enter", "rollback"} /\ pc'[p] \in {"rollback", "failed"}]_vars

\* When the creation at an absolute path has failed, a directory it made is still there only
\* if something was made in the innermost of those that are: a directory by another process,
\* or a file (its own, when the check after its creation failed).
NoLitter ==
  \A p \in Processes : kind[p] = "absolute" /\ pc[p] = "failed" =>
    LET mine == {d \in linked : d[1] = p}
    IN  \A d \in mine : (\A e \in mine : Level(e) <= Level(d)) =>
          \/ \E f \in Makers : place[f] = d
          \/ \E c \in Dirs : c[1] # p /\ up[c] = d
=============================================================================
