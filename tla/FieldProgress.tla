---------------------------- MODULE FieldProgress ----------------------------
(***************************************************************************)
(* Where the reader of a field file is in the grammar of the whole file:   *)
(* the inductive invariant from which FieldLoadingProofs shows that what   *)
(* is read is what is written.                                             *)
(***************************************************************************)
EXTENDS FieldGrammar
-----------------------------------------------------------------------------
\* The entry whose key is at i has not ended before k.
Going(file, i, k) ==
  /\ \A j \in i .. k : Level(file, i) <= Level(file, j)
  /\ \A j \in i + 1 .. k - 1 : ~(file[j] = Semicolon /\ Level(file, j) = Level(file, i))

\* The keys from s on are those before k and those from k on.
OnTrack(file, s, k, blocks) ==
  /\ Keys(file, s, k - 1, blocks) \subseteq s .. k - 1
  /\ \A last \in k - 1 .. Len(file) :
       Keys(file, s, last, blocks) = Keys(file, s, k - 1, blocks) \cup Keys(file, k, last, blocks)

FileBefore(file, k) == Keys(file, 1, k - 1, FileBlocks)
Before(file, i, k, blocks) == Keys(file, i + 2, k - 1, blocks)

\* An entry of a block can begin at k, and those before it are valid: of the file,
FileAt(file, keep, k) ==
  /\ k \in 1 .. Len(file) + 1
  /\ Level(file, k) = 0
  /\ OnTrack(file, 1, k, FileBlocks)
  /\ \A j \in FileBefore(file, k) : ValidFileEntry(file, keep, j)

\* of a block whose key is at i,
Inside(file, i, k, blocks) ==
  /\ Block(file, i)
  /\ k \in i + 2 .. Len(file) + 1
  /\ Level(file, k) = Level(file, i) + 1
  /\ \A q \in i + 2 .. k : Level(file, q) > Level(file, i)
  /\ OnTrack(file, i + 2, k, blocks)

HeaderAt(file, keep, o, k) ==
  /\ o \in 1 .. Len(file) /\ file[o] = "FoamFile"
  /\ FileAt(file, keep, o)
  /\ Inside(file, o, k, {})
  /\ \A j \in Before(file, o, k, {}) : ValidEntry(file, keep, j, "header")

BoundaryAt(file, keep, o, k) ==
  /\ o \in 1 .. Len(file) /\ file[o] = "boundaryField"
  /\ FileAt(file, keep, o)
  /\ Inside(file, o, k, Tokens)
  /\ \A j \in Before(file, o, k, Tokens) : ValidPatch(file, keep, j)

\* of a patch whose name is at o, in a boundary whose key is at b.
PatchAt(file, keep, b, o, k) ==
  /\ o \in 1 .. Len(file) /\ file[o] \in Plain
  /\ BoundaryAt(file, keep, b, o)
  /\ Inside(file, o, k, {})
  /\ \A j \in Before(file, o, k, {}) : ValidEntry(file, keep, j, "patch")

BlockAt(file, keep, block, b, o, k) ==
  CASE block = "file"     -> FileAt(file, keep, k)
    [] block = "header"   -> HeaderAt(file, keep, o, k)
    [] block = "boundary" -> BoundaryAt(file, keep, o, k)
    [] block = "patch"    -> PatchAt(file, keep, b, o, k)

\* What is found when the entries with these keys have been read, but for one slot.
FileFound(file, keep, fnd, pts, keys, but) ==
  /\ \A s \in FileSlots \ {but} : fnd[s] = Says(file, keep, keys, s)
  /\ but # "patches" => pts = PatchesSaid(file, keep, keys)

HeaderFound(file, fnd, keys, but) ==
  but # "object" => fnd["object"] = WordAt(Latest(file, keys, "object"))
PatchFound(file, keep, fnd, keys, but) ==
  \A s \in {"type", "value", "inlet"} \ {but} : fnd[s] = PatchSays(file, keep, keys, s)

FoundIn(file, keep, fnd, pts, block, b, o, k, but) ==
  CASE block = "file" -> FileFound(file, keep, fnd, pts, FileBefore(file, k), but)
    [] block = "header" ->
         /\ FileFound(file, keep, fnd, pts, FileBefore(file, o), "object")
         /\ HeaderFound(file, fnd, Before(file, o, k, {}), but)
    [] block = "boundary" ->
         /\ FileFound(file, keep, fnd, pts, FileBefore(file, o), "patches")
         /\ pts = PatchesAt(file, keep, Before(file, o, k, Tokens))
    [] block = "patch" ->
         /\ FileFound(file, keep, fnd, pts, FileBefore(file, b), "patches")
         /\ pts = PatchesAt(file, keep, Before(file, b, o, Tokens))
         /\ fnd["name"] = Value("name", o, 0)
         /\ PatchFound(file, keep, fnd, Before(file, o, k, {}), but)

\* Where the value of an entry goes, and what it is.
Slot(block, key) ==
  CASE block = "file" /\ key = "internalField" -> "internal"
    [] block = "file" /\ key = "dimensions"    -> "dimensions"
    [] block = "header" /\ key = "object"      -> "object"
    [] block = "header" /\ key = "class"       -> "class"
    [] block = "patch" /\ key = "type"         -> "type"
    [] block = "patch" /\ key = "value"        -> "value"
    [] block = "patch" /\ key = "inletValue"   -> "inlet"
    [] OTHER                                   -> "none"

SaysAt(file, keep, slot, i) ==
  CASE slot \in {"internal", "value", "inlet"} -> ValueAt(file, keep, i)
    [] slot \in {"object", "type"}             -> WordAt(i)
    [] slot = "dimensions"                     -> ExponentsAt(file, i)
Said(file, keep, fnd, slot, i) == slot \notin {"none", "class"} => fnd[slot] = SaysAt(file, keep, slot, i)

(***************************************************************************)
(* How far the entry is whose key is at i; rest is what has to be read     *)
(* behind it.                                                              *)
(***************************************************************************)
StartGoals(kind, slot) ==
  CASE kind = "exact"     -> <<Goal("exact")>>
    [] kind = "line"      -> <<Goal("line")>>
    [] kind = "word"      -> <<GoalOf("scalar", slot), Expect(Semicolon)>>
    [] kind = "value"     -> <<GoalOf("value", slot)>>
    [] kind = "exponents" -> <<Expect(BracketOpen), GoalOf("exponents", 0)>>

Started(kind, slot, i, rest) ==
  /\ goals = StartGoals(kind, slot) \o rest
  /\ at = i + 1
  /\ local = <<>>

\* Only the semicolon is left.
Ending(kind, slot, i, rest) ==
  /\ goals = <<Expect(Semicolon)>> \o rest
  /\ local = <<>>
  /\ at > i + 1 /\ ~Block(text, i)
  /\ Level(text, at) = Level(text, i)
  /\ kind # "line" /\ IsA(kind, text, full, i + 1, at - 1)
  /\ kind = "value" => text[i + 1] \in {"uniform", "nonuniform"}
  /\ IF kind = "exponents" THEN found["dimensions"] = Value("exponents", i + 2, at - i - 3)
     ELSE Said(text, full, found, slot, i)

\* local is what has been opened from place g on.
Local(g) == /\ local \in Seq(Openers)
            /\ Level(text, at) = Level(text, g) + Len(local)
            /\ \A d \in 1 .. Len(local) : local[d] = open[Level(text, g) + d]

InGroup(g) == /\ g \in 1 .. at - 1
              /\ text[g] \in Openers
              /\ Local(g)
              /\ \A q \in g + 1 .. at : Level(text, q) > Level(text, g)

Grouped(kind, slot, i, rest) ==
  /\ goals = <<Goal("group"), Expect(Semicolon)>> \o rest
  /\ ~Block(text, i)
  /\ Level(text, i + 1) = Level(text, i)
  /\ \/ kind = "exact" /\ InGroup(i + 1)
     \/ /\ kind = "value" /\ text[i + 1] = "uniform"
        /\ Level(text, i + 2) = Level(text, i)
        /\ InGroup(i + 2) /\ Said(text, full, found, slot, i)

Bracing(kind, slot, i, rest) ==
  /\ goals = <<Goal("group"), Goal("semicolon?")>> \o rest
  /\ Block(text, i)
  /\ Level(text, i + 1) = Level(text, i)
  /\ kind \in {"exact", "line"} /\ InGroup(i + 1)

Braced(kind, slot, i, rest) ==
  /\ goals = <<Goal("semicolon?")>> \o rest
  /\ Block(text, i)
  /\ kind \in {"exact", "line"}
  /\ local = <<>>
  /\ Partner(text, i + 1) = at - 1
  /\ at - 1 > i + 1
  /\ text[at - 1] \in Closers
  /\ Level(text, at) = Level(text, i)

Lining(kind, slot, i, rest) ==
  /\ goals = <<Goal("rest")>> \o rest
  /\ ~Block(text, i)
  /\ Local(i)
  /\ at > i + 1
  /\ \/ kind = "line" /\ text[i + 1] \in Plain \cup Openers
     \/ kind = "value" /\ text[i + 1] \in Plain \ {"uniform", "nonuniform"} /\ Said(text, full, found, slot, i)

Counting(kind, slot, i, rest) ==
  \E m \in 0 .. 7 :
    /\ goals = <<GoalOf("exponents", m)>> \o rest
    /\ kind = "exponents"
    /\ local = <<>>
    /\ text[i + 1] = BracketOpen
    /\ at = i + 2 + m
    /\ Level(text, at) = Level(text, i) + 1
    /\ \A j \in i + 2 .. at - 1 : text[j] \in Numbers

UniformNext(kind, slot, i, rest) ==
  /\ goals = <<Goal("uniform"), Expect(Semicolon)>> \o rest
  /\ kind = "value"
  /\ local = <<>>
  /\ at = i + 2 /\ text[i + 1] = "uniform"
  /\ Level(text, at) = Level(text, i)
  /\ Said(text, full, found, slot, i)

\* A list, up to its type, its count, its opener and its items.
Listing(kind, slot, i, rest) ==
  /\ goals = <<GoalOf("list", slot)>> \o rest
  /\ kind = "value"
  /\ local = <<>>
  /\ at = i + 2 /\ text[i + 1] = "nonuniform"
  /\ Level(text, at) = Level(text, i)

Sizing(kind, slot, i, rest) ==
  /\ kind = "value"
  /\ local = <<>>
  /\ at = i + 3 /\ text[i + 1] = "nonuniform" /\ text[i + 2] \in DOMAIN Components
  /\ Level(text, at) = Level(text, i)
  /\ goals = <<GoalOf("count", [slot |-> slot, components |-> Components[text[i + 2]]])>> \o rest

Sized(kind, slot, i, rest) ==
  /\ kind = "value"
  /\ local = <<>>
  /\ at = i + 4 /\ text[i + 1] = "nonuniform" /\ text[i + 2] \in DOMAIN Components
  /\ text[i + 3] \in DOMAIN Counts
  /\ Level(text, at) = Level(text, i)
  /\ goals = <<GoalOf("opener", [slot |-> slot, components |-> Components[text[i + 2]],
                                 count |-> Counts[text[i + 3]]])>> \o rest

\* How many of r items are numbers, and how deep the next one is.
Kept(components, r) ==
  IF components = 1 THEN r
  ELSE 3 * (r \div 5) + (IF r % 5 <= 1 THEN 0 ELSE (r % 5) - 1)
Depth(components, r) == IF components = 1 \/ r % 5 = 0 THEN 1 ELSE 2

\* The item a list has at a place.
ItemIs(components, j, t) ==
  IF components = 1 \/ j % 5 \in 2 .. 4 THEN t \in Numbers
  ELSE t = IF j % 5 = 1 THEN ParenOpen ELSE ParenClose

ItemsGoals(n, components, slot, r) ==
  SubSeq(Items(n, components, GoalOf("number", slot)), r + 1, Places(n, components))

\* r items of n tuples have been read.
Itemised(slot, i, rest, c, n, r) ==
  /\ r \in 0 .. Places(n, c)
  /\ goals = (ItemsGoals(n, c, slot, r) \o <<Expect(ParenClose), Expect(Semicolon)>>) \o rest
  /\ full => n * c <= MaxRetained
  /\ \A j \in 1 .. r : ItemIs(c, j, text[i + 4 + j])
  /\ Level(text, at) = Level(text, i) + Depth(c, r)
  /\ found[slot] = [Value("nonuniform", i + 2, n) EXCEPT !.kept = IF full THEN Kept(c, r) ELSE 0]

Numbering(kind, slot, i, rest) ==
  /\ kind = "value"
  /\ local = <<>>
  /\ at > i + 4
  /\ text[i + 1] = "nonuniform" /\ text[i + 2] \in DOMAIN Components /\ text[i + 3] \in DOMAIN Counts
  /\ text[i + 4] = ParenOpen
  /\ Itemised(slot, i, rest, Components[text[i + 2]], Counts[text[i + 3]], at - i - 5)

Stage(kind, slot, i, rest) ==
  \/ Started(kind, slot, i, rest) \/ Ending(kind, slot, i, rest) \/ Grouped(kind, slot, i, rest)
  \/ Bracing(kind, slot, i, rest) \/ Braced(kind, slot, i, rest) \/ Lining(kind, slot, i, rest)
  \/ Counting(kind, slot, i, rest) \/ UniformNext(kind, slot, i, rest)
  \/ Listing(kind, slot, i, rest) \/ Sizing(kind, slot, i, rest) \/ Sized(kind, slot, i, rest)
  \/ Numbering(kind, slot, i, rest)

(***************************************************************************)
(* Where the reader is in a file.                                          *)
(***************************************************************************)

\* What has to be read behind a block.
BoundaryRest == <<Goal("boundary")>> \o (<<Expect(BraceClose)>> \o <<Goal("file")>>)
Outer(block) ==
  CASE block = "file"  -> <<>>
    [] block = "patch" -> <<Expect(BraceClose)>> \o BoundaryRest
    [] OTHER           -> <<Expect(BraceClose)>> \o <<Goal("file")>>
Rest(block) == IF block = "file" THEN <<Goal("file")>> ELSE <<Goal(block)>> \o Outer(block)

AtHead(block, b, o) ==
  /\ goals = Rest(block)
  /\ local = <<>>
  /\ BlockAt(text, full, block, b, o, at)
  /\ FoundIn(text, full, found, patches, block, b, o, at, "none")

InEntry(block, b, o, i) ==
  /\ block # "boundary"
  /\ i \in 1 .. at - 1
  /\ text[i] \in Plain
  /\ block = "file" => text[i] \notin FileBlocks
  /\ Stage(Kind(block, text[i]), Slot(block, text[i]), i, Rest(block))
  /\ Going(text, i, at)
  /\ BlockAt(text, full, block, b, o, i)
  /\ FoundIn(text, full, found, patches, block, b, o, i, Slot(block, text[i]))

\* The block that an entry is.
Inner(block, key) == CASE block = "file" /\ key = "FoamFile"      -> "header"
                       [] block = "file" /\ key = "boundaryField" -> "boundary"
                       [] block = "boundary"                      -> "patch"
                       [] OTHER                                   -> "none"

\* The key of a block has been taken.
FreshIn(inner, block, b, o, i) ==
  CASE inner = "header"   -> /\ FileFound(text, full, found, patches, FileBefore(text, i), "object")
                             /\ found["object"] = Absent
    [] inner = "boundary" -> /\ FileFound(text, full, found, patches, FileBefore(text, i), "patches")
                             /\ patches = <<>>
    [] inner = "patch"    -> /\ FoundIn(text, full, found, patches, block, b, o, i, "none")
                             /\ found["name"] = Value("name", i, 0)
                             /\ \A s \in {"type", "value", "inlet"} : found[s] = Absent

Opening(block, b, o, i) ==
  LET inner == Inner(block, text[i])
  IN  /\ inner # "none"
      /\ goals = <<Expect(BraceOpen)>> \o Rest(inner)
      /\ local = <<>>
      /\ i = at - 1
      /\ text[i] \in Plain
      /\ BlockAt(text, full, block, b, o, i)
      /\ FreshIn(inner, block, b, o, i)

\* A block is at its closing brace.
Closing(block, b, o, i) ==
  LET inner == Inner(block, text[i])
  IN  /\ inner # "none"
      /\ goals = Outer(inner)
      /\ local = <<>>
      /\ at <= Len(text) /\ text[at] = BraceClose
      /\ BlockAt(text, full, inner, o, i, at)
      /\ IF inner = "patch"
         THEN /\ FileFound(text, full, found, patches, FileBefore(text, o), "patches")
              /\ patches = Append(PatchesAt(text, full, Before(text, o, i, Tokens)),
                                  [s \in PatchSlots |->
                                     IF s = "name" THEN Value("name", i, 0)
                                     ELSE PatchSays(text, full, Before(text, i, at, {}), s)])
         ELSE FoundIn(text, full, found, patches, inner, o, i, at, "none")

Places4 == {"file", "header", "boundary", "patch"}
Where == \E block \in Places4, b, o \in 0 .. Len(text) :
           \/ AtHead(block, b, o)
           \/ \E i \in 1 .. Len(text) : \/ InEntry(block, b, o, i)
                                        \/ Opening(block, b, o, i)
                                        \/ Closing(block, b, o, i)

FoundOK == found = [s \in FileSlots \cup PatchSlots |-> found[s]]

\* The inductive invariant of ReadAsWritten: where the reader is in the grammar.
WrittenOK == (mode = "reading" => Where /\ FoundOK) /\ ReadAsWritten
=============================================================================
