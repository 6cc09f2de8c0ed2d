---------------------------- MODULE FieldGrammar ----------------------------
(***************************************************************************)
(* What a field file says, written down without reading it from left to    *)
(* right: by which delimiters match, where its entries end and what each   *)
(* of them has to be.  The reader and the routines that skip are compared  *)
(* with it.  file is the text, keep whether values of lists are kept.      *)
(***************************************************************************)
EXTENDS FieldFile

\* The delimiters that are open before place i, by number alone.
Level(file, i) == Cardinality({j \in 1 .. i - 1 : file[j] \in Openers})
                    - Cardinality({j \in 1 .. i - 1 : file[j] \in Closers})

Least(places) == IF places = {} THEN 0 ELSE CHOOSE i \in places : \A j \in places : i <= j

\* The place of the delimiter that closes the one at i.
Partner(file, i) == Least({j \in i + 1 .. Len(file) : Level(file, j + 1) = Level(file, i)})

\* The file consists of tokens, in groups that nest and not too deep.
Whole(file) ==
  /\ \A i \in 1 .. Len(file) : file[i] # "fault" /\ Level(file, i + 1) \in 0 .. MaxNesting
  /\ Level(file, Len(file) + 1) = 0
  /\ \A i \in 1 .. Len(file) :
       file[i] \in Openers => <<file[i], file[Partner(file, i)]>> \in Matching

\* The end of an entry whose key is at i: that of its block, or of its line, which does not go
\* on behind the block the entry is in.  A block that is read has no semicolon after it, one
\* that is skipped may have.
LineStop(file, i) ==
  Least({j \in i + 1 .. Len(file) : /\ file[j] = Semicolon
                                    /\ Level(file, j) = Level(file, i)
                                    /\ \A k \in i .. j : Level(file, i) <= Level(file, k)})
BlockStop(file, i, read) ==
  LET brace == Partner(file, i + 1)
  IN  IF brace # 0 /\ ~read /\ TokenAt(file, brace + 1) = Semicolon THEN brace + 1 ELSE brace
Block(file, i) == TokenAt(file, i + 1) = BraceOpen
EntryEnd(file, i, read) ==
  IF Block(file, i) THEN BlockStop(file, i, read) ELSE LineStop(file, i)

\* The places of the keys from i to the end of their block at last: those of entries that end.
Keys(file, i, last, blocks) ==
  LET from[k \in Nat] ==
        LET end == EntryEnd(file, k, file[k] \in blocks)
        IN  IF k > last THEN {} ELSE {k} \cup IF end = 0 THEN {} ELSE from[end + 1]
  IN  from[i]

FileBlocks == {"FoamFile", "boundaryField"}
FileKeys(file) == Keys(file, 1, Len(file), FileBlocks)
KeysIn(file, i, blocks) == Keys(file, i + 2, Partner(file, i + 1) - 1, blocks)
-----------------------------------------------------------------------------
(***************************************************************************)
(* What an entry has to be, by its key and the block it is in.             *)
(***************************************************************************)

\* The last place of the value of an entry whose key is at i, without its semicolon.
To(file, i, read) ==
  LET end == EntryEnd(file, i, read) IN IF file[end] = Semicolon THEN end - 1 ELSE end

\* An entry that ends, with a value.
Ended(file, i) == EntryEnd(file, i, FALSE) # 0 /\ To(file, i, FALSE) > i

Word(file, a, b) == a = b /\ file[a] \in Ordinary
OneOrGroup(file, a, b) == \/ a = b /\ file[a] \in Plain
                          \/ a < b /\ file[a] \in Openers /\ Partner(file, a) = b

Exponents(file, a, b) == /\ file[a] = BracketOpen /\ file[b] = BracketClose /\ b - a - 1 \in {5, 7}
                         /\ \A j \in a + 1 .. b - 1 : file[j] \in Numbers

\* The places of the items of a list; a tuple of three with its delimiters takes five.
Places(count, components) == IF components = 1 THEN count ELSE 5 * count

\* A list: as many numbers or tuples of three as it says, and not too many to be kept.
ListOf(file, keep, a, b) ==
  /\ b >= a + 4
  /\ file[a + 1] \in DOMAIN Components /\ file[a + 2] \in DOMAIN Counts
  /\ LET c == Components[file[a + 1]]
         n == Counts[file[a + 2]]
     IN  /\ keep => n * c <= MaxRetained
         /\ file[a + 3] = ParenOpen /\ b = a + 4 + Places(n, c) /\ file[b] = ParenClose
         /\ \A j \in 1 .. Places(n, c) :
              LET t == file[a + 3 + j]
              IN  IF c = 1 \/ j % 5 \in 2 .. 4 THEN t \in Numbers
                  ELSE t = IF j % 5 = 1 THEN ParenOpen ELSE ParenClose

FieldValue(file, keep, a, b) ==
  CASE file[a] = "uniform"    -> a < b /\ OneOrGroup(file, a + 1, b)
    [] file[a] = "nonuniform" -> ListOf(file, keep, a, b)
    [] OTHER                  -> file[a] \in Plain

Kind(block, key) ==
  CASE block = "file" /\ key = "internalField"            -> "value"
    [] block = "file" /\ key = "dimensions"               -> "exponents"
    [] block = "header" /\ key \in {"class", "object"}    -> "word"
    [] block = "patch" /\ key = "type"                    -> "word"
    [] block = "patch" /\ key \in {"value", "inletValue"} -> "value"
    [] block = "patch" /\ key \notin {"type", "value", "inletValue"} -> "line"
    [] OTHER                                              -> "exact"

IsA(kind, file, keep, a, b) ==
  CASE kind = "value"     -> FieldValue(file, keep, a, b)
    [] kind = "exponents" -> Exponents(file, a, b)
    [] kind = "word"      -> Word(file, a, b)
    [] kind = "exact"     -> OneOrGroup(file, a, b)
    [] kind = "line"      -> TRUE

ValidEntry(file, keep, i, block) ==
  /\ file[i] \in Plain
  /\ Ended(file, i)
  /\ IsA(Kind(block, file[i]), file, keep, i + 1, To(file, i, FALSE))

ValidHeader(file, keep, i) ==
  Block(file, i) /\ \A j \in KeysIn(file, i, {}) : ValidEntry(file, keep, j, "header")

ValidPatch(file, keep, i) ==
  /\ file[i] \in Plain
  /\ Block(file, i)
  /\ \A j \in KeysIn(file, i, {}) : ValidEntry(file, keep, j, "patch")

ValidBoundary(file, keep, i) ==
  Block(file, i) /\ \A j \in KeysIn(file, i, Tokens) : ValidPatch(file, keep, j)

ValidFileEntry(file, keep, i) ==
  CASE file[i] = "FoamFile"      -> ValidHeader(file, keep, i)
    [] file[i] = "boundaryField" -> ValidBoundary(file, keep, i)
    [] OTHER                     -> ValidEntry(file, keep, i, "file")

Valid(file, keep) == Whole(file) /\ \A i \in FileKeys(file) : ValidFileEntry(file, keep, i)
-----------------------------------------------------------------------------
(***************************************************************************)
(* What the entries say that have their keys at these places.              *)
(***************************************************************************)

\* Of several entries with one key the last counts.
Latest(file, keys, key) ==
  LET of == {i \in keys : file[i] = key}
  IN  IF of = {} THEN 0 ELSE CHOOSE i \in of : \A j \in of : j <= i

ValueAt(file, keep, i) ==
  LET a == i + 1
  IN  CASE i = 0 -> Absent
        [] i # 0 /\ file[a] = "uniform" -> Value("uniform", a + 1, 0)
        [] i # 0 /\ file[a] = "nonuniform" ->
             LET n == Counts[file[a + 2]]
             IN  [Value("nonuniform", a + 1, n) EXCEPT
                    !.kept = IF keep THEN n * Components[file[a + 1]] ELSE 0]
        [] OTHER -> Value("other", a, 0)

WordAt(i) == IF i = 0 THEN Absent ELSE Value("word", i + 1, 0)

ExponentsAt(file, i) ==
  IF i = 0 THEN Absent ELSE Value("exponents", i + 2, To(file, i, FALSE) - i - 2)

Says(file, keep, keys, slot) ==
  LET header == Latest(file, keys, "FoamFile")
  IN  CASE slot = "internal"   -> ValueAt(file, keep, Latest(file, keys, "internalField"))
        [] slot = "object"     -> IF header = 0 THEN Absent
                                  ELSE WordAt(Latest(file, KeysIn(file, header, {}), "object"))
        [] slot = "dimensions" -> ExponentsAt(file, Latest(file, keys, "dimensions"))

PatchSays(file, keep, keys, slot) ==
  CASE slot = "type"  -> WordAt(Latest(file, keys, "type"))
    [] slot = "value" -> ValueAt(file, keep, Latest(file, keys, "value"))
    [] slot = "inlet" -> ValueAt(file, keep, Latest(file, keys, "inletValue"))

Patch(file, keep, i) ==
  [s \in PatchSlots |-> IF s = "name" THEN Value("name", i, 0)
                        ELSE PatchSays(file, keep, KeysIn(file, i, {}), s)]

\* The patches in the order of their names in the file.
PatchesAt(file, keep, places) ==
  LET nth(n) == Least({i \in places : Cardinality({j \in places : j <= i}) = n})
  IN  [n \in 1 .. Cardinality(places) |-> Patch(file, keep, nth(n))]

PatchesSaid(file, keep, keys) ==
  LET boundary == Latest(file, keys, "boundaryField")
  IN  PatchesAt(file, keep, IF boundary = 0 THEN {} ELSE KeysIn(file, boundary, Tokens))
-----------------------------------------------------------------------------
(***************************************************************************)
(* Properties.                                                             *)
(***************************************************************************)

\* A file is read if it is one, and then all that the reader has of it is what it says: nothing
\* inside an entry that is skipped is taken for an entry, the last of several counts, no list is
\* refused for its length that is there, and none is kept that is not as long as it says
\* (parse_field_file_reader).
ReadAsWritten ==
  /\ mode = "refused" => ~Valid(text, full)
  /\ mode = "done" => /\ Valid(text, full)
                      /\ \A s \in FileSlots : found[s] = Says(text, full, FileKeys(text), s)
                      /\ patches = PatchesSaid(text, full, FileKeys(text))

\* Where the reader of a stream skips an entry, a cursor over the same tokens skips the same,
\* although the one has taken tokens before it finds an error and the other looks first: a key
\* that one reader of a case ignores hides the same text from all of them
\* (discard_exact_value_or_block, skip_exact_value_or_block).
SkipsAgree ==
  LET place   == IF skip.by = "exact" THEN SkipExact(text, skip.from) ELSE SkipLine(text, skip.from)
      skipped == Rule \in {"file", "header", "patch"}
  IN  Whole(text) /\ skip.by # "none" =>
        /\ skipped => place = at
        /\ mode = "refused" /\ ~skipped => place = 0
=============================================================================
