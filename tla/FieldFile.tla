----------------------------- MODULE FieldFile -----------------------------
(***************************************************************************)
(* The reader of a field file (parse_field_file_reader of fields.rs) over  *)
(* a stream of tokens (TokenSource of dictionary.rs), one token at a time. *)
(*                                                                         *)
(* goals are what the functions that are being called have still to read,  *)
(* the innermost first; an action takes the token at hand for the first of *)
(* them.  open are the delimiters the lexer keeps, local those that a      *)
(* routine keeps which skips or joins tokens.  What is read goes to a      *)
(* local variable of the code and to its caller when the routine returns;  *)
(* here it is in its place at once, since an error loses all of it.        *)
(***************************************************************************)
EXTENDS Dictionary

CONSTANT MaxRetained      \* MAX_RETAINED_FIELD_VALUE_BYTES, in numbers

VARIABLES
  text,      \* the file
  full,      \* whether the values of lists are kept (FieldLoadPolicy)
  mode,      \* reading, done or refused; none without a file
  at,        \* the place of the next token
  open,      \* the delimiters that are open before it
  local,     \* those of the group or line that is being taken
  goals,     \* what has still to be read
  found,     \* the entries of the file, and of the patch that is being read
  patches,   \* the patches read
  skip       \* the entry that is or was last skipped: by which routine, and where its value is

reader == <<text, full, mode, at, open, local, goals, found, patches, skip>>

\* The values of the tokens that are counts, and those of which it is enough that they are finite.
Counts == [t \in {"0", "1", "2", "3", "9"} |->
             CASE t = "0" -> 0 [] t = "1" -> 1 [] t = "2" -> 2 [] t = "3" -> 3 [] t = "9" -> 9]
Numbers == DOMAIN Counts \cup {"-0.5"}
Components == [t \in {"List<scalar>", "List<vector>"} |-> IF t = "List<scalar>" THEN 1 ELSE 3]
Keywords == {"FoamFile", "class", "object", "dimensions", "internalField", "boundaryField", "type",
             "value", "inletValue", "uniform", "nonuniform"}
Ordinary == Keywords \cup Numbers \cup DOMAIN Components \cup {"word", "inf"}
Tokens == Structural \cup Ordinary \cup {"quoted", "fault"}
Plain == Ordinary \cup {"quoted"}

\* What a place of found holds: which kind of value, where it begins, its count, and how many
\* numbers of it were kept.
Value(kind, from, count) == [kind |-> kind, from |-> from, count |-> count, kept |-> 0]
Absent == Value("absent", 0, 0)
FileSlots == {"object", "dimensions", "internal"}
PatchSlots == {"name", "type", "value", "inlet"}
NothingFound == [s \in FileSlots \cup PatchSlots |-> Absent]
NoSkip == [by |-> "none", from |-> 0]

Goal(rule) == [rule |-> rule, of |-> "none"]
GoalOf(rule, of) == [rule |-> rule, of |-> of]
Expect(t) == GoalOf("expect", t)

Ready(file, keep, m) ==
  /\ text = file /\ full = keep
  /\ mode = m
  /\ at = 1 /\ open = <<>> /\ local = <<>>
  /\ goals = <<Goal("file")>>
  /\ found = NothingFound
  /\ patches = <<>>
  /\ skip = NoSkip

Begin(file, keep) == Ready(file, keep, "reading")
NoFile == Ready(<<>>, FALSE, "none")

\* The reading is over.
Close == /\ text' = <<>> /\ full' = FALSE
         /\ mode' = "none"
         /\ at' = 1 /\ open' = <<>> /\ local' = <<>>
         /\ goals' = <<Goal("file")>>
         /\ found' = NothingFound
         /\ patches' = <<>>
         /\ skip' = NoSkip
-----------------------------------------------------------------------------
Peek == TokenAt(text, at)
Rule == Head(goals).rule
Of == Head(goals).of

\* next_required: the token is taken.
TakeToken == /\ at' = at + 1
             /\ open' = Track(open, Peek)
             /\ UNCHANGED <<text, full, mode>>

Leave == UNCHANGED <<text, full, mode, at, open>>

\* The first goal is reached, by way of others.
Go(first) == goals' = first \o Tail(goals)
Forget(slots) == found' = [s \in DOMAIN found |-> IF s \in slots THEN Absent ELSE found[s]]

\* The bytes that a list of so many tuples has after its opener at least (nonuniform_layout),
\* and with one of them counted twice.
EncodedTwice(count, components) ==
  count * components + (IF components = 3 THEN 2 * count ELSE 0) + 3
Encoded(count, components) ==
  count * components + (IF components = 3 THEN 2 * count ELSE 0) + 2

\* Whether the rest of the file can hold the list, and a kept list is within its limit.
ListFits(list) ==
  /\ BytesAfter(text, at) >= Encoded(list.count, list.components)
  /\ full => list.count * list.components <= MaxRetained

\* The goals of the items of a list: numbers, or tuples of three of them.
Items(count, components, number) ==
  IF components = 1 THEN [i \in 1 .. count |-> number]
  ELSE [i \in 1 .. 5 * count |-> CASE i % 5 = 1 -> Expect(ParenOpen)
                                   [] i % 5 = 0 -> Expect(ParenClose)
                                   [] OTHER     -> number]

\* What each rule can use; nothing else is read on over.
Usable ==
  CASE Rule = "file"       -> Plain \cup {"end"}
    [] Rule = "header"     -> Plain \cup {BraceClose}
    [] Rule = "boundary"   -> Plain \cup {BraceClose}
    [] Rule = "patch"      -> Plain \cup {BraceClose}
    [] Rule = "expect"     -> {Of}
    [] Rule = "semicolon?" -> Tokens \cup {"end"}
    [] Rule = "scalar"     -> Ordinary
    [] Rule = "exponents"  -> (IF Of = 7 THEN {} ELSE Numbers)
                                \cup (IF Of \in {5, 7} THEN {BracketClose} ELSE {})
    [] Rule = "value"      -> Plain
    [] Rule = "uniform"    -> Plain \cup Openers
    [] Rule = "list"       -> DOMAIN Components
    [] Rule = "count"      -> DOMAIN Counts
    [] Rule = "opener"     -> IF ListFits(Of) THEN {ParenOpen} ELSE {}
    [] Rule = "number"     -> Numbers
    [] Rule = "exact"      -> Plain \cup Openers
    [] Rule = "line"       -> Plain \cup Openers
    [] Rule = "group"      -> Tokens
    [] Rule = "rest"       -> IF local = <<>> THEN Tokens \ Closers ELSE Tokens

\* The lexer has a token for the first goal.
Accepts == /\ Lexes(open, Peek)
           /\ Peek \in Usable
           /\ Rule \in {"group", "rest"} => Tracks(local, Peek)

Reading(rule) == mode = "reading" /\ Rule = rule /\ Accepts

\* latch: the first error ends the reading, since every caller passes it on.
Refuse == /\ mode = "reading"
          /\ ~Accepts
          /\ mode' = "refused"
          /\ UNCHANGED <<text, full, at, open, local, goals, found, patches, skip>>
-----------------------------------------------------------------------------
(***************************************************************************)
(* The loops over entries.                                                 *)
(***************************************************************************)

\* An entry that is not known: its key is taken, its value skipped.
Unknown(rule) == /\ TakeToken
                 /\ Go(<<Goal(rule)>> \o <<Head(goals)>>)
                 /\ skip' = [by |-> rule, from |-> at + 1]
                 /\ UNCHANGED <<local, found, patches>>

\* An entry whose value is read by further goals.
Entry(then) == /\ TakeToken
               /\ Go(then \o <<Head(goals)>>)
               /\ skip' = NoSkip
               /\ UNCHANGED <<local, patches>>

\* parse_field_file_reader.  A second FoamFile or boundaryField replaces all of the first.
ReadFile ==
  /\ Reading("file")
  /\ \/ Peek = "end" /\ mode' = "done"
        /\ UNCHANGED <<text, full, at, open, local, goals, found, patches, skip>>
     \/ /\ Peek = "FoamFile"
        /\ Entry(<<Expect(BraceOpen), Goal("header"), Expect(BraceClose)>>)
        /\ Forget({"object"})
     \/ /\ Peek = "dimensions"
        /\ Entry(<<Expect(BracketOpen), GoalOf("exponents", 0)>>)
        /\ UNCHANGED found
     \/ Peek = "internalField" /\ Entry(<<GoalOf("value", "internal")>>) /\ UNCHANGED found
     \/ /\ Peek = "boundaryField"
        /\ TakeToken
        /\ Go(<<Expect(BraceOpen), Goal("boundary"), Expect(BraceClose), Head(goals)>>)
        /\ patches' = <<>> /\ skip' = NoSkip
        /\ UNCHANGED <<local, found>>
     \/ /\ Peek \in Plain \ {"FoamFile", "dimensions", "internalField", "boundaryField"}
        /\ Unknown("exact")

\* A loop ends before its closing brace.
EndLoop(then) == /\ Peek = BraceClose
                 /\ Leave
                 /\ Go(<<>>)
                 /\ patches' = then
                 /\ skip' = NoSkip
                 /\ UNCHANGED <<local, found>>

\* parse_foam_file.
ReadHeader ==
  /\ Reading("header")
  /\ \/ EndLoop(patches)
     \/ Peek \in {"class", "object"} /\ Entry(<<GoalOf("scalar", Peek), Expect(Semicolon)>>)
        /\ UNCHANGED found
     \/ Peek \in Plain \ {"class", "object"} /\ Unknown("exact")

\* parse_boundary_field: any token that is not structural names a patch.
ReadBoundary ==
  /\ Reading("boundary")
  /\ \/ EndLoop(patches)
     \/ /\ Peek \in Plain
        /\ Entry(<<Expect(BraceOpen), Goal("patch"), Expect(BraceClose)>>)
        /\ found' = [s \in DOMAIN found |-> CASE s = "name" -> Value("name", at, 0)
                                              [] s \in PatchSlots \ {"name"} -> Absent
                                              [] OTHER -> found[s]]

\* parse_boundary_patch.
ReadPatch ==
  /\ Reading("patch")
  /\ \/ EndLoop(Append(patches, [s \in PatchSlots |-> found[s]]))
     \/ Peek = "type" /\ Entry(<<GoalOf("scalar", "type"), Expect(Semicolon)>>) /\ UNCHANGED found
     \/ Peek = "value" /\ Entry(<<GoalOf("value", "value")>>) /\ UNCHANGED found
     \/ Peek = "inletValue" /\ Entry(<<GoalOf("value", "inlet")>>) /\ UNCHANGED found
     \/ Peek \in Plain \ {"type", "value", "inletValue"} /\ Unknown("line")
-----------------------------------------------------------------------------
(***************************************************************************)
(* Entries that are read.                                                  *)
(***************************************************************************)

\* expect_structural and expect_current_structural.
ReadExpected == /\ Reading("expect")
                /\ TakeToken /\ Go(<<>>)
                /\ UNCHANGED <<local, found, patches, skip>>

\* expect_optional.
ReadOptional == /\ Reading("semicolon?")
                /\ IF Peek = Semicolon THEN TakeToken ELSE Leave
                /\ Go(<<>>)
                /\ UNCHANGED <<local, found, patches, skip>>

Keep(slot, value) == found' = [found EXCEPT ![slot] = value]

\* take_scalar_entry, whose semicolon is the next goal; the class is of no further use.
ReadScalar == /\ Reading("scalar")
              /\ TakeToken /\ Go(<<>>)
              /\ IF Of = "class" THEN UNCHANGED found ELSE Keep(Of, Value("word", at, 0))
              /\ UNCHANGED <<local, patches, skip>>

\* parse_dimensions: five exponents or seven.
ReadExponent ==
  /\ Reading("exponents")
  /\ \/ /\ Peek \in Numbers
        /\ TakeToken /\ Go(<<GoalOf("exponents", Of + 1)>>)
        /\ UNCHANGED <<local, found, patches, skip>>
     \/ /\ Peek = BracketClose
        /\ TakeToken /\ Go(<<Expect(Semicolon)>>)
        /\ Keep("dimensions", Value("exponents", at - Of, Of))
        /\ UNCHANGED <<local, patches, skip>>

\* parse_field_value.
ReadValue ==
  /\ Reading("value")
  /\ TakeToken
  /\ \/ Peek = "uniform" /\ Go(<<Goal("uniform"), Expect(Semicolon)>>)
        /\ Keep(Of, Value("uniform", at + 1, 0))
     \/ Peek = "nonuniform" /\ Go(<<GoalOf("list", Of)>>) /\ UNCHANGED found
     \/ Peek \in Plain \ {"uniform", "nonuniform"} /\ Go(<<Goal("rest")>>)
        /\ Keep(Of, Value("other", at, 0))
  /\ UNCHANGED <<local, patches, skip>>

\* read_uniform_value: one token or one group.
ReadUniform ==
  /\ Reading("uniform")
  /\ TakeToken
  /\ \/ Peek \in Plain /\ Go(<<>>) /\ UNCHANGED local
     \/ Peek \in Openers /\ Go(<<Goal("group")>>) /\ local' = <<Peek>>
  /\ UNCHANGED <<found, patches, skip>>

\* parse_nonuniform: the type of the list and its count.
ReadList == /\ Reading("list")
            /\ TakeToken
            /\ Go(<<GoalOf("count", [slot |-> Of, components |-> Components[Peek]])>>)
            /\ UNCHANGED <<local, found, patches, skip>>

ReadCount == /\ Reading("count")
             /\ TakeToken
             /\ Go(<<GoalOf("opener", [slot |-> Of.slot, components |-> Of.components,
                                       count |-> Counts[Peek]])>>)
             /\ UNCHANGED <<local, found, patches, skip>>

\* The list begins: it can be as long as its count says.
ReadOpener ==
  /\ Reading("opener")
  /\ TakeToken
  /\ Go(Items(Of.count, Of.components, GoalOf("number", Of.slot))
          \o <<Expect(ParenClose), Expect(Semicolon)>>)
  /\ Keep(Of.slot, Value("nonuniform", at - 2, Of.count))
  /\ UNCHANGED <<local, patches, skip>>

\* take_finite_numeric; only the full policy keeps it.
ReadNumber == /\ Reading("number")
              /\ TakeToken /\ Go(<<>>)
              /\ Keep(Of, [found[Of] EXCEPT !.kept = IF full THEN @ + 1 ELSE 0])
              /\ UNCHANGED <<local, patches, skip>>
-----------------------------------------------------------------------------
(***************************************************************************)
(* Entries that are skipped.                                               *)
(***************************************************************************)

\* discard_exact_value_or_block: one token or one group, and a semicolon that only a block in
\* braces can do without.
SkipFirstOfExact ==
  /\ Reading("exact")
  /\ TakeToken
  /\ \/ Peek \in Plain /\ Go(<<Expect(Semicolon)>>) /\ UNCHANGED local
     \/ /\ Peek \in Openers
        /\ Go(<<Goal("group"), IF Peek = BraceOpen THEN Goal("semicolon?") ELSE Expect(Semicolon)>>)
        /\ local' = <<Peek>>
  /\ UNCHANGED <<found, patches, skip>>

\* discard_semicolon_terminated_value_or_block: a block, or anything up to a semicolon.
SkipFirstOfLine ==
  /\ Reading("line")
  /\ TakeToken
  /\ Go(IF Peek = BraceOpen THEN <<Goal("group"), Goal("semicolon?")>> ELSE <<Goal("rest")>>)
  /\ local' = Track(<<>>, Peek)
  /\ UNCHANGED <<found, patches, skip>>

\* The loop over a group, up to its own closing delimiter.
TakeGroup == /\ Reading("group")
             /\ TakeToken
             /\ local' = Track(local, Peek)
             /\ IF Track(local, Peek) = <<>> THEN Go(<<>>) ELSE UNCHANGED goals
             /\ UNCHANGED <<found, patches, skip>>

\* The loop over a line; in read_other_value the tokens are joined.
TakeRest == /\ Reading("rest")
            /\ TakeToken
            /\ local' = Track(local, Peek)
            /\ IF local = <<>> /\ Peek = Semicolon THEN Go(<<>>) ELSE UNCHANGED goals
            /\ UNCHANGED <<found, patches, skip>>

Read == \/ ReadFile \/ ReadHeader \/ ReadBoundary \/ ReadPatch
        \/ ReadExpected \/ ReadOptional \/ ReadScalar \/ ReadExponent
        \/ ReadValue \/ ReadUniform \/ ReadList \/ ReadCount \/ ReadOpener
        \/ ReadNumber
        \/ SkipFirstOfExact \/ SkipFirstOfLine \/ TakeGroup \/ TakeRest
        \/ Refuse
=============================================================================
