-------------------------- MODULE MCFieldOwnership --------------------------
(***************************************************************************)
(* FieldLoading with three fields: enough for U, p and one more of either  *)
(* name, in either region, before, between or after them; and with files   *)
(* that are one edit of one token away from six that are well formed.      *)
(***************************************************************************)
EXTENDS FieldLoading

Header == <<"FoamFile", "{", "class", "word", ";", "object", "word", ";", "}">>

Written == {
  Header \o <<"dimensions", "[", "0", "1", "-0.5", "0", "0", "]", ";",
              "internalField", "uniform", "(", "1", "0", "0", ")", ";">>,
  <<"dimensions", "[", "0", "1", "0", "0", "0", "0", "0", "]", ";",
    "internalField", "uniform", "0", ";", "internalField", "nonuniform", "List<scalar>", "1",
    "(", "2", ")", ";">>,
  <<"boundaryField", "{", "word", "{", "type", "word", ";", "value", "nonuniform",
    "List<vector>", "1", "(", "(", "1", "-0.5", "0", ")", ")", ";", "}", "}">>,
  <<"word", "{", "internalField", "[", "word", "]", ";", "}", "internalField", "word", "(", "word", ")",
    ";", "word", "(", "1", ")", ";">>,
  <<"boundaryField", "{", "word", "{", "word", "word", "(", "value", ")", "1", ";", "word", "{",
    "type", "}", ";", "inletValue", "uniform", "quoted", ";", "}", "quoted", "{", "}", "}">>,
  <<"boundaryField", "{", "word", "{", "value", "word", ";", "}",
    "quoted", "{", "type", "word", ";", "}", "}">> }

\* Tokens of every class.
Samples == {"{", "}", "(", ")", "[", "]", ";", "quoted", "fault", "word", "inf", "2", "uniform",
            "internalField", "value", "type"}

Replaced(f) == {[f EXCEPT ![i] = t] : i \in DOMAIN f, t \in Samples}
Inserted(f) == {SubSeq(f, 1, i) \o <<t>> \o SubSeq(f, i + 1, Len(f)) : i \in 0 .. Len(f), t \in Samples}
Deleted(f)  == {SubSeq(f, 1, i - 1) \o SubSeq(f, i + 1, Len(f)) : i \in DOMAIN f}
Swapped(f)  == {[f EXCEPT ![i] = f[i + 1], ![i + 1] = f[i]] : i \in 1 .. Len(f) - 1}
CutOff(f)   == {SubSeq(f, 1, i) : i \in 0 .. Len(f) - 1}

\* Lists with every count, of which not all fit, and some of which are too long to be kept.
Lists == {<<"internalField", "nonuniform", t, n, "(">> \o rest :
            t \in {"List<scalar>", "List<vector>"}, n \in {"0", "1", "2", "3", "9"},
            rest \in {<<")", ";">>, <<"1", ")", ";">>, <<"1", "2", ")", ";">>, <<"0", "1", "2", ")", ";">>,
                      <<"(", "1", "2", "3", ")", ")", ";">>,
                      <<"(", "1", "2", "3", ")", "(", "0", "0", "0", ")", ")", ";">>}}

\* Groups up to one level too deep, in an unknown entry and in one that is read.
Deep(n) == [i \in 1 .. n |-> "("] \o <<"word">> \o [i \in 1 .. n |-> ")"] \o <<";">>
Nested == {<<"word">> \o Deep(n) : n \in 1 .. 5}
          \cup {<<"boundaryField", "{", "word", "{", "value", "word">> \o Deep(n) \o <<"}", "}">> : n \in 1 .. 3}

MCTexts == Lists \cup Nested \cup Written
           \cup UNION {Replaced(f) \cup Inserted(f) \cup Deleted(f) \cup Swapped(f) \cup CutOff(f) :
                         f \in Written}
=============================================================================
