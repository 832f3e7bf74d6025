---------------------------- MODULE VolumeFilter ----------------------------
(***************************************************************************)
(* Volume.Match and nameMatch (types/volume.go), the per-entity half of    *)
(* the filter engine that VolumeList and the docker VolumeList apply to    *)
(* every volume.  Strings are sequences of one-character strings.  A name  *)
(* filter key is a Go regular expression; regexp.MatchString is modelled   *)
(* by what it does on the fragment of RE2 built from literal characters,   *)
(* "." (any character) and "*" (repetition of the previous atom), with     *)
(* "(" standing for every key RE2 refuses to compile.                      *)
(*                                                                         *)
(* The module checks the code's Match against the contract of the spec     *)
(* (sections 4.2 and 8), stated in closed form, over every bounded input. *)
(***************************************************************************)
EXTENDS Naturals, Sequences, FiniteSets

CONSTANTS
    Letters,        \* literal characters of names and patterns
    MaxNameLen,     \* bound on volume name length
    MaxPatternLen,  \* bound on name filter key length
    Drivers,        \* driver strings
    LabelKeys,      \* label keys
    LabelValues     \* label values (the empty string included)

Meta == {".", "*", "("}

StringsOver(A, n) == UNION {[1 .. k -> A] : k \in 0 .. n}

\* VolumeCreate accepts any name, metacharacters included.
Names    == StringsOver(Letters \cup Meta, MaxNameLen) \ {<<>>}
Patterns == StringsOver(Letters \cup Meta, MaxPatternLen)
Labels   == UNION {[D -> LabelValues] : D \in SUBSET LabelKeys}

\* A volume as Match sees it.
Volume == [name : Names, driver : Drivers, labels : Labels]

-----------------------------------------------------------------------------
(* regexp.MatchString(key, name): compile the key; an error is returned   *)
(* for a "(" without ")", for "*" with nothing to repeat, and for "**".    *)
Compiles(p) ==
    /\ \A i \in 1 .. Len(p) : p[i] # "("
    /\ Len(p) > 0 => p[1] # "*"
    /\ \A i \in 1 .. Len(p) - 1 : ~(p[i] = "*" /\ p[i + 1] = "*")

AtomMatches(a, ch) == a = "." \/ a = ch

(* The pattern matches a prefix of s (the regexp is not anchored at the   *)
(* end): a backtracking matcher over atoms and starred atoms.             *)
RECURSIVE MatchHere(_, _), MatchStar(_, _, _)
MatchHere(p, s) ==
    CASE p = <<>> -> TRUE
      [] Len(p) >= 2 /\ p[2] = "*" -> MatchStar(p[1], SubSeq(p, 3, Len(p)), s)
      [] OTHER -> s # <<>> /\ AtomMatches(p[1], s[1]) /\ MatchHere(Tail(p), Tail(s))

MatchStar(a, rest, s) ==
    \/ MatchHere(rest, s)
    \/ s # <<>> /\ AtomMatches(a, s[1]) /\ MatchStar(a, rest, Tail(s))

(* Nor is it anchored at the start: some suffix of s begins with a match. *)
MatchString(p, s) == \E i \in 0 .. Len(s) : MatchHere(p, SubSeq(s, i + 1, Len(s)))

-----------------------------------------------------------------------------
(* Match results are [match, err] records, as the Go (bool, error) pair.  *)
Result(m, e) == [match |-> m, err |-> e]

(* nameMatch: exact equality is the fast path; otherwise the key is a     *)
(* regular expression, and one that does not compile is (false, err).     *)
NameMatch(v, key) ==
    IF v.name = key THEN Result(TRUE, FALSE)
    ELSE IF ~Compiles(key) THEN Result(FALSE, TRUE)
    ELSE Result(MatchString(key, v.name), FALSE)

(* Mutant: a label lookup that ignores whether the key is present, so a   *)
(* missing label reads as the empty string.                               *)
VolumeMatchIgnoringMissingLabel(v, typ, key, val) ==
    CASE typ = "name"   -> NameMatch(v, key)
      [] typ = "driver" -> Result(v.driver = key, FALSE)
      [] typ # "label"  -> Result(TRUE, FALSE)
      [] OTHER -> Result(IF key \in DOMAIN v.labels THEN v.labels[key] = val
                         ELSE val = <<>>, FALSE)

(* Volume.Match(typ, key, val).                                           *)
VolumeMatch(v, typ, key, val) ==
    CASE typ = "name"   -> NameMatch(v, key)
      [] typ = "driver" -> Result(v.driver = key, FALSE)
      [] typ # "label"  -> Result(TRUE, FALSE)
      [] OTHER -> Result(key \in DOMAIN v.labels /\ v.labels[key] = val, FALSE)

-----------------------------------------------------------------------------
(* The checked inputs: every bounded volume with every query of each      *)
(* filter type ("other" stands for any type a volume does not know).      *)
Queries ==
       [typ : {"name"}, key : Patterns, val : {<<>>}]
  \cup [typ : {"driver"}, key : Drivers, val : {<<>>}]
  \cup [typ : {"label"}, key : LabelKeys, val : LabelValues]
  \cup [typ : {"other"}, key : LabelKeys, val : LabelValues]

VARIABLES vol, query

vars == <<vol, query>>

Init == vol \in Volume /\ query \in Queries

Next == UNCHANGED vars

Spec == Init /\ [][Next]_vars

-----------------------------------------------------------------------------
(* Reference semantics of a compiling pattern: t is in its language when  *)
(* t splits into one block per atom, of length one for a plain atom and   *)
(* of any length for a starred one, every character matching its atom.   *)
Atoms(p) == SelectSeq(p, LAMBDA ch : ch # "*")
Starred(p, i) ==
    LET pos == CHOOSE j \in 1 .. Len(p) :
                   p[j] # "*" /\ Len(SelectSeq(SubSeq(p, 1, j), LAMBDA ch : ch # "*")) = i
    IN  pos < Len(p) /\ p[pos + 1] = "*"

\* The total length of the first i blocks.
RECURSIVE PrefixLen(_, _)
PrefixLen(k, i) == IF i = 0 THEN 0 ELSE k[i] + PrefixLen(k, i - 1)

InLanguage(p, t) ==
    LET as == Atoms(p) IN
    \E k \in [1 .. Len(as) -> 0 .. Len(t)] :
        /\ \A i \in 1 .. Len(as) : ~Starred(p, i) => k[i] = 1
        /\ PrefixLen(k, Len(as)) = Len(t)
        /\ \A i \in 1 .. Len(as), j \in 1 .. Len(t) :
              PrefixLen(k, i - 1) < j /\ j <= PrefixLen(k, i) => AtomMatches(as[i], t[j])

Substrings(s) == {SubSeq(s, i, j) : i \in 1 .. Len(s) + 1, j \in 0 .. Len(s)}

(* The contract of Match (spec 4.2 and 8): a name filter matches its exact *)
(* name, else a name containing a match of the expression, and a key that *)
(* is not a valid expression is an error; a driver filter is equality; a  *)
(* label filter needs the key present with that value; an unknown filter  *)
(* type always matches.  Volume.Match must agree on every input.          *)
MatchMeetsContract ==
    LET v == vol  k == query.key  val == query.val
        expected ==
          CASE query.typ = "name" ->
                 IF v.name = k THEN Result(TRUE, FALSE)
                 ELSE IF ~Compiles(k) THEN Result(FALSE, TRUE)
                 ELSE Result(\E t \in Substrings(v.name) : InLanguage(k, t), FALSE)
            [] query.typ = "driver" -> Result(v.driver = k, FALSE)
            [] query.typ = "label" ->
                 Result(\E l \in DOMAIN v.labels : l = k /\ v.labels[l] = val, FALSE)
            [] OTHER -> Result(TRUE, FALSE)
    IN  VolumeMatch(v, query.typ, k, val) = expected
=============================================================================
