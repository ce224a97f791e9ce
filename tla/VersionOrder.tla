----------------------------- MODULE VersionOrder -----------------------------
(***************************************************************************)
(* Version (src/Version.cpp): what parse() makes of a text and which of    *)
(* two versions is the older one.                                          *)
(*                                                                         *)
(* A text is its fields between the dots, up to the first "-", and what    *)
(* follows that: pre is 0 when nothing follows, and otherwise the place of *)
(* the suffix among all suffixes in the order of QString::compare(), in    *)
(* which "rc.10" comes before "rc.9".                                      *)
(***************************************************************************)
EXTENDS Integers, Sequences

\* A field toInt() cannot read, such as "", "x" or the "3+b" of "1.2.3+b".
Junk == -1

Text == [fields: Seq(Nat \cup {Junk}), pre: Nat]

isNumber(text, i) == i \in DOMAIN text.fields /\ text.fields[i] # Junk
toInt(text, i) == IF isNumber(text, i) THEN text.fields[i] ELSE 0

parse(text) ==
    [major |-> toInt(text, 1), minor |-> toInt(text, 2), patch |-> toInt(text, 3),
     pre |-> text.pre, valid |-> isNumber(text, 1)]

\* Mutant: a pre-release comes after the stable version.
comparePre(a, b) ==
    IF a.pre = b.pre THEN 0 ELSE IF a.pre < b.pre THEN -1 ELSE 1

\* The same core: the stable version wins, two suffixes compare as texts.
compareSuffix(a, b) ==
    CASE a.pre = b.pre               -> 0
      [] a.pre # b.pre /\ b.pre = 0  -> -1
      [] a.pre # b.pre /\ a.pre = 0  -> 1
      [] OTHER                       -> IF a.pre < b.pre THEN -1 ELSE 1

sign(m, n) == IF m < n THEN -1 ELSE 1

compare(a, b) ==
    IF a.major # b.major THEN sign(a.major, b.major)
    ELSE IF a.minor # b.minor THEN sign(a.minor, b.minor)
    ELSE IF a.patch # b.patch THEN sign(a.patch, b.patch)
    ELSE compareSuffix(a, b)

isNewer(a, b) == compare(a, b) > 0
=============================================================================
