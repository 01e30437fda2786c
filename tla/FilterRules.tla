----------------------------- MODULE FilterRules -----------------------------
(***************************************************************************)
(* What a list of filter rules means (internal/filter/filter.go), twice: *)
(* IsExcluded asks the gitignore matcher, in which the last matching rule*)
(* decides, and GenerateRcloneFilterFile writes the lines of an rclone   *)
(* filter, in which the first matching line decides.                     *)
(*                                                                       *)
(* A pattern is a path of components, each the set of the names it       *)
(* matches ("**" is not modelled); a file is the sequence of the names on*)
(* its path.  A rule is a pattern with four marks: "!" before it (neg),  *)
(* "/" before it (root), "/" after it (dir), and whether it is malformed.*)
(***************************************************************************)
EXTENDS Naturals, Sequences

CONSTANTS
  Names,    \* of files and directories
  Files,    \* the files of the mirror
  Control,  \* those named .syncignore
  Nested,   \* those below the root that bear the name of syncignore_path
  Globals   \* the global excludes, a sequence of rules

Rule == [neg : BOOLEAN, root : BOOLEAN, dir : BOOLEAN, bad : BOOLEAN,
         path : Seq(SUBSET Names)]

\* rebuildMerged: global rules first, then the project's.
Merged(rules) == Globals \o rules

\* How far down the path of f the pattern of r fits: at one depth only when
\* it is anchored, otherwise at any.
Fits(r, f, anchored) ==
  {k \in Len(r.path)..Len(f) :
    /\ anchored => k = Len(r.path)
    /\ \A i \in DOMAIN r.path : f[k - Len(r.path) + i] \in r.path[i]}

\* To gitignore a "/" at the beginning or within anchors a pattern.
Anchored(r) == r.root \/ Len(r.path) > 1

\* To gitignore a rule applies to a file that its pattern fits, or a directory
\* of which it fits.
Matches(r, f) ==
  ~r.bad /\ \E k \in Fits(r, f, Anchored(r)) : r.dir => k < Len(f)

\* IsExcluded.  The last match decides: some rule excludes f and no later
\* rule that matches f includes it again.
IsExcluded(rules, f) ==
  \/ f \in Control
  \/ \E i \in DOMAIN Merged(rules) :
       /\ Matches(Merged(rules)[i], f) /\ ~Merged(rules)[i].neg
       /\ \A j \in DOMAIN Merged(rules) :
            j > i /\ Matches(Merged(rules)[j], f) => ~Merged(rules)[j].neg

Excluded(rules) == {f \in Files : IsExcluded(rules, f)}

\* A global directory exclude goes to the top of the filter file.
Hoisted(i) == i <= Len(Globals) /\ Globals[i].dir /\ ~Globals[i].neg

\* Mutant of Before: the order of the merged rules is kept.
Unreversed(i, j) == \/ Hoisted(i) /\ ~Hoisted(j)
                    \/ (Hoisted(i) <=> Hoisted(j)) /\ i < j

\* The line of merged rule i stands before that of rule j: hoisted lines keep
\* their order, the others are reversed.
Before(i, j) == \/ Hoisted(i) /\ ~Hoisted(j)
                \/ Hoisted(i) /\ Hoisted(j) /\ i < j
                \/ ~Hoisted(i) /\ ~Hoisted(j) /\ i > j

\* toRcloneFilter passes the pattern on as it is.  To rclone only a "/" at the
\* beginning anchors it; "- d/**" is for the files below a directory, "- p" and
\* "+ p" are for the files p themselves, and "+ d/" is for no file.
LineMatches(r, f) ==
  /\ ~r.bad
  /\ \E k \in Fits(r, f, r.root) : IF r.dir THEN ~r.neg /\ k < Len(f) ELSE k = Len(f)

\* rclone on the generated file.  The first match decides: some line excludes
\* f and no line before it that matches f includes it; "+ **" ends the file.
RcloneExcludes(rules, f) ==
  \/ f \in Control \cup Nested
  \/ \E i \in DOMAIN Merged(rules) :
       /\ LineMatches(Merged(rules)[i], f) /\ ~Merged(rules)[i].neg
       /\ \A j \in DOMAIN Merged(rules) :
            Before(j, i) /\ LineMatches(Merged(rules)[j], f) => ~Merged(rules)[j].neg

\* The translation changes what a rule says of a file: a "/" within no longer
\* anchors it, "d" no longer covers the files below a directory d, "!d/"
\* includes none of them.
Mistranslates(r, f) ==
  /\ Matches(r, f) \/ LineMatches(r, f)
  /\ \/ Anchored(r) /\ ~r.root
     \/ r.dir /\ r.neg
     \/ ~r.dir /\ Len(f) \notin Fits(r, f, r.root)

Mistranslated(rules, f) == \E i \in DOMAIN Merged(rules) :
    Mistranslates(Merged(rules)[i], f)

\* A rule includes the file again below a global directory exclude.
Shadowed(rules, f) ==
  \E i, j \in DOMAIN Merged(rules) :
    /\ Hoisted(i) /\ Matches(Merged(rules)[i], f)
    /\ Merged(rules)[j].neg /\ Matches(Merged(rules)[j], f)

\* A full sync, which filters with the generated file, and everything else,
\* which asks IsExcluded, agree about every file, but for three cases: a rule
\* about the file whose meaning the translation changes, a rule that includes
\* the file below a global directory exclude, and a file below the root with
\* the name of a custom syncignore_path.
Agrees(rules) ==
  \A f \in Files \ Nested :
    \/ Mistranslated(rules, f) \/ Shadowed(rules, f)
    \/ IsExcluded(rules, f) <=> RcloneExcludes(rules, f)
=============================================================================
