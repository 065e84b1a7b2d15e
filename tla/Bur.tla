-------------------------------- MODULE Bur --------------------------------
(***************************************************************************)
(* The .bur archive of stdlib/runtime/buraaq_std.c: a magic number, then   *)
(* entries of a name and its data.  It ends where the file ends: there is  *)
(* no digest and no count, so a prefix that stops between two entries      *)
(* reads as an archive of its own, and one that stops inside an entry as   *)
(* the entries before it.                                                  *)
(*                                                                         *)
(* Data is the number of the build it comes from, or Altered.              *)
(***************************************************************************)
EXTENDS Integers, Sequences

Altered == -1
Torn == 0     \* data whose end never reached the disk, or a mixture of two

Entry(name, of) == [name |-> name, of |-> of]
NoFile == [there |-> FALSE, magic |-> FALSE, entries |-> <<>>]
Empty == [NoFile EXCEPT !.there = TRUE]     \* just opened for writing

\* An archive of a build, with its buraaq.pkg if the project has one.
Packed(build, pkg) ==
  [there |-> TRUE, magic |-> TRUE,
   entries |-> <<Entry("bin", build)>> \o IF pkg THEN <<Entry("pkg", build)>> ELSE <<>>]

\* What is left of a file when only a part of it was written or sent.
Cuts(a) ==
  {Empty} \cup
  {[a EXCEPT !.entries = SubSeq(@, 1, n)] : n \in 0 .. Len(a.entries) - 1}

\* The file with one entry's data changed on the way.
Alterations(a) ==
  {[a EXCEPT !.entries[i].of = Altered] : i \in DOMAIN a.entries}

\* The archive with one entry's data mixed with what another one writes.
Mixtures(a) ==
  {[a EXCEPT !.entries[i].of = Torn] : i \in DOMAIN a.entries}
=============================================================================
