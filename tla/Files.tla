-------------------------------- MODULE Files --------------------------------
(***************************************************************************)
(* The filesystem and what it is loaded from, side by side: the tree of    *)
(* nodes (Vfs) and the archive in the initrd (Archive).  Here are the      *)
(* constants of the archive, with what is assumed of them, its variables   *)
(* and its properties.                                                     *)
(***************************************************************************)
EXTENDS Vfs

CONSTANTS WORD, DIGITS, Sizes, Names, LONG, Lengths, MaxFiles
VARIABLES loader, archive, phase, device, offset, nodes, got
Tar == INSTANCE Archive
tarVars == <<loader, archive, phase, device, offset, nodes, got>>

\* A header has room for the digits of a size, and a word for the size.
ASSUME TarAssumption ==
  /\ WORD \in Nat \ {0} /\ DIGITS \in Nat /\ MaxFiles \in Nat
  /\ \A size \in Sizes : size \in Nat /\ size < WORD /\ Tar!Rest(size)[DIGITS] = 0
  /\ Lengths \subseteq Nat

-----------------------------------------------------------------------------
\* Every file of the archive is found at its place (init_initrd,
\* tar_parse_filesystem).
LayoutRight == Tar!LayoutRight

\* A read gives the bytes of the file and no others (vfs_read, read).
ReadsRight == Tar!ReadsRight
=============================================================================
