------------------------------- MODULE MCVfs --------------------------------
(* Two parts that share no state, checked in one run: a behaviour is one of  *)
(* the tree of nodes (Vfs), or of the archive in the initrd (Archive).       *)
(*                                                                           *)
(* Heaps that run out at every point of the start, and one that leaves room  *)
(* for an archive of two files, a directory to mount it on and more.         *)
EXTENDS Files

CONSTANTS a, b

MCHeaps == 0..9 \cup {15}
MCFiles == <<a>>

\* Around the blocks of 512 bytes, and close to a word.
MCSizes == {0, 1, 511, 512, 513, 1024}
MCLengths == MCSizes \cup {WORD - 512, WORD - 1}

VARIABLE part
mcvars == <<vars, tarVars, part>>

\* The archive of a behaviour of the tree is one that nobody reads.
MCInit ==
  /\ Init
  /\ part \in {"tree", "archive"}
  /\ IF part = "archive" THEN heap = 0 /\ Tar!Init
     ELSE /\ loader = 0 /\ archive = 0 /\ phase = "wild" /\ device = 0
          /\ offset = 0 /\ nodes = 0 /\ got = Tar!NONE

MCNext ==
  /\ UNCHANGED part
  /\ \/ part = "tree" /\ Next /\ UNCHANGED tarVars
     \/ part = "archive" /\ Tar!Next /\ UNCHANGED vars

MCSpec == MCInit /\ [][MCNext]_mcvars
=============================================================================
