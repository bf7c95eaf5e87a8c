-------------------------------- MODULE Klibc --------------------------------
(***************************************************************************)
(* The parts of the library that share no state, side by side: lists       *)
(* (DynList), paths that are cut into names (Strtok), numbers and messages *)
(* that are printed (Format) and memory (Memory).                          *)
(* Here are their constants, with what is assumed of them, their variables *)
(* and the properties of the library as a whole.                           *)
(***************************************************************************)
EXTENDS DynList

CONSTANTS Letter, SLASH, NUL, MaxLength, MaxLookups
VARIABLES path, buf, backup_string, tokens, cutting, lookups
Cut == INSTANCE Strtok
cutVars == <<path, buf, backup_string, tokens, cutting, lookups>>

\* The delimiter, the end of a string and what names are made of differ.
ASSUME StrtokAssumption ==
  /\ SLASH \notin Letter /\ NUL \notin Letter \cup {SLASH}
  /\ MaxLength \in Nat /\ MaxLookups \in Nat

CONSTANTS NIBBLES, Numbers, Bases, Texts, MaxPieces
VARIABLES request, written
Numeral == INSTANCE Format
numeralVars == <<request, written>>

\* Words of two nibbles or more, the numbers of a word, bases that are a u8, and
\* strings of characters.
ASSUME FormatAssumption ==
  /\ NIBBLES \in Nat /\ NIBBLES > 1
  /\ Numbers \subseteq Numeral!I32 /\ Bases \subseteq 0..255
  /\ Texts \in Seq(Seq(Nat)) /\ MaxPieces \in Nat

CONSTANTS SIZE, STRINGS, Byte
VARIABLES call, memory, value, before
Bytes == INSTANCE Memory
bytesVars == <<call, memory, value, before>>

\* Memories of some bytes, and bytes of eight bits.
ASSUME MemoryAssumption == SIZE \in Nat /\ STRINGS \in Nat /\ Byte \subseteq 0..255

-----------------------------------------------------------------------------
\* Cutting a path gives its names, however many slashes there are (strtok, and
\* the loop of vfs_token_path).
NamesRight == Cut!NamesRight

\* A buffer can be cut once: whoever looks it up again finds its first name.
OnlyOnce == Cut!OnlyOnce

\* Numbers read back as they were printed, and messages are the sum of their
\* pieces (format.c, libc.c).
NumbersRight == Numeral!NumbersRight
FormatRight == Numeral!FormatRight

\* Copies and comparisons are what their names say (mem.c, string.c).
MemoryRight == Bytes!MemoryRight
=============================================================================
