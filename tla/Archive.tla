------------------------------- MODULE Archive -------------------------------
(***************************************************************************)
(* From the boot loader to the bytes of a file: main.c finds the module    *)
(* that is the initrd, tar.c finds its files, vfs_read reads them.  (The   *)
(* memory and the places of the nodes are module Vfs.)                     *)
(*                                                                         *)
(* A byte is its position in the module; a header lies at each position of *)
(* Layout, and positions are u32.  The driver of the ramdisk is not in the *)
(* tree: it gives the bytes asked for, and returns 0 past the end.         *)
(*                                                                         *)
(* A size has DIGITS octal digits: 11, in a word of 32 bits; fewer of both *)
(* will do.                                                                *)
(***************************************************************************)
EXTENDS Integers, Sequences, SequencesExt, FiniteSetsExt

CONSTANTS
  WORD,          \* 2^32, or less
  DIGITS,
  Sizes,         \* of files
  Names,         \* of files
  LONG,          \* a name that fills its field: the mode lies behind it
  Lengths,       \* of reads
  MaxFiles       \* bound of the model: files in the archive

VARIABLES
  loader,        \* the tags and the modules the boot loader passes
  archive,       \* the files of the initrd, and whether it ends as it should
  phase,
  device,        \* the module initrd_init is given, or NULL
  offset, nodes, \* of tar_parse_filesystem
  got            \* what the last call of vfs_read or vfs_write gave

vars == <<loader, archive, phase, device, offset, nodes, got>>

NULL == 0
NONE == [value |-> -1]
HEADER == 512            \* sizeof(struct tar_file_header)
Wanted == {"MODULES", "FRAMEBUFFER", "MEMMAP"}

-----------------------------------------------------------------------------
(* An archive as tar writes it: a header, the data padded to blocks, and   *)
(* so on; two blocks of zeroes at the end.                                 *)
Room(size) == HEADER + HEADER * ((size + HEADER - 1) \div HEADER)
Position(files, i) ==
  LET at[k \in 0..Len(files)] ==
        IF k = 0 THEN 0 ELSE at[k - 1] + Room(files[k].size)
  IN  at[i - 1]
Layout == {Position(archive.files, i) : i \in DOMAIN archive.files}
End == Position(archive.files, Len(archive.files) + 1)

\* What is left of a number when some of its digits are taken off.
Rest(size) ==
  LET rest[k \in 0..DIGITS] == IF k = 0 THEN size ELSE rest[k - 1] \div 8
  IN  rest

Octal(size) == [j \in 1..DIGITS |-> Rest(size)[DIGITS - j] % 8]

\* The header at a position, what else lies there, or that it is past the end.
Block(p) ==
  IF p \in Layout
  THEN LET f == archive.files[CHOOSE i \in DOMAIN archive.files :
                                Position(archive.files, i) = p]
       IN  [kind |-> "header", name |-> f.name, size |-> Octal(f.size)]
  ELSE [kind |-> IF p >= End THEN (IF archive.ended THEN "zeroes" ELSE "past")
                 ELSE "data"]

-----------------------------------------------------------------------------
\* The tags are a list; the result is a place in it.
stivale2_get_tag(tags, id) ==
  LET at[t \in 1..(Len(tags) + 1)] ==
        IF t > Len(tags) THEN NULL ELSE IF tags[t] = id THEN t ELSE at[t + 1]
  IN  at[1]

found(modules) ==
  LET ms == {i \in DOMAIN modules : modules[i] = "initrd"}
  IN  IF ms = {} THEN NULL ELSE Min(ms)

\* Reading through a tag that is not there: nobody tests for NULL.
GetTags ==
  /\ phase = "boot"
  /\ phase' = IF \E id \in Wanted : stivale2_get_tag(loader.tags, id) = NULL
              THEN "wild" ELSE "tags"
  /\ UNCHANGED <<loader, archive, device, offset, nodes, got>>

init_initrd ==
  /\ phase = "tags"
  /\ device' = found(loader.modules)
  /\ phase' = IF device' = NULL THEN "up" ELSE "parsing"
  /\ UNCHANGED <<loader, archive, offset, nodes, got>>

\* count and size after k turns of the loop, which begins at the last digit.
getsize(in) ==
  LET count[k \in 0..DIGITS] == IF k = 0 THEN 1 ELSE (count[k - 1] * 8) % WORD
      size[k \in 0..DIGITS] ==
        IF k = 0 THEN 0 ELSE (size[k - 1] + in[DIGITS + 1 - k] * count[k - 1]) % WORD
  IN  size[DIGITS]

\* Fault: a size that is a multiple of 512 has a block too many.
AfterLate(size) == HEADER * (size \div HEADER + 1) + HEADER

After(size) ==
  HEADER * (size \div HEADER + 1) + (IF size % HEADER # 0 THEN HEADER ELSE 0)

\* strcpy stops at a zero, which a name of 100 characters does not have.
copied_name(field) == IF field = LONG THEN <<LONG, "mode">> ELSE <<field>>

\* One turn of the loop.
ParseHeader ==
  /\ phase = "parsing"
  /\ LET header == Block(offset)
     IN  CASE header.kind = "header" ->
                LET size == getsize(header.size)
                IN  /\ nodes' = Append(nodes,
                         [name |-> copied_name(header.name), size |-> size,
                          offset |-> offset + HEADER, device |-> device,
                          ops |-> {"read"}])
                    /\ offset' = offset + After(size)
                    /\ UNCHANGED phase
           [] header.kind = "data" -> phase' = "wild" /\ UNCHANGED <<offset, nodes>>
           [] OTHER -> phase' = "up" /\ UNCHANGED <<offset, nodes>>
  /\ UNCHANGED <<loader, archive, device, got>>

\* Fault: what lies behind the file is read too.
clippedNot(node, size, at) == size

\* The int size_read: a length that wraps with the offset is not clipped.
clipped(node, size, at) ==
  IF (at + size) % WORD > node.size THEN node.size - at ELSE size

read(node, size, at) ==
  IF at >= node.size THEN [value |-> 0, from |-> 0]
  ELSE [value |-> clipped(node, size, at), from |-> node.offset + at]

\* vfs_read and vfs_write; nothing sets the write of any node.
Call(op, n, size, at) ==
  /\ phase = "up" /\ got = NONE
  /\ n \in DOMAIN nodes
  /\ LET r == IF op \in nodes[n].ops THEN read(nodes[n], size, at)
              ELSE [value |-> 0, from |-> 0]
     IN  got' = [op |-> op, node |-> n, size |-> size, offset |-> at,
                 value |-> r.value, from |-> r.from]
  /\ UNCHANGED <<loader, archive, phase, device, offset, nodes>>

\* The loader varies with no file, the files with one loader.
Init ==
  /\ \/ /\ loader \in [tags : UNION {[1..k -> Wanted \cup {"OTHER"}] : k \in 0..4},
                       modules : UNION {[1..k -> {"initrd", "other"}] : k \in 0..2}]
        /\ archive = [files |-> <<>>, ended |-> TRUE]
     \/ /\ loader = [tags |-> <<"MODULES", "MEMMAP", "FRAMEBUFFER">>,
                     modules |-> <<"other", "initrd", "initrd">>]
        /\ archive \in [files : UNION {[1..k -> [name : Names, size : Sizes]] : k \in 1..MaxFiles},
                        ended : BOOLEAN]
  /\ phase = "boot" /\ device = NULL
  /\ offset = 0 /\ nodes = <<>>
  /\ got = NONE

Next ==
  \/ GetTags
  \/ init_initrd
  \/ ParseHeader
  \/ \E op \in {"read", "write"}, n \in 1..MaxFiles, size, at \in Lengths : Call(op, n, size, at)

Spec == Init /\ [][Next]_vars

-----------------------------------------------------------------------------
\* The initrd is the first module of that name, wherever its tag is; and every
\* file of the archive becomes one node, in order, with its size and the place
\* of its first byte, as long as names are shorter than their field.
LayoutRight ==
  /\ phase \notin {"boot", "wild"} =>
       /\ Wanted \subseteq ToSet(loader.tags)
       /\ device # NULL =>
            SelectInSeq(loader.modules, LAMBDA s : s = "initrd") = device
  /\ phase = "up" /\ device # NULL =>
       /\ Len(nodes) = Len(archive.files)
       /\ \A i \in DOMAIN nodes :
            LET f == archive.files[i]
            IN  /\ nodes[i].size = f.size
                /\ nodes[i].offset = Position(archive.files, i) + HEADER
                /\ nodes[i].device = device
                /\ f.name # LONG => nodes[i].name = <<f.name>>

\* A read gives the bytes of the file that were asked for and lie in it, and
\* nothing of what lies around it in the archive, unless offset and length
\* together exceed a word.
ReadsRight ==
  got # NONE /\ got.op = "read" /\ got.offset + got.size < WORD =>
    LET f == archive.files[got.node]
        data == Position(archive.files, got.node) + HEADER
        wanted == (got.offset..(got.offset + got.size - 1)) \cap 0..(f.size - 1)
    IN  {got.from + k : k \in 0..(got.value - 1)} = {data + k : k \in wanted}
=============================================================================
