-------------------------------- MODULE Vfs ---------------------------------
(***************************************************************************)
(* kernel/fs/vfs.c and devfs.c: the tree of nodes, the filesystems mounted *)
(* in it and the way paths are looked up; of tar.c the nodes a parsed      *)
(* archive consists of.                                                    *)
(*                                                                         *)
(* A path is the sequence of names strtok cuts it into (module Strtok).    *)
(* Every node, every array of children and every list takes one block of   *)
(* the heap; the lists of names vfs_token_path makes are never freed.      *)
(* pmm_calloc and pmm_realloc write to the memory they got before anybody  *)
(* tests it for NULL: the model ends where NULL is written through.        *)
(*                                                                         *)
(* parent, child_id and the permissions of a node are never read.  Nothing *)
(* sets del_flag, or the callbacks mkdir and mkfile.                       *)
(***************************************************************************)
EXTENDS Integers, Sequences, SequencesExt, FiniteSetsExt

CONSTANTS
  Name,         \* the names callers give to nodes
  DEV,          \* "dev"
  Heaps,        \* the blocks the heap may have when vfs_init is called
  Files,        \* the names in the archive that is parsed
  MaxDepth      \* bound of the model: names in a path

NULL == 0
ROOT == 1      \* vfs_root, the first node made

ASSUME VfsAssumption ==
  /\ NULL \notin Name \cup {DEV}
  /\ Heaps \subseteq Nat
  /\ Files \in Seq(Name)
  /\ MaxDepth \in Nat

VARIABLES
  fs,          \* the nodes in the order they were made, the free blocks, the
               \* blocks in lists, and how far the kernel has come
  devfs_root,
  parsed,      \* the filesystem tar_parse_filesystem has returned last
  result,      \* the node the last call returned, or NULL
  call,        \* history: the last call, with the nodes it was about
  heap         \* history: the blocks the heap had at first

vars == <<fs, devfs_root, parsed, result, call, heap>>

Type == {"FILE", "DIRECTORY", "MOUNTPOINT", "DEVICE"}
Path == BoundedSeq(Name \cup {DEV}, MaxDepth)
Made == DOMAIN fs.node

\* struct vfs_node, as far as it is used here.
Node == [type : Type, name : Name \cup {DEV, NULL}, children : Seq(Made),
         ptr : Made \cup {NULL}]

TypeOK ==
  /\ fs.node \in Seq(Node)
  /\ fs.free \in Nat /\ fs.lists \in Nat
  /\ fs.phase \in {"off", "boot", "up", "wild"}
  /\ {devfs_root, parsed, result} \subseteq Made \cup {NULL}
  /\ fs.phase = "up" => devfs_root # NULL

Init ==
  /\ heap \in Heaps
  /\ fs = [node |-> <<>>, free |-> heap, lists |-> 0, phase |-> "off"]
  /\ devfs_root = NULL /\ parsed = NULL /\ result = NULL
  /\ call = <<"boot">>

-----------------------------------------------------------------------------
(* What the functions of the code make of the state s.  Nothing happens    *)
(* once NULL has been written through.                                     *)

Granted(s, block) ==
  IF s.phase = "wild" THEN s
  ELSE IF s.free = 0 THEN [s EXCEPT !.phase = "wild"]
  ELSE block

\* The node made last.
New(s) == Len(s.node)

\* pmm_calloc for a node, with its type and name.
NewNode(s, type, name) ==
  Granted(s, [s EXCEPT !.free = @ - 1,
                       !.node = Append(@, [type |-> type, name |-> name,
                                           children |-> <<>>, ptr |-> NULL])])

\* A directory has an array of children from the first: pmm_calloc, twice.
NewDirectory(s, name) ==
  LET t == NewNode(s, "DIRECTORY", name)
  IN  Granted(t, [t EXCEPT !.free = @ - 1])

\* Fault: a node is put in the last place that is taken already.
ListedOver(children, n) == Append(SubSeq(children, 1, Len(children) - 1), n)

Listed(children, n) == Append(children, n)

\* Fault: pmm_realloc would keep the old array.
AddedLeaking(s, parent, n) ==
  [s EXCEPT !.node[parent].children = Listed(@, n), !.free = @ - 1]

\* pmm_realloc takes a block before it gives the old one back.
Added(s, parent, n) == [s EXCEPT !.node[parent].children = Listed(@, n)]

vfs_add_node(s, parent, n) ==
  IF s.phase # "wild" /\ s.node[parent].type = "DIRECTORY"
  THEN Granted(s, Added(s, parent, n)) ELSE s

\* vfs_mkdir and vfs_mkfile, on a parent that is a directory.
Mkdir(s, parent, name) ==
  LET t == NewDirectory(s, name) IN vfs_add_node(t, parent, New(t))
Mkfile(s, parent, type, name) ==
  LET t == NewNode(s, type, name) IN vfs_add_node(t, parent, New(t))

\* vfs_token_path.  A list without memory is written through when the first
\* name is pushed.
vfs_token_path(s, path) ==
  IF s.free = 0 /\ path = <<>> THEN s
  ELSE Granted(s, [s EXCEPT !.free = @ - 1, !.lists = @ + 1])

MountsOn(s, m) == m # NULL /\ s.node[m].type = "DIRECTORY"

vfs_mount(s, m, f) ==
  IF s.phase # "wild" /\ MountsOn(s, m)
  THEN [s EXCEPT !.node[m].type = "MOUNTPOINT", !.node[m].ptr = f] ELSE s

\* tar_parse_filesystem: a directory without a name, and a file in it for
\* every header.
tar_parse_filesystem(s) ==
  LET root == New(s) + 1
  IN  FoldLeft(LAMBDA t, name : Mkfile(t, root, "FILE", name),
               NewDirectory(s, NULL), Files)

-----------------------------------------------------------------------------
(* Lookup: vfs_get_dir, and vfs_get_file, whose test of the type at the    *)
(* last name compares index with a total it never reaches.                 *)

Entered(s, n) == IF s.node[n].type = "MOUNTPOINT" THEN s.node[n].ptr ELSE n

Children(s, n, name) ==
  {k \in DOMAIN s.node[n].children : s.node[s.node[n].children[k]].name = name}

\* Fault: the last child of that name.
HitLast(ks) == Max(ks)

Hit(ks) == Min(ks)

\* One name.  found_child keeps its value in a node without children.
Step(s, at, name) ==
  LET ks == Children(s, at.node, name)
  IN  IF at.node = NULL \/ (s.node[at.node].children = <<>> /\ at.found_child)
      THEN at
      ELSE IF ks = {} THEN [node |-> NULL, found_child |-> FALSE]
      ELSE [node |-> Entered(s, s.node[at.node].children[Hit(ks)]),
            found_child |-> TRUE]

Lookup(s, from, path) ==
  FoldLeft(LAMBDA at, name : Step(s, at, name),
           [node |-> from, found_child |-> FALSE], path).node

-----------------------------------------------------------------------------
Does(s, what) == fs' = s /\ call' = what
Returns(n) == result' = IF fs'.phase = "wild" THEN NULL ELSE n

\* vfs_init, with the list of descriptors fd_init makes.
vfs_init ==
  /\ fs.phase = "off"
  /\ LET s == NewDirectory([fs EXCEPT !.phase = "boot"], NULL)
     IN  Does(vfs_token_path(s, <<>>), <<"boot">>)
  /\ UNCHANGED <<devfs_root, parsed, result, heap>>

\* The directory it mounts on is made before the filesystem.
devfs_init ==
  /\ fs.phase = "boot"
  /\ LET s == Mkdir(vfs_token_path(fs, <<>>), ROOT, DEV)
         t == NewDirectory(s, DEV)
         u == vfs_mount(t, New(s), New(t))
     IN  /\ Does(IF u.phase = "wild" THEN u ELSE [u EXCEPT !.phase = "up"], <<"boot">>)
         /\ devfs_root' = IF u.phase = "wild" THEN NULL ELSE New(t)
  /\ UNCHANGED <<parsed, result, heap>>

vfs_get(path) ==
  /\ fs.phase = "up"
  /\ Does(vfs_token_path(fs, path), <<"vfs_get">>)
  /\ Returns(Lookup(fs, ROOT, path))
  /\ UNCHANGED <<devfs_root, parsed, heap>>

\* Callers test what they got for NULL before they use it as a parent.
vfs_mkdir(name) ==
  /\ fs.phase = "up"
  /\ result # NULL
  /\ IF fs.node[result].type = "DIRECTORY"
     THEN /\ Does(Mkdir(fs, result, name), <<"make", result, name>>)
          /\ Returns(New(fs) + 1)
     ELSE Does(fs, <<"none">>) /\ Returns(NULL)
  /\ UNCHANGED <<devfs_root, parsed, heap>>

vfs_mkfile(name) ==
  /\ fs.phase = "up"
  /\ result # NULL
  /\ IF fs.node[result].type = "DIRECTORY"
     THEN /\ Does(Mkfile(fs, result, "FILE", name), <<"make", result, name>>)
          /\ Returns(New(fs) + 1)
     ELSE Does(fs, <<"none">>) /\ Returns(NULL)
  /\ UNCHANGED <<devfs_root, parsed, heap>>

add_new_device(name) ==
  /\ fs.phase = "up"
  /\ Does(Mkfile(fs, devfs_root, "DEVICE", name), <<"make", devfs_root, name>>)
  /\ Returns(NULL)
  /\ UNCHANGED <<devfs_root, parsed, heap>>

ParseArchive ==
  /\ fs.phase = "up"
  /\ Does(tar_parse_filesystem(fs), <<"none">>)
  /\ Returns(NULL)
  /\ parsed' = IF fs'.phase = "wild" THEN NULL ELSE New(fs) + 1
  /\ UNCHANGED <<devfs_root, heap>>

\* As devfs_init does, the caller mounts on a directory it has just made.  (On
\* one it has looked up the test of vfs_mount would be no use: a lookup never
\* returns a mount point, it returns the root of what is mounted there.)
Mount ==
  /\ fs.phase = "up"
  /\ parsed # NULL
  /\ result = New(fs) /\ fs.node[result].type = "DIRECTORY"
  /\ Does(vfs_mount(fs, result, parsed), <<"mount", result, parsed>>)
  /\ Returns(NULL)
  /\ UNCHANGED <<devfs_root, parsed, heap>>

Next ==
  \/ vfs_init
  \/ devfs_init
  \/ \E path \in Path : vfs_get(path)
  \/ \E name \in Name : vfs_mkdir(name) \/ vfs_mkfile(name) \/ add_new_device(name)
  \/ ParseArchive
  \/ Mount

Spec == Init /\ [][Next]_vars

-----------------------------------------------------------------------------
\* What a path names below a node: the lookup, unless it stopped short in a
\* node without children and returned that one.
Named(s, from, path) ==
  IF \E k \in 1..(Len(path) - 1) :
       LET n == Lookup(s, from, SubSeq(path, 1, k))
       IN  n # NULL /\ s.node[n].children = <<>>
  THEN NULL ELSE Lookup(s, from, path)

\* The new name of a made node, and nothing else, is added to what paths name;
\* a mount changes the paths through its mount point, and no others.  The step
\* leads from s to u.
PathRight(s, u, step, path) ==
  LET before == Named(s, ROOT, path)
      after == Named(u, ROOT, path)
      through == {k \in DOMAIN path : Named(s, ROOT, SubSeq(path, 1, k)) = step[2]}
  IN  CASE step[1] = "make" ->
             after = IF /\ before = NULL
                        /\ Named(s, ROOT, Front(path)) = step[2]
                        /\ Last(path) = step[3]
                     THEN New(u) ELSE before
        [] step[1] = "mount" /\ through # {} ->
             after = Named(u, step[3], SubSeq(path, Min(through) + 1, Len(path)))
        [] OTHER -> after = before

\* Of every step of the running kernel, and every path but the empty one.
PathsRight ==
  [][fs.phase = "up" /\ fs'.phase = "up" =>
       \A path \in Path \ {<<>>} : PathRight(fs, fs', call', path)]_vars

\* Every node made is the child of one directory, in one place, except the
\* roots of filesystems.
OnePlace ==
  fs.phase = "up" =>
    \A n \in Made :
      LET places == UNION {{d} \X {k \in DOMAIN fs.node[d].children :
                                     fs.node[d].children[k] = n} : d \in Made}
      IN  Cardinality(places) =
            IF n = ROOT \/ fs.node[n].name = NULL \/ n = devfs_root THEN 0 ELSE 1

\* Blocks are spent on nodes, arrays of children and lists, and on nothing
\* else: the arrays that grew have given back what they had.
HeapAccounted ==
  fs.phase = "up" =>
    heap = fs.free + fs.lists + Len(fs.node)
             + Cardinality({n \in Made : fs.node[n].type \in {"DIRECTORY", "MOUNTPOINT"}})
=============================================================================
