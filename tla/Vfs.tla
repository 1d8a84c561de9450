-------------------------------- MODULE Vfs --------------------------------
(***************************************************************************)
(* The file system of src/src/kernel/kvfs.py: the node table, read-only    *)
(* files of the initramfs, writable files under /tmp, and descriptors with *)
(* a cursor.                                                               *)
(*                                                                         *)
(* A path is the sequence of its components; <<>> is the root. Paths.tla   *)
(* says what vfs_normalize_path makes of it. Every call runs with          *)
(* interrupts masked and is one step; programs make them in any order,     *)
(* through any open descriptor.                                            *)
(* Calls that fail without an effect, and reads and writes of the console, *)
(* change nothing here and have no action.                                 *)
(***************************************************************************)
EXTENDS Integers, Sequences, Paths

CONSTANTS
  Components, (* what a path is made of; "" stands between two slashes     *)
  Initramfs,  (* the archive: a sequence of [name, data]                   *)
  OpenedPaths, (* absolute paths programs open, before normalisation       *)
  Bytes,      (* bytes programs write                                      *)
  MaxNodes,   (* max_vfs_nodes(): 32 in the code                           *)
  DescCap,    (* max_vfs_descriptors(): 32 in the code                     *)
  SelfTestLeft, (* descriptor vfs_self_test never closes: 4 in the code    *)
  MinCap,     (* smallest buffer vfs_grow_node_data makes: 64 in the code  *)
  MaxSize     (* bound on the size to which a file is written              *)

Tmp == <<"tmp">>
SelfTestFile == <<"tmp", "log.txt">>

Descs == 1 .. DescCap

\* The archive is packed from a directory tree: names differ, and no file has
\* files below it.
ASSUME ArchiveAssumption ==
  /\ Initramfs \in Seq([name : Seq(Components), data : Seq(Nat)]) /\ Initramfs # <<>>
  /\ \A i \in 1 .. Len(Initramfs) :
       LET name == Initramfs[i].name
       IN  /\ Len(name) > 0 /\ name[1] # "tmp"
           /\ \A j \in 1 .. Len(Initramfs) :
                Len(Initramfs[j].name) >= Len(name)
                  /\ SubSeq(Initramfs[j].name, 1, Len(name)) = name => j = i
ASSUME SizesAssumption ==
  /\ DescCap \in Nat /\ SelfTestLeft \in Descs
  /\ MaxNodes \in Nat /\ MaxNodes >= Len(Initramfs) + 2
  /\ MinCap \in Nat /\ MinCap > 0
  /\ MaxSize \in Nat
  /\ Bytes \subseteq Nat
ASSUME PathsAssumption ==
  /\ {"", "tmp", "log.txt"} \subseteq Components
  /\ OpenedPaths \subseteq Seq(Components)

VARIABLES
  nodes,   (* node table: [name, kind, writable, data, len]; data is the   *)
           (* buffer with its whole capacity                               *)
  desc,    (* descriptor table: [kind, node, offset, path]                 *)
  halted,  (* vfs_reserve_node panicked                                    *)
  listed   (* history: names each descriptor's cursor has passed           *)

vars == <<nodes, desc, halted, listed>>

NodeIds == 1 .. Len(nodes)

Closed == [kind |-> "closed", node |-> 0, offset |-> 0, path |-> <<>>]
FileDesc(n) == [kind |-> "file", node |-> n, offset |-> 0, path |-> <<>>]
DirDesc(p) == [kind |-> "directory", node |-> 0, offset |-> 0, path |-> p]
Console == [kind |-> "console", node |-> 0, offset |-> 0, path |-> <<>>]

Names ==
  {Initramfs[i].name : i \in 1 .. Len(Initramfs)} \cup {Normalize(p) : p \in OpenedPaths}
    \cup {Tmp, SelfTestFile}

\* A buffer of n bytes that starts with s: the heap is zero where it was never
\* used, and memory taken from it is never given back.
Buffer(s, n) == [k \in 1 .. n |-> IF k <= Len(s) THEN s[k] ELSE 0]

(***************************************************************************)
(* init_vfs, and what vfs_self_test leaves: a file in /tmp and an open     *)
(* descriptor of the archive's first file. The eight bytes of the          *)
(* self-test's message are one here.                                       *)
(***************************************************************************)
Init ==
  /\ nodes = [i \in 1 .. Len(Initramfs) |->
                [name |-> Initramfs[i].name, kind |-> "file", writable |-> FALSE,
                 data |-> Initramfs[i].data, len |-> Len(Initramfs[i].data)]]
             \o <<[name |-> Tmp, kind |-> "directory", writable |-> TRUE,
                   data |-> <<>>, len |-> 0],
                  [name |-> SelfTestFile, kind |-> "file", writable |-> TRUE,
                   data |-> Buffer(<<1>>, MinCap), len |-> 1]>>
  /\ desc = [d \in Descs |-> IF d = SelfTestLeft THEN FileDesc(1) ELSE Closed]
  /\ halted = FALSE
  /\ listed = [d \in Descs |-> <<>>]

-----------------------------------------------------------------------------
(***************************************************************************)
(* Looking up.                                                             *)
(***************************************************************************)

\* Mutant: the search stops before the last node.
LookupButLast(p) == {n \in 1 .. Len(nodes) - 1 : nodes[n].name = p}

\* The nodes vfs_lookup_path would stop at.
Lookup(p) == {n \in NodeIds : nodes[n].name = p}

\* vfs_node_matches_directory: node n lies below directory p.
Below(n, p) ==
  /\ Len(nodes[n].name) > Len(p)
  /\ SubSeq(nodes[n].name, 1, Len(p)) = p

\* vfs_directory_exists; directories of the archive have no node.
DirectoryExists(p) ==
  \/ p = <<>>
  \/ \E n \in NodeIds : Below(n, p) \/ (nodes[n].kind = "directory" /\ nodes[n].name = p)

\* vfs_directory_child_component.
Child(n, p) == nodes[n].name[Len(p) + 1]

\* vfs_path_parent.
ParentPath(p) == Front(p)

\* The checks of vfs_create_tmpfs_file: only /tmp itself is a directory node.
MayCreate(p) ==
  /\ Len(p) > 0
  /\ \E n \in Lookup(ParentPath(p)) : nodes[n].kind = "directory" /\ nodes[n].writable

-----------------------------------------------------------------------------
(***************************************************************************)
(* Descriptors.                                                            *)
(***************************************************************************)
IsClosed(d) == desc[d].kind = "closed"

\* vfs_alloc_descriptor takes the first closed entry; with none left it
\* returns 0, after whatever the open has already done to the nodes.
AllocDescriptor(r) ==
  \/ /\ \A d \in Descs : ~IsClosed(d)
     /\ UNCHANGED <<desc, listed>>
  \/ \E d \in Descs :
       /\ IsClosed(d) /\ \A e \in 1 .. d - 1 : ~IsClosed(e)
       /\ desc' = [desc EXCEPT ![d] = r]
       /\ listed' = [listed EXCEPT ![d] = <<>>]

\* vfs_open_path of a directory, with or without a node.
OpenDirectory(p, create) ==
  /\ ~halted
  /\ \/ p = <<>>
     \/ \E n \in Lookup(p) : nodes[n].kind = "directory"
     \/ Lookup(p) = {} /\ ~(create /\ MayCreate(p)) /\ DirectoryExists(p)
  /\ AllocDescriptor(DirDesc(p))
  /\ UNCHANGED <<nodes, halted>>

\* Mutant: truncation does not look at the writable flag.
TruncatesAnything(n, trunc) == trunc

\* vfs_open_path empties a file that is opened with the truncate flag.
Truncates(n, trunc) == trunc /\ nodes[n].writable

\* vfs_open_path of a file that exists.
OpenFile(p, trunc) ==
  /\ ~halted
  /\ \E n \in Lookup(p) :
       /\ nodes[n].kind = "file"
       /\ nodes' = IF Truncates(n, trunc) THEN [nodes EXCEPT ![n].len = 0] ELSE nodes
       /\ AllocDescriptor(FileDesc(n))
  /\ UNCHANGED halted

\* vfs_open_path of a file that does not exist, with the create flag.
OpenCreate(p) ==
  /\ ~halted
  /\ p # <<>> /\ Lookup(p) = {} /\ MayCreate(p)
  /\ IF Len(nodes) >= MaxNodes
       THEN halted' = TRUE /\ UNCHANGED <<nodes, desc, listed>>
       ELSE /\ nodes' = Append(nodes, [name |-> p, kind |-> "file", writable |-> TRUE,
                                       data |-> <<>>, len |-> 0])
            /\ AllocDescriptor(FileDesc(Len(nodes) + 1))
            /\ UNCHANGED halted

\* vfs_alloc_console_in_descriptor and its twin, for a new task.
OpenConsole ==
  /\ ~halted
  /\ AllocDescriptor(Console)
  /\ UNCHANGED <<nodes, halted>>

\* vfs_close_descriptor. Nobody has the number of the self-test's descriptor.
Close(d) ==
  /\ ~halted /\ ~IsClosed(d) /\ d # SelfTestLeft
  /\ desc' = [desc EXCEPT ![d] = Closed]
  /\ listed' = [listed EXCEPT ![d] = <<>>]
  /\ UNCHANGED <<nodes, halted>>

-----------------------------------------------------------------------------
(***************************************************************************)
(* Reading and writing.                                                    *)
(***************************************************************************)
Larger(a, b) == IF a > b THEN a ELSE b

\* The capacity vfs_grow_node_data chooses for a buffer that must hold min
\* bytes: at least MinCap and at least twice the old one.
NewCapacity(n, min) == Larger(Larger(min, MinCap), 2 * Len(nodes[n].data))

\* Mutant: the buffer is doubled once, however much is needed.
GrownTooLittle(n, min) ==
  IF min <= Len(nodes[n].data) THEN nodes[n].data
  ELSE Buffer(SubSeq(nodes[n].data, 1, nodes[n].len), Larger(MinCap, 2 * Len(nodes[n].data)))

\* Mutant: the copy stops one byte early.
GrownButLast(n, min) ==
  IF min <= Len(nodes[n].data) THEN nodes[n].data
  ELSE Buffer(SubSeq(nodes[n].data, 1, nodes[n].len - 1), NewCapacity(n, min))

\* vfs_grow_node_data: only the bytes below data_len are copied.
Grown(n, min) ==
  IF min <= Len(nodes[n].data) THEN nodes[n].data
  ELSE Buffer(SubSeq(nodes[n].data, 1, nodes[n].len), NewCapacity(n, min))

\* vfs_write_descriptor. A write behind the end of the file, possible after
\* another descriptor truncated it, shows whatever the buffer holds between.
Write(d, s) ==
  LET n == desc[d].node
      off == desc[d].offset
      end == off + Len(s)
      buf == Grown(n, end)
  IN  /\ ~halted /\ desc[d].kind = "file" /\ nodes[n].writable
      /\ end <= MaxSize
      /\ nodes' = [nodes EXCEPT
                     ![n].data = [k \in 1 .. Len(buf) |->
                                    IF off < k /\ k <= end THEN s[k - off] ELSE buf[k]],
                     ![n].len = Larger(end, nodes[n].len)]
      /\ desc' = [desc EXCEPT ![d].offset = end]
      /\ UNCHANGED <<halted, listed>>

\* How many bytes vfs_read_descriptor copies.
Readable(d, length) ==
  LET remaining == nodes[desc[d].node].len - desc[d].offset
  IN  IF remaining <= 0 THEN 0 ELSE IF length > remaining THEN remaining ELSE length

\* vfs_read_descriptor of a file.
Read(d, length) ==
  /\ ~halted /\ desc[d].kind = "file"
  /\ desc' = [desc EXCEPT ![d].offset = @ + Readable(d, length)]
  /\ UNCHANGED <<nodes, halted, listed>>

\* Mutant: only the nodes after the cursor are searched for an equal name.
SeenSinceCursor(d, n) ==
  \E m \in desc[d].offset + 1 .. n - 1 :
    Below(m, desc[d].path) /\ Child(m, desc[d].path) = Child(n, desc[d].path)

\* vfs_directory_child_seen_before.
SeenBefore(d, n) ==
  \E m \in 1 .. n - 1 :
    Below(m, desc[d].path) /\ Child(m, desc[d].path) = Child(n, desc[d].path)

\* Node n gives the descriptor's directory an entry that no earlier node does;
\* an empty name is none.
NewEntry(d, n) ==
  /\ Below(n, desc[d].path) /\ Child(n, desc[d].path) # ""
  /\ ~SeenBefore(d, n)

\* vfs_readdir_descriptor: the next entry, also when the buffer is empty.
Readdir(d) ==
  /\ ~halted /\ desc[d].kind = "directory"
  /\ \E n \in desc[d].offset + 1 .. Len(nodes) :
       /\ NewEntry(d, n)
       /\ \A m \in desc[d].offset + 1 .. n - 1 : ~NewEntry(d, m)
       /\ desc' = [desc EXCEPT ![d].offset = n]
       /\ listed' = [listed EXCEPT ![d] = Append(@, Child(n, desc[d].path))]
  /\ UNCHANGED <<nodes, halted>>

\* panic never returns.
Halted == halted /\ UNCHANGED vars

-----------------------------------------------------------------------------
Writes == UNION {[1 .. k -> Bytes] : k \in 0 .. MaxSize}

Next ==
  \/ \E path \in OpenedPaths :
       \/ \E create \in BOOLEAN : OpenDirectory(Normalize(path), create)
       \/ \E trunc \in BOOLEAN : OpenFile(Normalize(path), trunc)
       \/ OpenCreate(Normalize(path))
  \/ OpenConsole
  \/ \E d \in Descs :
       \/ Close(d)
       \/ \E s \in Writes : Write(d, s)
       \/ \E length \in 0 .. MaxSize : Read(d, length)
       \/ Readdir(d)
  \/ Halted

Spec == Init /\ [][Next]_vars

-----------------------------------------------------------------------------
(***************************************************************************)
(* Properties.                                                             *)
(***************************************************************************)

\* Types, and what links the tables: the length of a file is within its
\* buffer, an open file descriptor names a file, a directory descriptor an
\* existing directory.
TypeOK ==
  /\ \A n \in NodeIds :
       /\ nodes[n].name \in Names
       /\ nodes[n].kind \in {"file", "directory"}
       /\ nodes[n].writable \in BOOLEAN
       /\ nodes[n].len \in 0 .. Len(nodes[n].data)
  /\ Len(nodes) <= MaxNodes
  /\ \A d \in Descs :
       /\ desc[d].kind \in {"closed", "file", "directory", "console"}
       /\ desc[d].offset \in Nat
       /\ desc[d].kind = "file" =>
            desc[d].node \in NodeIds /\ nodes[desc[d].node].kind = "file"
       /\ desc[d].kind = "directory" => DirectoryExists(desc[d].path)
  /\ halted \in BOOLEAN

\* No two nodes have one name, and a created file never hides or becomes a
\* directory: whatever is opened with the create flag, a path means one thing.
NamesUnique ==
  \A m, n \in NodeIds :
    /\ nodes[m].name = nodes[n].name => m = n
    /\ nodes[m].kind = "file" => ~Below(n, nodes[m].name)

\* The files of the archive never change, whoever opens them with whatever
\* flags (README: "read-only initramfs plus writable tmpfs-backed /tmp").
InitramfsKept ==
  [][\A n \in 1 .. Len(Initramfs) : nodes'[n] = nodes[n]]_vars

\* A byte of a file changes only where a write through a descriptor of that
\* file went: growing a buffer keeps what is in it, and truncating or opening
\* one file does not touch another. Behind the end of the file a byte of the
\* buffer may also become zero, when vfs_grow_node_data moves the rest. So what
\* a write behind the end makes part of the file again (kvfs.py:689) was
\* written to this file at this position before, or is zero: never a byte of
\* another file.
OnlyWritesChange ==
  [][\A n \in NodeIds : \A k \in 1 .. Len(nodes'[n].data) :
       \/ k <= Len(nodes[n].data) /\ nodes'[n].data[k] = nodes[n].data[k]
       \/ k > nodes[n].len /\ nodes'[n].data[k] = 0
       \/ \E d \in Descs : /\ desc[d].kind = "file" /\ desc[d].node = n
                           /\ desc[d].offset < k /\ k <= desc'[d].offset]_vars

\* The entries a directory descriptor has returned are exactly the distinct
\* names its directory has in the nodes the cursor has passed, each once, even
\* if files are created between two calls; so at the end of the table the
\* listing is complete.
ListingExact ==
  \A d \in Descs : desc[d].kind = "directory" =>
    /\ \A n \in 1 .. desc[d].offset :
         Below(n, desc[d].path) /\ Child(n, desc[d].path) # "" =>
           \E k \in 1 .. Len(listed[d]) : listed[d][k] = Child(n, desc[d].path)
    /\ \A j, k \in 1 .. Len(listed[d]) : listed[d][j] = listed[d][k] => j = k
    /\ \A k \in 1 .. Len(listed[d]) :
         \E n \in 1 .. desc[d].offset :
           Below(n, desc[d].path) /\ Child(n, desc[d].path) = listed[d][k]

\* What README.md says of the file system, "Tiny hierarchical VFS", and what
\* vfs_self_test asserts of the file it creates: a file is an entry of the
\* directory that contains it, so a listing of that directory shows it. The
\* code does not keep this: see the finding on vfs_normalize_path.
EveryFileListed ==
  \A n \in NodeIds : nodes[n].kind = "file" => Child(n, ParentPath(nodes[n].name)) # ""
=============================================================================
