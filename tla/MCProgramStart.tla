--------------------------- MODULE MCProgramStart ---------------------------
(***************************************************************************)
(* ProgramStart.tla with pages of 30 bytes, which is about as small as the *)
(* stack of two arguments and two variables of up to three bytes each, NUL *)
(* included, allows; images of at most two pages and one of heap. All      *)
(* pairs of segments from a small set are combined with one call, and all  *)
(* pairs of vectors with one image.                                        *)
(***************************************************************************)
EXTENDS ProgramStart

MCUnreadable == <<0>>

MCStrings == {<<>>, <<7>>, <<7, 8>>, <<7, 8, 9>>, MCUnreadable}
Vectors ==
  {[at |-> "ok", strings |-> s] : s \in {<<>>, <<<<7>>, <<8>>, <<9>>>>} \cup {<<x>> : x \in MCStrings}
                                        \cup {<<x, y>> : x, y \in MCStrings}}
  \cup {[at |-> w, strings |-> <<<<7>>>>] : w \in {"null", "odd", "torn"}}
SomeVector == [at |-> "ok", strings |-> <<<<7, 8>>>>]

Seg(load, offset, vaddr, filesz, memsz, w) ==
  [load |-> load, offset |-> offset, vaddr |-> vaddr, filesz |-> filesz, memsz |-> memsz, w |-> w]

Text == Seg(TRUE, 3, 0, 4, 4, FALSE)
NotLoaded == Seg(FALSE, 9, 5, 1, 1, TRUE)
\* Segments on the first and on the second page, two over both, one that ends
\* where the second begins; empty ones; sizes, places and limits that are wrong
\* by one; and fields that are negative or wrap around.
MCSegments ==
  {Text, Seg(TRUE, 2, 30, 5, 9, TRUE), Seg(TRUE, 4, 0, 3, 60, TRUE), Seg(TRUE, 0, 0, 6, 30, FALSE), Seg(TRUE, 1, 0, 31, 31, FALSE),
   Seg(TRUE, 5, 30, 2, 2, FALSE), Seg(TRUE, 1, 30, 3, 30, TRUE), Seg(TRUE, 1, 30, 3, 31, FALSE),
   NotLoaded, Seg(TRUE, 0, 30, 0, 0, TRUE), Seg(TRUE, 0, 30, 0, 7, TRUE),
   Seg(TRUE, 1, 29, 2, 2, FALSE), Seg(TRUE, 3, 30, 6, 5, FALSE), Seg(TRUE, 30, 30, 3, 3, FALSE),
   Seg(TRUE, 0, 60, 1, 1, FALSE),
   Seg(TRUE, -2, 30, 3, 4, FALSE), Seg(TRUE, 1, -30, 1, 4, TRUE), Seg(TRUE, 2, 30, 6, 230, FALSE)}

File(segs) ==
  [kind |-> "file", len |-> 32, magic |-> TRUE, phoff |-> 1, phentsize |-> 3, entry |-> 2, segs |-> segs]

\* One program header that ends in the file, whose last byte alone is cut off
\* (it is not read), whose fields are cut off, that begins behind the end, and
\* one at the end of the address range; then a second one of which the file
\* holds the type only, which is enough if it is not PT_LOAD.
CutFiles ==
  {[File(<<Text>>) EXCEPT !.phoff = p] : p \in {29, 30, 31, 32, Half - 1, -1}}
  \cup {[File(<<NotLoaded>>) EXCEPT !.phoff = p] : p \in {31, 32}}
  \cup {[File(<<Text, s>>) EXCEPT !.phoff = 28] : s \in {NotLoaded, Seg(TRUE, 2, 30, 5, 9, TRUE)}}

MCFiles ==
  {File(<<s>>) : s \in MCSegments} \cup {File(<<s, t>>) : s, t \in MCSegments}
  \cup {File(<<>>),
        [File(<<Text>>) EXCEPT !.kind = "none"], [File(<<Text>>) EXCEPT !.kind = "dir"],
        [File(<<Text>>) EXCEPT !.len = 0], [File(<<Text>>) EXCEPT !.len = 41],
        [File(<<Text>>) EXCEPT !.magic = FALSE], [File(<<Text>>) EXCEPT !.phentsize = EntrySize - 1],
        [File(<<Text>>) EXCEPT !.entry = 4], [File(<<Text>>) EXCEPT !.entry = -1]}
  \cup CutFiles

MCInputs ==
  [caller : {"user"}, op : {"spawn", "exec"}, file : {File(<<Text>>)}, argv : Vectors, envp : Vectors]
  \cup [caller : {"user", "kernel"}, op : {"spawn", "exec"}, file : MCFiles, argv : {SomeVector}, envp : {SomeVector}]
=============================================================================
