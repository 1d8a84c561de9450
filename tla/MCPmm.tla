------------------------------- MODULE MCPmm -------------------------------
(***************************************************************************)
(* Pmm.tla on small machines. The frames used lie just above the low       *)
(* megabyte; each boot information puts the kernel image and the entries   *)
(* of the memory map in a different position to each other.                *)
(***************************************************************************)
EXTENDS Pmm

\* An entry from byte off of frame f of high memory, of len bytes.
Entry(f, off, len, type) ==
  [base |-> LowLimit + f * PageSize + off, length |-> len, type |-> type]

Boot(map, kstart, kend) ==
  [mmap |-> map, kstart |-> LowLimit + kstart, kend |-> LowLimit + kend]

MCBoots == {
  \* no map at all
  Boot(<<>>, 0, 100),
  \* nothing usable: reserved, empty, low or less than a page
  Boot(<<Entry(0, 0, 8192, 2), Entry(2, 0, 0, 7), Entry(-2, 0, 8192, 7),
         Entry(4, 1, 8190, 7)>>, 0, 100),
  \* the image, not page aligned, in the middle of an entry
  Boot(<<Entry(0, 0, 6 * 4096, 7)>>, 2 * 4096 + 100, 3 * 4096 + 1),
  \* an entry across the low megabyte and one that begins inside the image
  Boot(<<Entry(-1, 0, 2 * 4096, 7), Entry(3, 0, 3 * 4096, 7)>>, 2 * 4096, 4 * 4096),
  \* an entry that ends where the image begins, one that ends inside it, and
  \* one in the image altogether
  Boot(<<Entry(0, 0, 2 * 4096, 7), Entry(4, 0, 4096, 7), Entry(7, 0, 4096, 7),
         Entry(3, 0, 4096, 2)>>, 2 * 4096, 6 * 4096),
  \* entries with ragged ends
  Boot(<<Entry(0, 7, 4 * 4096, 7), Entry(5, 4095, 3 * 4096, 7)>>, 9 * 4096, 10 * 4096),
  \* more regions than the table holds; the image cuts the last entry
  Boot(<<Entry(0, 0, 4096, 7), Entry(2, 0, 4096, 7), Entry(4, 0, 3 * 4096, 7)>>,
       5 * 4096, 6 * 4096),
  \* more memory than the callers ever use
  Boot(<<Entry(0, 0, 2 * 4096, 7), Entry(3, 0, 4 * 4096, 7)>>, 90000, 95000)
}
=============================================================================
