------------------------------ MODULE ElfImage ------------------------------
(***************************************************************************)
(* The kernel's reading of an ELF file, src/src/kernel/kelf.py: which files *)
(* elf_validate_user_image accepts and how many pages they take.           *)
(*                                                                         *)
(* A file is a record. Its program headers are the sequence segs of        *)
(* [load, offset, vaddr, filesz, memsz, w]: load is PT_LOAD, w is PF_W.    *)
(* The other fields: kind ("none" if the path cannot be opened, "dir",     *)
(* "file"), len, magic (the identification, type and machine are right),   *)
(* phoff, phentsize, entry. Header and program header are HeaderSize and   *)
(* EntrySize long; of a program header the kernel reads the type, its      *)
(* first TypeSize bytes, and of a PT_LOAD one the fields up to p_memsz,    *)
(* FieldsSize bytes. Fields are signed integers in -Half .. Half-1, and    *)
(* sums wrap around, as int does in the compiled kernel (Half = 2^63).     *)
(***************************************************************************)
EXTENDS Integers, Sequences, FiniteSetsExt

CONSTANTS
  PageSize,   (* elf_page_size, user_page_size: 4096                       *)
  MaxPages,   (* elf_max_user_pages: 64                                    *)
  HeaderSize, (* 64                                                        *)
  EntrySize,  (* 56                                                        *)
  TypeSize,   (* the end of p_type: 4                                      *)
  FieldsSize, (* the end of p_memsz: 48                                    *)
  Half        (* 2^63                                                      *)

ASSUME ElfAssumption ==
  /\ PageSize \in Nat \ {0} /\ MaxPages \in Nat \ {0}
  /\ HeaderSize \in Nat \ {0} /\ EntrySize \in Nat \ {0}
  /\ TypeSize \in 1 .. FieldsSize /\ FieldsSize \in 1 .. EntrySize
  /\ Half \in Nat /\ Half > PageSize

Wrap(x) == ((x + Half) % (2 * Half)) - Half

\* elf_align_up to a page and >> 12.
PagesTo(x) == Wrap(x + PageSize - 1) \div PageSize

Segments == [load : BOOLEAN, offset : Int, vaddr : Int, filesz : Int, memsz : Int, w : BOOLEAN]
Files ==
  [kind : {"none", "dir", "file"}, len : Nat, magic : BOOLEAN, phoff : Int, phentsize : Int, entry : Int,
   segs : Seq(Segments)]

\* elf_segment_is_user_load.
UserLoad(s) == s.load /\ s.memsz > 0

\* elf_user_load_segment_count and _ph_index: the segments that count, in the
\* order of their program headers.
Loads(f) ==
  LET found[i \in 0 .. Len(f.segs)] ==
        IF i = 0 THEN <<>>
        ELSE IF UserLoad(f.segs[i]) THEN Append(found[i - 1], f.segs[i]) ELSE found[i - 1]
  IN  found[Len(f.segs)]

\* elf_validate_header and the size of a program header, which are looked at
\* before any program header is.
HeaderValid(f) == f.len >= HeaderSize /\ f.magic /\ f.phentsize >= EntrySize

\* How much of a program header elf_segment_is_user_load and what follows it
\* look at: p_type, and only if that is PT_LOAD the other fields.
HeaderRead(s) == IF s.load THEN FieldsSize ELSE TypeSize

\* What is read of every program header is in the file; load_byte_region
\* panics for a byte that is not. The first sum wraps as in the code; the
\* second need not, because a byte position that wraps is negative and no more
\* in the file than one behind its end.
HeadersInside(f) ==
  \A i \in 1 .. Len(f.segs) :
    LET at == Wrap(f.phoff + (i - 1) * f.phentsize)
    IN  at >= 0 /\ at + HeaderRead(f.segs[i]) <= f.len

SegmentTop(s) == Wrap(s.vaddr + s.memsz)

\* Mutant: only the start of the segment has to be in the file.
SegmentValidStart(f, s) ==
  /\ s.vaddr % PageSize = 0
  /\ s.memsz >= s.filesz
  /\ s.offset <= f.len
  /\ PagesTo(SegmentTop(s)) <= MaxPages

\* The checks on one segment by itself.
SegmentValid(f, s) ==
  /\ s.vaddr % PageSize = 0
  /\ s.memsz >= s.filesz
  /\ Wrap(s.offset + s.filesz) <= f.len
  /\ PagesTo(SegmentTop(s)) <= MaxPages

\* Mutant: only the start of a segment is looked for in the other.
OverlapStartOnly(s, t) == s.vaddr = t.vaddr

Overlap(s, t) == s.vaddr < SegmentTop(t) /\ t.vaddr < SegmentTop(s)

\* elf_user_image_top and _page_count.
ImageTop(f) == Max({0} \cup {SegmentTop(Loads(f)[i]) : i \in 1 .. Len(Loads(f))})
ImagePages(f) == PagesTo(ImageTop(f))

EntryInSegment(f) ==
  \E i \in 1 .. Len(Loads(f)) :
    f.entry >= Loads(f)[i].vaddr /\ f.entry < SegmentTop(Loads(f)[i])

\* elf_validate_user_image, once the program headers are in the file.
Valid(f) ==
  /\ Loads(f) # <<>>
  /\ \A i \in 1 .. Len(Loads(f)) :
       /\ SegmentValid(f, Loads(f)[i])
       /\ \A j \in i + 1 .. Len(Loads(f)) : ~Overlap(Loads(f)[i], Loads(f)[j])
  /\ ImagePages(f) > 0 /\ ImagePages(f) <= MaxPages
  /\ EntryInSegment(f)

\* Nothing in the file is negative or so large that a sum with it wraps.
Plain(f) ==
  /\ f.phoff >= 0 /\ f.phoff + Len(f.segs) * f.phentsize < Half
  /\ \A i \in 1 .. Len(f.segs) :
       LET s == f.segs[i]
       IN  /\ s.offset >= 0 /\ s.filesz >= 0 /\ s.offset + s.filesz < Half
           /\ s.vaddr >= 0 /\ s.memsz >= 0 /\ s.vaddr + s.memsz + PageSize < Half
=============================================================================
