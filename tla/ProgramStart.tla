---------------------------- MODULE ProgramStart ----------------------------
(***************************************************************************)
(* From spawn or exec to the first instruction of a program: the argument  *)
(* and environment vectors are copied in (src/src/kernel/ksyscall.py), the *)
(* file is read and validated (ElfImage), its segments are copied to fresh *)
(* pages and the first stack is built on the last of them                  *)
(* (src/src/kernel/ksched.py). One behaviour is one call; the kernel is    *)
(* not preempted while it handles it. Frames, mapping and running out of   *)
(* pages are in AddressSpace.                                              *)
(*                                                                         *)
(* A vector is [at, strings]: at is "null", "odd" (not 8-aligned), "torn"  *)
(* (it leaves the program's memory before its NULL) or "ok"; a string is a *)
(* sequence of bytes that are not 0, or Unreadable.                        *)
(***************************************************************************)
EXTENDS ElfImage

CONSTANTS
  Inputs,     (* calls: [caller, op, file, argv, envp]                     *)
  Unreadable, (* a pointer to a string outside the program's memory        *)
  MaxFile,    (* 16384                                                     *)
  HeapPages,  (* user_task_heap_pages: 4                                   *)
  MaxMapped,  (* max_user_mapped_pages: 69                                 *)
  MaxArgs, MaxEnv, (* 8 and 8                                              *)
  MaxString,  (* syscall_exec_max_string: 64, its NUL included             *)
  WordSize,   (* 8                                                         *)
  Align       (* 16                                                        *)

ASSUME StartAssumption ==
  /\ HeapPages \in Nat /\ MaxFile \in Nat
  /\ MaxMapped \in Nat /\ MaxMapped >= MaxPages + HeapPages + 1
  /\ MaxArgs \in Nat /\ MaxEnv \in Nat /\ MaxString \in Nat
  /\ WordSize \in Nat \ {0} /\ Align \in Nat \ {0}

ASSUME InputsAssumption ==
  \A c \in Inputs :
    /\ c.file \in Files
    /\ \A v \in {c.argv, c.envp} : v.strings \in Seq({Unreadable} \cup Seq(Nat \ {0}))

\* The stack page has room for the largest vectors: in the code, 1191 bytes of
\* 4096. No line of the code says so.
ASSUME RoomAssumption ==
  (MaxArgs + MaxEnv) * MaxString + (Align - 1) + (MaxArgs + MaxEnv + 3) * WordSize <= PageSize

VARIABLES
  call,     (* the call that is handled                                    *)
  pc,
  args, envs,  (* the strings copied into the kernel                       *)
  pages,    (* how many pages the program gets, the stack's the last       *)
  memory,   (* contents of these pages, by address from the user base      *)
  writable, (* pages mapped writable                                       *)
  next,     (* the segment that is copied, then the string that is pushed  *)
  off,      (* stack_top_off: lowest byte in use on the stack page         *)
  ptrs,     (* addresses of strings: [args, envs]                          *)
  regs      (* what the program starts with: [rip, rsp, argc, argv, envp]  *)

vars == <<call, pc, args, envs, pages, memory, writable, next, off, ptrs, regs>>

-----------------------------------------------------------------------------
(***************************************************************************)
(* A cell of memory is a byte, or the first or another byte of a word that *)
(* was stored at once.                                                     *)
(***************************************************************************)
Byte(b) == <<"byte", b>>
Word(w) == <<"word", w>>
Rest == <<"tail", 0>>
Zero == Byte(0)

\* Byte i of a file; no two are the same and none is 0.
FileByte(i) == Byte(i + 1)

StackBase == (pages - 1) * PageSize
WordsFrom(a, ws) ==
  [x \in a .. a + Len(ws) * WordSize - 1 |->
     IF (x - a) % WordSize = 0 THEN Word(ws[(x - a) \div WordSize + 1]) ELSE Rest]
BytesFrom(a, bs) == [x \in a .. a + Len(bs) - 1 |-> Byte(bs[x - a + 1])]
Store(mem, new) == [x \in DOMAIN mem |-> IF x \in DOMAIN new THEN new[x] ELSE mem[x]]

NoRegs == [rip |-> 0, rsp |-> 0, argc |-> 0, argv |-> 0, envp |-> 0]

\* A call arrives. A user call copies its vectors before it reads the file, a
\* call of kernel code afterwards.
Init ==
  /\ call \in Inputs
  /\ pc = IF call.caller = "user" THEN "vectors" ELSE "image"
  /\ args = <<>> /\ envs = <<>>
  /\ pages = 1 /\ memory = <<>> /\ writable = {}
  /\ next = 0 /\ off = PageSize
  /\ ptrs = [args |-> <<>>, envs |-> <<>>]
  /\ regs = NoRegs

-----------------------------------------------------------------------------
(***************************************************************************)
(* Vectors and file.                                                       *)
(***************************************************************************)

\* Mutant: a string of MaxString bytes besides its NUL is taken.
StringCopiedLong(s) == s # Unreadable /\ Len(s) <= MaxString

\* syscall_copy_user_cstring and _kernel_cstring find the NUL in time.
StringCopied(s) == s # Unreadable /\ Len(s) < MaxString

\* syscall_copy_user_exec_vector and _kernel_exec_vector. Kernel code passes
\* no unaligned or torn vector.
VectorCopied(v, max) ==
  \/ v.at = "null"
  \/ v.at = "ok" /\ Len(v.strings) <= max /\ \A i \in 1 .. Len(v.strings) : StringCopied(v.strings[i])

StringsOf(v) == IF v.at = "null" THEN <<>> ELSE v.strings

Refuse == pc' = "refused" /\ UNCHANGED <<call, args, envs, pages, memory, writable, next, off, ptrs, regs>>
Stop(why) == pc' = why /\ UNCHANGED <<call, args, envs, pages, memory, writable, next, off, ptrs, regs>>

RefuseVectors ==
  /\ pc = "vectors"
  /\ ~(VectorCopied(call.argv, MaxArgs) /\ VectorCopied(call.envp, MaxEnv))
  /\ Refuse

CopyVectors ==
  /\ pc = "vectors"
  /\ VectorCopied(call.argv, MaxArgs) /\ VectorCopied(call.envp, MaxEnv)
  /\ args' = StringsOf(call.argv) /\ envs' = StringsOf(call.envp)
  /\ pc' = IF call.caller = "user" THEN "image" ELSE "create"
  /\ UNCHANGED <<call, pages, memory, writable, next, off, ptrs, regs>>

\* syscall_load_exec_image up to the validation.
FileRead(f) == f.kind = "file" /\ f.len > 0 /\ f.len <= MaxFile

RefuseImage ==
  /\ pc = "image"
  /\ \/ ~FileRead(call.file)
     \/ FileRead(call.file) /\ ~HeaderValid(call.file)
     \/ FileRead(call.file) /\ HeaderValid(call.file) /\ HeadersInside(call.file) /\ ~Valid(call.file)
  /\ Refuse

ImagePanics ==
  /\ pc = "image"
  /\ FileRead(call.file) /\ HeaderValid(call.file) /\ ~HeadersInside(call.file)
  /\ Stop("panic")

LoadImage ==
  /\ pc = "image"
  /\ FileRead(call.file) /\ HeaderValid(call.file) /\ HeadersInside(call.file) /\ Valid(call.file)
  /\ pc' = IF call.caller = "user" THEN "create" ELSE "vectors"
  /\ UNCHANGED <<call, args, envs, pages, memory, writable, next, off, ptrs, regs>>

-----------------------------------------------------------------------------
(***************************************************************************)
(* Pages.                                                                  *)
(***************************************************************************)

\* scheduler_exec_current_task of a kernel task.
RefuseExec == pc = "create" /\ call.op = "exec" /\ call.caller = "kernel" /\ Refuse

\* scheduler_prepare_user_image_pages up to the segments: zeroed pages, those
\* of the heap writable. The stack page is mapped writable too.
PreparePages ==
  /\ pc = "create" /\ ~(call.op = "exec" /\ call.caller = "kernel")
  /\ LET n == ImagePages(call.file) + HeapPages + 1
     IN  IF n > 1 /\ n <= MaxMapped
           THEN /\ pages' = n
                /\ memory' = [a \in 0 .. n * PageSize - 1 |-> Zero]
                /\ writable' = ImagePages(call.file) .. n - 1
                /\ next' = 1
                /\ pc' = "segments"
                /\ UNCHANGED <<call, args, envs, off, ptrs, regs>>
           ELSE Stop("panic")

Segment == Loads(call.file)[next]
SegmentPages(s) == s.vaddr \div PageSize .. PagesTo(SegmentTop(s)) - 1

\* Every access of the loop over the segment's pages, if it may be written,
\* and of the copy is inside the region that it names.
SegmentFits(s) ==
  /\ s.w => SegmentPages(s) \subseteq 0 .. pages - 2
  /\ \A k \in 0 .. s.filesz - 1 :
       /\ Wrap(s.vaddr + k) \div PageSize \in 0 .. pages - 1
       /\ Wrap(s.offset + k) \in 0 .. call.file.len - 1

SegmentPanics ==
  /\ pc = "segments" /\ next <= Len(Loads(call.file))
  /\ ~SegmentFits(Segment)
  /\ Stop("panic")

\* One turn of the loop over the segments. No copied byte wraps, or it would
\* be outside the pages.
LoadSegment ==
  /\ pc = "segments" /\ next <= Len(Loads(call.file))
  /\ SegmentFits(Segment)
  /\ writable' = IF Segment.w THEN writable \cup SegmentPages(Segment) ELSE writable
  /\ memory' = Store(memory, [a \in Segment.vaddr .. Segment.vaddr + Segment.filesz - 1 |->
                                FileByte(Segment.offset + a - Segment.vaddr)])
  /\ next' = next + 1
  /\ UNCHANGED <<call, pc, args, envs, pages, off, ptrs, regs>>

SegmentsLoaded ==
  /\ pc = "segments" /\ next > Len(Loads(call.file))
  /\ pc' = "envs" /\ next' = Len(envs)
  /\ UNCHANGED <<call, args, envs, pages, memory, writable, off, ptrs, regs>>

-----------------------------------------------------------------------------
(***************************************************************************)
(* The first stack, from the end of its page downwards: the strings of the *)
(* environment and of the arguments, the two tables of pointers, argc.     *)
(***************************************************************************)

\* Mutant: no room is left for the NUL.
PushedTight(str) == off - Len(str)

\* scheduler_copy_stack_string: where the string and its NUL go.
Pushed(str) == off - (Len(str) + 1)

\* The stores of the string are checked against the page; list is the vector
\* whose pointers the string's address joins.
Push(list, str) ==
  IF Pushed(str) >= 0
    THEN /\ memory' = Store(memory, BytesFrom(StackBase + Pushed(str), Append(str, 0)))
         /\ off' = Pushed(str)
         /\ ptrs' = [ptrs EXCEPT ![list] = <<StackBase + Pushed(str)>> \o @]
         /\ next' = next - 1
         /\ UNCHANGED <<call, pc, args, envs, pages, writable, regs>>
    ELSE Stop("stack panic")

PushEnv ==
  /\ pc = "envs" /\ next > 0
  /\ Push("envs", envs[next])

EnvsPushed ==
  /\ pc = "envs" /\ next = 0
  /\ pc' = "args" /\ next' = Len(args)
  /\ UNCHANGED <<call, args, envs, pages, memory, writable, off, ptrs, regs>>

PushArg ==
  /\ pc = "args" /\ next > 0
  /\ Push("args", args[next])

EnvpAt == (off \div Align) * Align - (Len(envs) + 1) * WordSize
ArgvAt == EnvpAt - (Len(args) + 1) * WordSize
ArgcAt == ArgvAt - WordSize

\* What would be below the page goes to some other frame.
StoreWords(a, ws) ==
  LET words == WordsFrom(a, ws)
  IN  Store(memory, [x \in {y \in DOMAIN words : y >= StackBase} |-> words[x]])

\* The tables, and the registers of scheduler_prepare_user_task_context. The
\* stores of words are checked against the table and not against the page.
BuildTables ==
  /\ pc = "args" /\ next = 0
  /\ memory' = StoreWords(StackBase + ArgcAt, <<Len(args)>> \o ptrs.args \o <<0>> \o ptrs.envs \o <<0>>)
  /\ off' = ArgcAt
  /\ regs' = [rip |-> call.file.entry, rsp |-> StackBase + ArgcAt, argc |-> Len(args),
              argv |-> StackBase + ArgvAt, envp |-> StackBase + EnvpAt]
  /\ pc' = "ready"
  /\ UNCHANGED <<call, args, envs, pages, writable, next, ptrs>>

\* The call is over: it returned, a program runs, or the kernel stopped.
Over == pc \in {"refused", "panic", "stack panic", "ready"} /\ UNCHANGED vars

Next ==
  \/ RefuseVectors \/ CopyVectors
  \/ RefuseImage \/ ImagePanics \/ LoadImage
  \/ RefuseExec \/ PreparePages
  \/ SegmentPanics \/ LoadSegment \/ SegmentsLoaded
  \/ PushEnv \/ EnvsPushed \/ PushArg \/ BuildTables
  \/ Over

Spec == Init /\ [][Next]_vars

-----------------------------------------------------------------------------
(***************************************************************************)
(* Properties.                                                             *)
(***************************************************************************)

\* A file whose numbers are in order is refused or loaded. The kernel stops
\* for a file only if a program header lies outside it, or a field is negative
\* or makes a sum wrap around: the limits of kelf.py on segments and pages
\* imply every later check of ksched.py on regions and on mapped pages.
PlainImagesLoad ==
  pc = "panic" => ~HeadersInside(call.file) \/ ~Plain(call.file)

\* What memory has to hold at an address below the stack, by the meaning of
\* the segments: the byte of the file, zero in the rest of a segment, between
\* segments and on the heap.
Expected(f, a) ==
  LET here == {i \in 1 .. Len(Loads(f)) :
                 Loads(f)[i].vaddr <= a /\ a < Loads(f)[i].vaddr + Loads(f)[i].filesz}
  IN  IF here = {} THEN {Zero}
      ELSE {FileByte(Loads(f)[i].offset + a - Loads(f)[i].vaddr) : i \in here}

\* A program starts with exactly its image: each byte is what its segment says,
\* although segments are copied one after the other to shared pages; a page may
\* be written iff it is the stack's, the heap's or a writable segment's; the
\* first instruction is inside a segment.
LoadExact ==
  pc = "ready" /\ Plain(call.file) =>
    /\ \A a \in 0 .. StackBase - 1 : Expected(call.file, a) = {memory[a]}
    /\ \A g \in 0 .. pages - 1 :
         g \in writable <=>
           \/ g >= ImagePages(call.file)
           \/ \E i \in 1 .. Len(Loads(call.file)) :
                LET s == Loads(call.file)[i]
                IN  s.w /\ s.vaddr < (g + 1) * PageSize /\ g * PageSize < s.vaddr + s.memsz
    /\ regs.rip \in 0 .. ImagePages(call.file) * PageSize - 1

\* Whatever vectors a program passes, strings, tables and argc fit the one
\* page of the first stack. The stores of the tables do not check that.
StackFits == off >= 0 /\ pc # "stack panic"

\* What a program finds when it follows a pointer: the bytes up to the first
\* zero, and the pointers up to the first NULL.
StringAt(a) ==
  LET n == CHOOSE k \in 0 .. pages * PageSize - a : 
             /\ k < pages * PageSize - a => memory[a + k] = Zero
             /\ \A j \in 0 .. k - 1 : memory[a + j] # Zero
  IN  [j \in 1 .. n |-> memory[a + j - 1]]

Holds(a, strings) ==
  /\ \A i \in 1 .. Len(strings) :
       /\ memory[a + (i - 1) * WordSize] \in {Word(p) : p \in StackBase .. pages * PageSize - 1}
       /\ StringAt(memory[a + (i - 1) * WordSize][2]) = [j \in 1 .. Len(strings[i]) |-> Byte(strings[i][j])]
  /\ memory[a + Len(strings) * WordSize] = Word(0)

\* The program gets the arguments and the environment its caller passed:
\* through copies in the kernel, pushed last string first, every pointer leads
\* to its string and every table ends in NULL.
ArgumentsArrive ==
  pc = "ready" =>
    /\ regs.argc = Len(StringsOf(call.argv))
    /\ memory[regs.rsp] = Word(regs.argc)
    /\ Holds(regs.argv, StringsOf(call.argv))
    /\ Holds(regs.envp, StringsOf(call.envp))
=============================================================================
