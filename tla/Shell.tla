------------------------------- MODULE Shell -------------------------------
(***************************************************************************)
(* The shell of src/src/kernel/kshell.py, as the kernel task runs it once  *)
(* the boot tests are over, together with the programs it starts.          *)
(*                                                                         *)
(* The shell is kernel code: interrupts are masked and its calls never     *)
(* preempt it, so programs get the CPU only where it yields, between two   *)
(* lines and inside waitpid. Processes are those of ProcessTable, which    *)
(* Scheduler implements; the shell is the process Root. A path is the      *)
(* sequence of its components, as in Paths. Commands without a path        *)
(* argument other than "spawn" and "ls" only print and have no action;     *)
(* "spawn" is "run" of a fixed path, "ls" without a path is "ls .".        *)
(***************************************************************************)
EXTENDS Integers, Sequences, Paths

CONSTANTS
  Slots,       (* process slots besides the idle task's: 1 .. 7            *)
  Root,        (* the kernel task                                          *)
  Codes,       (* exit codes                                               *)
  Components,  (* what a path is made of; "" stands between two slashes    *)
  Arguments,   (* what users type as path: [abs, comps]                    *)
  DirNodes,    (* directories that have a node: {<<"tmp">>} in the code    *)
  Archive,     (* files at the first prompt: the initramfs's and those the *)
               (* self-tests wrote                                         *)
  Programs,    (* those of them that are valid images                      *)
  FreeHandles, (* handles of the kernel task beside the console's: 1       *)
  PathCap      (* shell_path_capacity, in components: 128 bytes in code    *)

ASSUME ShellAssumption ==
  /\ Slots \subseteq Nat /\ Root \in Slots
  /\ Programs \subseteq Archive
  /\ FreeHandles \in Nat /\ FreeHandles > 0
  /\ PathCap \in Nat

\* The archive is packed from a directory tree and the tests write to /tmp, so
\* no name there has a doubled slash. Users may type anything.
ASSUME NamesAssumption ==
  /\ "" \in Components
  /\ DirNodes \cup Archive \subseteq Seq(Components)
  /\ \A q \in DirNodes \cup Archive : Clean(q)
  /\ \A a \in Arguments : a.comps \in Seq(Components)

VARIABLES
  life, mother, code, (* ProcessTable                                      *)
  files,   (* paths of files                                               *)
  cwd,     (* cwd_buf: the current directory as typed, not normalised      *)
  pc,      (* "prompt", "opened": a command has its file open, "waiting"   *)
  cmd,     (* the command: [verb, path]; path is the content of path_buf   *)
  handles, (* handles in use beside the console's                          *)
  child,   (* the pid the shell waits for, Root for none                   *)
  halted,  (* "no", or why the kernel does not go on                       *)
  maker    (* history: who created the process in a slot                   *)

vars == <<life, mother, code, files, cwd, pc, cmd, handles, child, halted, maker>>

PT == INSTANCE ProcessTable

tables == <<life, mother, code, maker>>

NoCommand == [verb |-> "none", path |-> <<>>]
Verbs == {"ls", "cat", "stat", "write", "cd"}

\* shell_run sets up its buffers.
Init ==
  /\ PT!TableInit
  /\ files = Archive
  /\ cwd = <<>>
  /\ pc = "prompt" /\ cmd = NoCommand
  /\ handles = 0 /\ child = Root
  /\ halted = "no"
  /\ maker = [p \in Slots |-> Root]

-----------------------------------------------------------------------------
(***************************************************************************)
(* Paths and what they name (vfs_open_path; Vfs.tla has it in detail).     *)
(***************************************************************************)

\* shell_resolve_path; the case of "/" differs only in where the slash goes.
Resolve(a) == IF a.abs THEN a.comps ELSE cwd \o a.comps

IsDirectory(q) ==
  \/ q = <<>> \/ q \in DirNodes
  \/ \E f \in files : Len(f) > Len(q) /\ SubSeq(f, 1, Len(q)) = q

MayCreate(q) == q # <<>> /\ Front(q) \in DirNodes

\* The path exists, or the command creates it.
Creates(verb, q) == verb = "write" /\ q \notin files /\ ~IsDirectory(q) /\ MayCreate(q)
Names(verb, q) == q \in files \/ IsDirectory(q) \/ Creates(verb, q)

\* shell_resolve_path writes to path_buf without looking at its size. What is
\* behind it changes, and this model does not go on.
PathOverruns(a) ==
  /\ halted = "no" /\ pc = "prompt"
  /\ Len(Resolve(a)) > PathCap
  /\ halted' = "path buffer overrun"
  /\ UNCHANGED <<tables, files, cwd, pc, cmd, handles, child>>

\* A line is complete: the turn of shell_run's loop that executes it.
Typed(a) == halted = "no" /\ pc = "prompt" /\ Len(Resolve(a)) <= PathCap

-----------------------------------------------------------------------------
(***************************************************************************)
(* Commands on files. Between open and close the shell reads, writes and   *)
(* prints; every path through a command comes to sys_close.                *)
(***************************************************************************)

\* The open fails: no such path, or the programs hold all open-file records
\* (Handles.tla), or the pages, names or nodes of a new file are used up
\* (Vfs.tla). In the second case the file has already been created.
OpenFails(verb, a) ==
  LET q == Normalize(Resolve(a))
  IN  /\ Typed(a)
      /\ \/ ~Names(verb, q) /\ UNCHANGED files
         \/ Names(verb, q)
            /\ files' = IF Creates(verb, q) THEN files \cup {q} ELSE files
      /\ UNCHANGED <<tables, cwd, pc, cmd, handles, child, halted>>

Open(verb, a) ==
  LET q == Normalize(Resolve(a))
  IN  /\ Typed(a)
      /\ Names(verb, q) /\ handles < FreeHandles
      /\ files' = IF Creates(verb, q) THEN files \cup {q} ELSE files
      /\ cmd' = [verb |-> verb, path |-> Resolve(a)]
      /\ handles' = handles + 1
      /\ pc' = "opened"
      /\ UNCHANGED <<tables, cwd, child, halted>>

\* shell_run_ls, _cat, _stat and _write: their loops end at the first result
\* that is not positive, also when the kind of file is the wrong one.
FinishFile ==
  /\ halted = "no" /\ pc = "opened" /\ cmd.verb # "cd"
  /\ handles' = handles - 1
  /\ pc' = "prompt" /\ cmd' = NoCommand
  /\ UNCHANGED <<tables, files, cwd, child, halted>>

\* Mutant: the path is stored before its kind is looked at.
FinishCdUnchecked ==
  /\ halted = "no" /\ pc = "opened" /\ cmd.verb = "cd"
  /\ cwd' = cmd.path
  /\ handles' = handles - 1
  /\ pc' = "prompt" /\ cmd' = NoCommand
  /\ UNCHANGED <<tables, files, child, halted>>

\* Mutant: a cd to something that is no directory returns without a close.
FinishCdLeaks ==
  /\ halted = "no" /\ pc = "opened" /\ cmd.verb = "cd"
  /\ cwd' = IF IsDirectory(Normalize(cmd.path)) THEN cmd.path ELSE cwd
  /\ handles' = IF IsDirectory(Normalize(cmd.path)) THEN handles - 1 ELSE handles
  /\ pc' = "prompt" /\ cmd' = NoCommand
  /\ UNCHANGED <<tables, files, child, halted>>

\* shell_run_cd after the open: only a directory becomes the current one, and
\* its path is kept as it was typed.
FinishCd ==
  /\ halted = "no" /\ pc = "opened" /\ cmd.verb = "cd"
  /\ cwd' = IF IsDirectory(Normalize(cmd.path)) THEN cmd.path ELSE cwd
  /\ handles' = handles - 1
  /\ pc' = "prompt" /\ cmd' = NoCommand
  /\ UNCHANGED <<tables, files, child, halted>>

-----------------------------------------------------------------------------
(***************************************************************************)
(* Commands that start a program.                                          *)
(***************************************************************************)

\* sys_spawn_exec_ptr returned -1: no such file, or not a valid image.
RunFails(a) ==
  /\ Typed(a)
  /\ Normalize(Resolve(a)) \notin Programs
  /\ UNCHANGED vars

\* Process p creates one in the first free slot; without one,
\* scheduler_find_free_task_id panics.
SpawnBy(p) ==
  IF \A s \in Slots : life[s] # "free"
    THEN /\ halted' = "task table full"
         /\ UNCHANGED <<tables, child>>
    ELSE \E c \in Slots :
           /\ life[c] = "free" /\ \A s \in Slots : s < c => life[s] # "free"
           /\ PT!Create(p, c)
           /\ maker' = [maker EXCEPT ![c] = p]
           /\ child' = IF p = Root THEN c ELSE child
           /\ UNCHANGED halted

\* shell_run_exec and shell_run_spawn up to waitpid.
Run(a) ==
  /\ Typed(a)
  /\ Normalize(Resolve(a)) \in Programs
  /\ SpawnBy(Root)
  /\ pc' = IF halted' = "no" THEN "waiting" ELSE pc
  /\ UNCHANGED <<files, cwd, cmd, handles>>

\* waitpid returns to the shell: it has the program's code and the slot is free.
RunEnds ==
  /\ halted = "no" /\ pc = "waiting"
  /\ PT!Collect(Root, child)
  /\ maker' = [maker EXCEPT ![child] = Root]
  /\ pc' = "prompt" /\ child' = Root
  /\ UNCHANGED <<files, cwd, cmd, handles, halted>>

-----------------------------------------------------------------------------
(***************************************************************************)
(* Programs: they run where the shell yields.                              *)
(***************************************************************************)
ProgramRuns(p) == halted = "no" /\ pc \in {"prompt", "waiting"} /\ p # Root /\ life[p] = "live"

ProgramSpawns(p) ==
  /\ ProgramRuns(p)
  /\ SpawnBy(p)
  /\ UNCHANGED <<files, cwd, pc, cmd, handles>>

ProgramEnds(p, e) ==
  /\ ProgramRuns(p)
  /\ PT!End(p, e)
  /\ UNCHANGED <<files, cwd, pc, cmd, handles, child, halted, maker>>

ProgramCollects(p, c) ==
  /\ ProgramRuns(p)
  /\ PT!Collect(p, c)
  /\ maker' = [maker EXCEPT ![c] = Root]
  /\ UNCHANGED <<files, cwd, pc, cmd, handles, child, halted>>

\* A program's open with the create flag; its path has to be absolute.
ProgramCreates(p, a) ==
  /\ ProgramRuns(p)
  /\ a.abs /\ Creates("write", Normalize(a.comps))
  /\ files' = files \cup {Normalize(a.comps)}
  /\ UNCHANGED <<tables, cwd, pc, cmd, handles, child, halted>>

\* panic never returns.
Halted == halted # "no" /\ UNCHANGED vars

\* shell_execute_line finds out which command it is.
ExecuteLine(a) ==
  \/ PathOverruns(a)
  \/ \E verb \in Verbs : OpenFails(verb, a) \/ Open(verb, a)
  \/ RunFails(a) \/ Run(a)

Next ==
  \/ \E a \in Arguments : ExecuteLine(a)
  \/ FinishFile \/ FinishCd
  \/ RunEnds
  \/ \E p \in Slots :
       \/ ProgramSpawns(p)
       \/ \E a \in Arguments : ProgramCreates(p, a)
       \/ \E e \in Codes : ProgramEnds(p, e)
       \/ \E c \in Slots : ProgramCollects(p, c)
  \/ Halted

Spec == Init /\ [][Next]_vars

-----------------------------------------------------------------------------
(***************************************************************************)
(* Properties.                                                             *)
(***************************************************************************)

\* The current directory is kept as it was typed, one relative path behind
\* the other and never cleaned. Still it names an existing directory, and
\* vfs_normalize_path makes of it what its components mean, although that
\* function leaves doubled slashes for many paths: a cd to such a path fails.
CwdMeansDirectory ==
  /\ IsDirectory(Normalize(cwd))
  /\ Normalize(cwd) = Canonical(cwd)

\* A command leaves nothing behind. At the prompt the shell has its one spare
\* handle again, whatever the last open, fstat or read returned, and has
\* collected every program it started. So what fills the process table, until
\* a spawn panics, are processes that other programs left to it.
PromptClean ==
  pc = "prompt" =>
    /\ handles = 0
    /\ \A p \in Slots \ {Root} : life[p] # "free" => maker[p] # Root
=============================================================================
