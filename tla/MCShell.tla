------------------------------ MODULE MCShell ------------------------------
(***************************************************************************)
(* Shell.tla with the kernel task and two more slots, for a program and a  *)
(* child of it, so that orphans can fill the table. The archive has two    *)
(* levels of directories, the least depth at which ".." leaves a slash     *)
(* behind; "../.." from there is the least path that crosses it.           *)
(***************************************************************************)
EXTENDS Shell

MCDirNodes == {<<"tmp">>}
MCPrograms == {<<"a", "b", "run">>}
MCArchive == MCPrograms \cup {<<"a", "txt">>, <<"tmp", "n">>}

Rel(c) == [abs |-> FALSE, comps |-> c]
Abs(c) == [abs |-> TRUE, comps |-> c]

MCArguments ==
  {Abs(<<>>), Abs(<<"tmp">>), Abs(<<"tmp", "n", "..">>), Abs(<<"a", "b", "run">>),
   Rel(<<"a", "b">>), Rel(<<".">>), Rel(<<"..">>), Rel(<<"..", "..">>),
   Rel(<<"txt">>), Rel(<<"f">>)}
=============================================================================
