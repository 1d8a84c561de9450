------------------------------- MODULE MCVfs -------------------------------
(***************************************************************************)
(* Vfs.tla with an archive of two programs in one directory. The paths are *)
(* the root, a directory without a node, /tmp, an archive file, the        *)
(* self-test's file, files that can be created, one behind a "." and two   *)
(* behind a ".." that vfs_normalize_path leaves with a trailing and with a *)
(* doubled slash (one of them finds the node table full), one that cannot  *)
(* be created, and one below a file. Two descriptors besides the one the   *)
(* self-test left are enough for a second view of a file that the first    *)
(* one truncates.                                                          *)
(***************************************************************************)
EXTENDS Vfs

MCInitramfs == <<[name |-> <<"bin", "hello">>, data |-> <<1>>],
                 [name |-> <<"bin", "demo">>, data |-> <<1, 1>>]>>

MCPaths == {<<>>, <<"bin">>, Tmp, <<"bin", "hello">>, SelfTestFile,
            <<"tmp", ".", "a">>, <<"tmp", "a", "..">>, <<"tmp", "a", "..", "b">>,
            <<"bin", "a">>, <<"tmp", "log.txt", "a">>}
=============================================================================
