------------------------------- MODULE Paths -------------------------------
(***************************************************************************)
(* How the kernel reads a path: vfs_normalize_path of src/src/kernel/      *)
(* kvfs.py. A path that starts with a slash is the sequence of its         *)
(* components, <<>> for "/". What the function leaves is again a string,   *)
(* and it is not always a clean one: an empty component "" stands for      *)
(* nothing between two slashes or behind the last one, so <<"a", "">> is   *)
(* "/a/" and <<"a", "", "c">> is "/a//c".                                  *)
(***************************************************************************)
EXTENDS Integers, Sequences

Front(q) == SubSeq(q, 1, Len(q) - 1)

\* The inner loop for "..": cut back to just behind the last slash. The slash
\* stays, unless it is the first character.
BackToSlash(q) ==
  IF q = <<>> \/ q[Len(q)] = "" THEN q
  ELSE IF Len(q) = 1 THEN <<>> ELSE Append(Front(q), "")

\* The parent step: one character is dropped before the loop looks for a
\* slash. It is the slash itself if the output ends in one.
DotDot(q) ==
  IF q = <<>> THEN q
  ELSE IF q[Len(q)] = "" THEN BackToSlash(Front(q)) ELSE BackToSlash(q)

\* One turn of the loop over the components of the source; a component that is
\* copied gets a slash in front even if the output ends in one.
NormalizeStep(q, c) ==
  CASE c \in {"", "."} -> q
    [] c = ".."        -> DotDot(q)
    [] OTHER           -> Append(q, c)

\* vfs_normalize_path, for a path that is absolute.
Normalize(p) ==
  LET out[k \in 0 .. Len(p)] == IF k = 0 THEN <<>> ELSE NormalizeStep(out[k - 1], p[k])
  IN  out[Len(p)]

\* Reference: what the components mean. Every ".." takes away the component
\* before it.
CanonicalStep(q, c) ==
  CASE c \in {"", "."} -> q
    [] c = ".."        -> IF q = <<>> THEN q ELSE Front(q)
    [] OTHER           -> Append(q, c)

Canonical(p) ==
  LET out[k \in 0 .. Len(p)] == IF k = 0 THEN <<>> ELSE CanonicalStep(out[k - 1], p[k])
  IN  out[Len(p)]

\* No doubled and no trailing slash.
Clean(q) == \A k \in 1 .. Len(q) : q[k] # ""
=============================================================================
