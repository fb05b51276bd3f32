---------------------------- MODULE MCNamespace -----------------------------
(***************************************************************************)
(* Namespace on small instances, with the recursive definition of path     *)
(* resolution that the loop of resolve is compared with.                   *)
(***************************************************************************)
EXTENDS Namespace, TLC

CONSTANTS root, d, f, g, l, k, none

MCDirs == {root, d}
MCFiles == {f, g}
MCLinks == {l, k}
MCNames == {"a", "b"}
Abs(path) == [absolute |-> TRUE, comps |-> path]
Rel(path) == [absolute |-> FALSE, comps |-> path]
MCTargets == {Abs(<<"a">>), Rel(<<"b">>), Rel(<<"..", "b">>)}
MCLoops == {Abs(<<"a">>), Rel(<<"b">>)}
MCPaths == {<<"a">>, <<"b", ".", "a">>, <<"a", "..", "b">>}

Row(x, y) == "a" :> x @@ "b" :> y
\* Every tree whose directory d, if any, is in root.
MCTrees ==
  {t \in [MCDirs -> [MCNames -> {d, f, l, k, none}]] :
     /\ \A n \in MCNames : t[d][n] # d
     /\ ~(t[root]["a"] = d /\ t[root]["b"] = d)
     /\ (\A n \in MCNames : t[root][n] # d) => t[d] = Row(none, none)}
MCFewTrees ==
  {root :> Row(d, l) @@ d :> Row(f, k), root :> Row(l, k) @@ d :> Row(none, none),
   root :> Row(l, d) @@ d :> Row(none, f)}

\* A tree left alone, and one that other clients change all the time.
MCSettings ==
  [quiet |-> [version |-> 3, trees |-> MCTrees, targets |-> MCTargets, paths |-> MCPaths,
              others |-> {}],
   busy |-> [version |-> 4, trees |-> MCFewTrees, targets |-> MCLoops,
             paths |-> {<<"a", "b">>}, others |-> {l, k, none}]]

-----------------------------------------------------------------------------
(* The reference: a component that is a link is resolved, by the same      *)
(* definition, from the directory that holds it (or the root), and the     *)
(* rest from there.  n counts the links followed on the way.               *)

Failed(n) == [object |-> none, n |-> n]
RECURSIVE Walk(_, _, _, _)
Walk(dir, path, follow, n) ==
  IF path = <<>> THEN [object |-> dir, n |-> n]
  ELSE IF Head(path) = "." THEN Walk(dir, Tail(path), follow, n)
  ELSE LET o == Lookup(dir, Head(path)) IN
    IF o = none THEN Failed(n)
    ELSE IF o \notin Links \/ (Tail(path) = <<>> /\ ~follow) THEN Walk(o, Tail(path), follow, n)
    ELSE IF n = MAX_SYMLINK_DEPTH THEN Failed(n)
    ELSE LET w == Walk(IF target[o].absolute THEN root ELSE dir, target[o].comps, TRUE, n + 1)
         IN  IF w.object = none THEN w ELSE Walk(w.object, Tail(path), follow, w.n)

\* With the tree left alone, resolve and resolve_parent find what the
\* recursive definition finds: the object, the directory, or nothing.
ResolvesAsDefined ==
  pc # "idle" /\ quiet =>
    /\ \A i \in DOMAIN found : Walk(root, todo[i].path, todo[i].follow, 0).object = found[i]
    /\ pc = "resolve" => Walk(root, Current.path, Current.follow, 0).object
                         = Walk(cur, comps, Current.follow, depth).object
============================================================================
