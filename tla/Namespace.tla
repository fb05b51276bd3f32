----------------------------- MODULE Namespace ------------------------------
(***************************************************************************)
(* Paths in NfsContext (nfs-client/src/context.rs): resolve and            *)
(* resolve_parent, one LOOKUP or READLINK at a time, and the operations    *)
(* that act on what they find.  The tree is the server's, and other        *)
(* clients change it between any two RPCs.                                 *)
(*                                                                         *)
(* A path is a sequence of components, as split_components leaves it; a    *)
(* target also says whether it starts with '/'.  LOOKUP of ".." is for the *)
(* server to answer: NFSv3 gives the parent, NFSv4 refuses it.             *)
(***************************************************************************)
EXTENDS Naturals, Sequences, FiniteSets

CONSTANTS Root, Dirs,         \* directories, Root among them
          Files, Links,       \* the other objects
          Names,              \* the names that entries have
          None,               \* no entry
          MAX_SYMLINK_DEPTH,  \* 40 in the code
          MaxOps,             \* bound: calls
          Settings            \* the circumstances under which behaviours are explored

\* Settings maps names to circumstances: the version of NFS, the first states of
\* the tree, the targets of links, the paths that callers use, and the entries
\* that other clients make (None: a removal).
ASSUME NamespaceAssumption ==
  /\ Root \in Dirs /\ MAX_SYMLINK_DEPTH \in Nat /\ MaxOps \in Nat
  /\ \A s \in DOMAIN Settings :
       /\ DOMAIN Settings[s] = {"version", "trees", "targets", "paths", "others"}
       /\ Settings[s].version \in {3, 4}
       /\ Settings[s].others \subseteq Files \union Links \union {None}

VARIABLES setting,                 \* which of Settings holds
          tree, target,            \* the server
          pc, op, todo, found,     \* the call: resolutions to do and done
          cur, comps, depth,       \* resolve's variables
          ops, result, quiet

resolving == <<cur, comps, depth>>
vars == <<setting, tree, target, pc, op, todo, found, resolving, ops, result, quiet>>

Circumstances == Settings[setting]
Version == Circumstances.version
Targets == Circumstances.targets

Objects == (Dirs \ {Root}) \union Files \union Links
Linked == {tree[d][n] : d \in Dirs, n \in Names} \ {None}
Unused(S) == S \ Linked
Empty == [n \in Names |-> None]
Parent(d) ==
  IF \E p \in Dirs, n \in Names : tree[p][n] = d
  THEN CHOOSE p \in Dirs : \E n \in Names : tree[p][n] = d
  ELSE d

\* LOOKUP at the server.
Lookup(dir, name) ==
  IF dir \notin Dirs THEN None
  ELSE IF name \in {".", ".."}
  THEN IF Version = 4 THEN None ELSE IF name = "." THEN dir ELSE Parent(dir)
  ELSE tree[dir][name]

NoOp == [kind |-> "none", object |-> None, target |-> None]
NoResult == [kind |-> "none", ok |-> TRUE, found |-> <<>>, todo |-> <<>>, object |-> None]

Init ==
  /\ setting \in DOMAIN Settings
  /\ tree \in Circumstances.trees /\ target \in [Links -> Targets]
  /\ pc = "idle" /\ op = NoOp /\ todo = <<>> /\ found = <<>>
  /\ cur = Root /\ comps = <<>> /\ depth = 0
  /\ ops = 0 /\ result = NoResult /\ quiet = TRUE

Return(ok, object) ==
  /\ pc' = "idle" /\ op' = NoOp /\ todo' = <<>> /\ found' = <<>>
  /\ cur' = Root /\ comps' = <<>> /\ depth' = 0
  /\ result' = [kind |-> op.kind, ok |-> ok, found |-> found, todo |-> todo,
                object |-> object]

-----------------------------------------------------------------------------
(* resolve and resolve_parent *)

Whole(path, follow) == [path |-> path, follow |-> follow, name |-> None]
\* resolve_parent: the directory of the last component, and that component.
Parental(path) ==
  [path |-> SubSeq(path, 1, Len(path) - 1), follow |-> TRUE, name |-> path[Len(path)]]
Current == todo[Len(found) + 1]

\* The first value of resolve's variables.
Start(path) == cur' = Root /\ comps' = path /\ depth' = 0

Name == Head(comps)
Found == Lookup(cur, Name)
Follows_NotLast(object, rest) == object \in Links /\ rest # <<>>
\* is_symlink && (!is_last || follow_final)
Follows(object, rest) == object \in Links /\ (rest # <<>> \/ Current.follow)

SkipDot ==
  /\ pc = "resolve" /\ comps # <<>> /\ Name = "."
  /\ comps' = Tail(comps)
  /\ UNCHANGED <<setting, tree, target, pc, op, todo, found, cur, depth, ops, result, quiet>>
LookupFails ==
  /\ pc = "resolve" /\ comps # <<>> /\ Name # "." /\ Found = None
  /\ Return(FALSE, None)
  /\ UNCHANGED <<setting, tree, target, ops, quiet>>
Descend ==
  /\ pc = "resolve" /\ comps # <<>> /\ Name # "." /\ Found # None
  /\ ~Follows(Found, Tail(comps))
  /\ cur' = Found /\ comps' = Tail(comps)
  /\ UNCHANGED <<setting, tree, target, pc, op, todo, found, depth, ops, result, quiet>>

TooDeep(d) == d > MAX_SYMLINK_DEPTH
Splice(link, rest) == target[link].comps \o rest
Base_Relative(link) == cur
Base(link) == IF target[link].absolute THEN Root ELSE cur
FollowLink_Uncounted ==
  /\ pc = "resolve" /\ comps # <<>> /\ Name # "." /\ Found # None
  /\ Follows(Found, Tail(comps)) /\ ~TooDeep(depth + 1)
  /\ comps' = Splice(Found, Tail(comps)) /\ cur' = Base(Found)
  /\ UNCHANGED <<setting, tree, target, pc, op, todo, found, depth, ops, result, quiet>>
FollowLink ==
  /\ pc = "resolve" /\ comps # <<>> /\ Name # "." /\ Found # None
  /\ Follows(Found, Tail(comps)) /\ ~TooDeep(depth + 1)
  /\ depth' = depth + 1
  /\ comps' = Splice(Found, Tail(comps)) /\ cur' = Base(Found)
  /\ UNCHANGED <<setting, tree, target, pc, op, todo, found, ops, result, quiet>>
TooManySymlinks ==
  /\ pc = "resolve" /\ comps # <<>> /\ Name # "." /\ Found # None
  /\ Follows(Found, Tail(comps)) /\ TooDeep(depth + 1)
  /\ Return(FALSE, None)
  /\ UNCHANGED <<setting, tree, target, ops, quiet>>
\* The link went away between LOOKUP and READLINK.
ReadlinkFails ==
  /\ pc = "resolve" /\ comps # <<>> /\ Name # "." /\ Found # None /\ Circumstances.others # {}
  /\ Follows(Found, Tail(comps)) /\ ~TooDeep(depth + 1)
  /\ Return(FALSE, None)
  /\ UNCHANGED <<setting, tree, target, ops, quiet>>

\* The path is resolved: the next one, or the call's own RPC.
Resolved ==
  /\ pc = "resolve" /\ comps = <<>>
  /\ found' = Append(found, cur)
  /\ IF Len(found) + 1 < Len(todo)
     THEN Start(todo[Len(found) + 2].path) /\ UNCHANGED pc
     ELSE pc' = "rpc" /\ UNCHANGED resolving
  /\ UNCHANGED <<setting, tree, target, op, todo, ops, result, quiet>>

-----------------------------------------------------------------------------
(* The calls: what they resolve, and their last RPC. *)

Call(kind, object, resolutions) ==
  /\ pc = "idle" /\ ops < MaxOps /\ ops' = ops + 1
  /\ op' = [NoOp EXCEPT !.kind = kind, !.object = object]
  /\ todo' = resolutions /\ found' = <<>> /\ pc' = "resolve"
  /\ Start(resolutions[1].path)
  /\ quiet' = TRUE /\ result' = NoResult
  /\ UNCHANGED <<setting, tree, target>>

\* stat, access, readdir, chmod, chown, truncate, statvfs; lstat, readlink.
stat(path) == Call("stat", None, <<Whole(path, TRUE)>>)
lstat(path) == Call("lstat", None, <<Whole(path, FALSE)>>)
open(path) == path # <<>> /\ Call("open", None, <<Parental(path)>>)
mkdir(path) ==
  path # <<>> /\ \E d \in Unused(Dirs \ {Root}) : Call("add", d, <<Parental(path)>>)
symlink(path) == path # <<>> /\ \E l \in Unused(Links) : Call("add", l, <<Parental(path)>>)
unlink(path) == path # <<>> /\ Call("unlink", None, <<Parental(path)>>)
rmdir(path) == path # <<>> /\ Call("rmdir", None, <<Parental(path)>>)
rename(from, to) ==
  from # <<>> /\ to # <<>> /\ Call("rename", None, <<Parental(from), Parental(to)>>)
link(old, new) == new # <<>> /\ Call("link", None, <<Whole(old, TRUE), Parental(new)>>)

Here == found[Len(found)]
HereName == todo[Len(found)].name
Entry(d, n) == d \in Dirs /\ n \in Names

\* The last RPC: the tree it leaves and the object it names, or failure; a
\* call whose reply is lost fails too, with the tree changed.
Inspect ==
  /\ pc = "rpc" /\ op.kind \in {"stat", "lstat"}
  /\ Return(TRUE, Here) /\ UNCHANGED <<tree, target>>
Opens(object) == object # None /\ (Version = 4 => object \in Files)
Open ==
  /\ pc = "rpc" /\ op.kind = "open" /\ Opens(Lookup(Here, HereName))
  /\ Return(TRUE, Lookup(Here, HereName)) /\ UNCHANGED <<tree, target>>
Adds(object) ==
  /\ Entry(Here, HereName) /\ tree[Here][HereName] = None /\ object # Here
  /\ tree' = [tree EXCEPT ![Here][HereName] = object]
  /\ \E ok \in BOOLEAN : Return(ok, object)
Add ==
  /\ pc = "rpc"
  /\ \/ /\ op.kind = "add" /\ op.object \notin Linked /\ Adds(op.object)
        /\ IF op.object \in Links
           THEN \E t \in Targets : target' = [target EXCEPT ![op.object] = t]
           ELSE UNCHANGED target
     \/ op.kind = "open" /\ (\E f \in Unused(Files) : Adds(f)) /\ UNCHANGED target
     \/ op.kind = "link" /\ found[1] \notin Dirs /\ Adds(found[1]) /\ UNCHANGED target
\* NFSv3 has RMDIR and REMOVE; the v4 backend sends REMOVE for both.
Removable(o) ==
  IF o \in Dirs THEN tree[o] = Empty /\ (Version = 4 \/ op.kind = "rmdir")
  ELSE Version = 4 \/ op.kind = "unlink"
Remove ==
  /\ pc = "rpc" /\ op.kind \in {"unlink", "rmdir"} /\ Entry(Here, HereName)
  /\ LET o == tree[Here][HereName] IN
       /\ o # None /\ Removable(o)
       /\ tree' = [tree EXCEPT ![Here][HereName] = None]
       /\ \E ok \in BOOLEAN : Return(ok, o)
  /\ UNCHANGED target
Rename ==
  /\ pc = "rpc" /\ op.kind = "rename" /\ Entry(found[1], todo[1].name) /\ Entry(Here, HereName)
  /\ LET o == tree[found[1]][todo[1].name] IN
       /\ o # None /\ o # Here
       /\ tree[Here][HereName] \notin Dirs /\ (o \in Dirs => tree[Here][HereName] = None)
       /\ tree' = [[tree EXCEPT ![found[1]][todo[1].name] = None] EXCEPT ![Here][HereName] = o]
       /\ \E ok \in BOOLEAN : Return(ok, o)
  /\ UNCHANGED target
RpcFails ==
  /\ pc = "rpc" /\ op.kind \notin {"stat", "lstat"}
  /\ Return(FALSE, None)
  /\ UNCHANGED <<tree, target>>

LastRpc == (Inspect \/ Open \/ Add \/ Remove \/ Rename \/ RpcFails)
           /\ UNCHANGED <<setting, ops, quiet>>

\* Another client adds, removes, replaces or moves an entry (external).
Other(d, n, o) ==
  /\ tree[d][n] # o /\ tree[d][n] \notin Dirs
  /\ tree' = [tree EXCEPT ![d][n] = o] /\ quiet' = FALSE
  /\ UNCHANGED <<setting, target, pc, op, todo, found, resolving, ops, result>>

Caller ==
  \E p \in Circumstances.paths :
    \/ stat(p) \/ lstat(p) \/ open(p) \/ mkdir(p) \/ symlink(p) \/ unlink(p) \/ rmdir(p)
    \/ \E q \in Circumstances.paths : rename(p, q) \/ link(p, q)
Resolve ==
  SkipDot \/ LookupFails \/ Descend \/ FollowLink \/ TooManySymlinks \/ ReadlinkFails \/ Resolved
Others == \E d \in Dirs, n \in Names, o \in Circumstances.others : Other(d, n, o)

Next == Caller \/ Resolve \/ LastRpc \/ Others
Spec == Init /\ [][Next]_vars
\* Every RPC is answered or fails.
FairSpec == Spec /\ WF_vars(Resolve) /\ WF_vars(LastRpc)

-----------------------------------------------------------------------------
(* Properties. *)

\* Whatever other clients do meanwhile, resolve with follow_final, and so
\* resolve_parent too, never ends at a symbolic link.
NeverEndsAtLink ==
  \A i \in DOMAIN result.found : result.todo[i].follow => result.found[i] \notin Links

\* Every call returns, even if other clients keep redirecting links.
CallReturns == pc # "idle" ~> pc = "idle"
============================================================================
