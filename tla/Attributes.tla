----------------------------- MODULE Attributes -----------------------------
(***************************************************************************)
(* The attributes and errors of the VFS, which do not depend on the        *)
(* version (attr.rs, error.rs), and their conversion from and to the types *)
(* of NFSv3 and NFSv4.  An optional value is <<>> or <<v>>.  In a text the *)
(* bytes below Radix (10 in the code) are the digits; '@' and '+' are the  *)
(* two bytes after them.                                                   *)
(***************************************************************************)
EXTENDS Compound

CONSTANT Radix

ASSUME RadixAssumption == Radix \in Nat /\ Radix >= 2 /\ Radix + 2 < Base

At == Radix
Plus == Radix + 1

unwrap_or(opt, default) == IF opt = <<>> THEN default ELSE opt[1]

from_nfs(value) ==
    IF value \in 1 .. 7
    THEN <<"Regular", "Directory", "Block", "Char", "Symlink", "Socket", "Fifo">>[value]
    ELSE "Unknown"

(* The text before the first '@', as str::parse::<u32> takes it. *)
parse_id(text) ==
    LET ats == {i \in DOMAIN text : text[i] = At}
        numeric == IF ats = {} THEN text ELSE Take(text, Min(ats) - 1)
        digits == IF numeric # <<>> /\ numeric[1] = Plus THEN Tail(numeric) ELSE numeric
        n == FoldLeft(LAMBDA v, d : v * Radix + d, 0, digits)
    IN IF digits # <<>> /\ (\A i \in DOMAIN digits : digits[i] < Radix) /\ n <= MaxU32
       THEN <<n>> ELSE <<>>

from_fattr3(a) ==
    [file_type |-> from_nfs(a[1]), mode |-> a[2], nlink |-> a[3], uid |-> a[4], gid |-> a[5],
     size |-> a[6], used |-> a[7], rdev |-> a[8], fsid |-> a[9], fileid |-> a[10],
     atime |-> a[11], mtime |-> a[12], ctime |-> a[13]]

(* and_then(parse_id) on an optional text. *)
id_of(opt) == IF opt = <<>> THEN <<>> ELSE parse_id(opt[1])

from_fattr4_TimesSwapped(a) ==
    LET opt(bit) == IF bit \in DOMAIN a THEN <<a[bit]>> ELSE <<>>
    IN [file_type |-> from_nfs(unwrap_or(opt(1), 0)), mode |-> unwrap_or(opt(33), 0),
        nlink |-> unwrap_or(opt(35), 1), uid |-> unwrap_or(id_of(opt(36)), 0),
        gid |-> unwrap_or(id_of(opt(37)), 0), size |-> unwrap_or(opt(4), 0),
        used |-> unwrap_or(opt(45), 0), fileid |-> unwrap_or(opt(20), 0),
        fsid |-> unwrap_or(opt(8), <<0, 0>>)[1], rdev |-> unwrap_or(opt(41), <<0, 0>>),
        atime |-> unwrap_or(opt(47), <<0, 0>>), mtime |-> unwrap_or(opt(52), <<0, 0>>),
        ctime |-> unwrap_or(opt(53), <<0, 0>>)]

from_fattr4(a) ==
    LET opt(bit) == IF bit \in DOMAIN a THEN <<a[bit]>> ELSE <<>>
    IN [file_type |-> from_nfs(unwrap_or(opt(1), 0)), mode |-> unwrap_or(opt(33), 0),
        nlink |-> unwrap_or(opt(35), 1), uid |-> unwrap_or(id_of(opt(36)), 0),
        gid |-> unwrap_or(id_of(opt(37)), 0), size |-> unwrap_or(opt(4), 0),
        used |-> unwrap_or(opt(45), 0), fileid |-> unwrap_or(opt(20), 0),
        fsid |-> unwrap_or(opt(8), <<0, 0>>)[1], rdev |-> unwrap_or(opt(41), <<0, 0>>),
        atime |-> unwrap_or(opt(47), <<0, 0>>), mtime |-> unwrap_or(opt(53), <<0, 0>>),
        ctime |-> unwrap_or(opt(52), <<0, 0>>)]

(* A SetAttr for each version: seconds are cut to a u32, and NFSv4 keeps     *)
(* only the mode and the size.                                               *)
to_sattr3(s) ==
    LET time(t) == IF t = <<>> THEN <<0, <<>>>>
                   ELSE <<2, <<<<t[1][1] % (MaxU32 + 1), t[1][2]>>>>>>
    IN <<s.mode, s.uid, s.gid, s.size, time(s.atime), time(s.mtime)>>

to_setattr4(s) == [mode |-> s.mode, size |-> s.size]

StatVfs(total, free, avail, files, ffree, favail) ==
    [total_blocks |-> total, free_blocks |-> free, avail_blocks |-> avail,
     total_files |-> files, free_files |-> ffree, avail_files |-> favail]

statvfs3(s) == StatVfs(s[2], s[3], s[4], s[5], s[6], s[7])

statvfs4(a) ==
    LET opt(bit) == IF bit \in DOMAIN a THEN a[bit] ELSE 0
    IN StatVfs(opt(44), opt(43), opt(42), opt(23), opt(22), opt(21))

(* The semantic variants of the common statuses; any other is kept. *)
from_nfsstat3(code) ==
    CASE code = 2 -> "NotFound" [] code = 20 -> "NotADirectory" [] code = 21 -> "IsADirectory"
      [] code = 17 -> "AlreadyExists" [] code \in {1, 13} -> "PermissionDenied"
      [] code = 66 -> "NotEmpty" [] code = 63 -> "NameTooLong" [] code = 28 -> "NoSpace"
      [] code = 30 -> "ReadOnly" [] code = 70 -> "Stale" [] code = 22 -> "InvalidArgument"
      [] OTHER -> "Proto"

from_nfsstat4(code) ==
    CASE code = 2 -> "NotFound" [] code = 20 -> "NotADirectory" [] code = 17 -> "AlreadyExists"
      [] code = 13 -> "PermissionDenied" [] code = 66 -> "NotEmpty" [] code = 70 -> "Stale"
      [] code = 22 -> "InvalidArgument" [] code = NFS4ERR_DENIED -> "Locked"
      [] OTHER -> "Proto"

(* The error of the VFS for an error of the protocol layer. *)
NfsError(err, code) ==
    CASE err = "Nfs3" -> from_nfsstat3(code)
      [] err = "Nfs4" -> from_nfsstat4(code)
      [] err = "Nlm" /\ code = 1 -> "Locked"
      [] OTHER -> "Proto"
=============================================================================
