------------------------------- MODULE Readdir -------------------------------
(***************************************************************************)
(* Listing a directory page by page (readdir of backend_v3.rs and          *)
(* backend_v4.rs), while other clients add and remove entries.             *)
(*                                                                         *)
(* An entry is its cookie: the server keeps entries in the order of their  *)
(* cookies, an entry keeps its cookie while it exists, and cookie 0 asks   *)
(* for the beginning.  A strict server changes the cookie verifier when    *)
(* the directory changes, and refuses to continue under another one        *)
(* (NFS3ERR_BAD_COOKIE, NFS4ERR_NOT_SAME); the others keep it.  The server *)
(* (external) returns at least one entry while there are entries left, and *)
(* may tell the end with the last of them or with an empty page after it.  *)
(***************************************************************************)
EXTENDS Naturals, Sequences, SequencesExt

CONSTANTS Entries,     \* the cookies that entries may have
          PageLimit,   \* the entries that fit in a page (dircount, maxcount)
          MaxChanges,  \* bound on the changes other clients make
          Settings     \* records [strict: BOOLEAN]

ASSUME ReaddirAssumption == /\ Entries \subseteq Nat \ {0}
                            /\ PageLimit \in Nat \ {0} /\ MaxChanges \in Nat
                            /\ \A s \in Settings : s.strict \in BOOLEAN

VARIABLES
    setting,
    dir,        \* server: the entries there are
    cookieverf, \* server: the verifier of the directory
    changes,    \* the number of changes so far
    pc,         \* "idle" or "loop"
    out, cookie, verf,  \* the locals of readdir
    result,     \* what readdir returned last: None, "ok", "bad_cookie", "rpc"
    kept, seen, \* history: the entries there during the whole listing; at some time of it
    disturbed   \* history: whether the directory changed during the listing

client == <<pc, out, cookie, verf, result>>
history == <<kept, seen, disturbed>>
vars == <<setting, dir, cookieverf, changes, client, history>>

None == "none"

Init == /\ setting \in Settings
        /\ dir \in SUBSET Entries /\ cookieverf = 1 /\ changes = 0
        /\ pc = "idle" /\ out = <<>> /\ cookie = 0 /\ verf = 0 /\ result = None
        /\ kept = {} /\ seen = {} /\ disturbed = FALSE

(* The listing begins at cookie 0 with a verifier of zeros. *)
readdir ==
    /\ pc = "idle"
    /\ pc' = "loop" /\ out' = <<>> /\ cookie' = 0 /\ verf' = 0 /\ result' = None
    /\ kept' = dir /\ seen' = dir /\ disturbed' = FALSE
    /\ UNCHANGED <<setting, dir, cookieverf, changes>>

Return(r) == pc' = "idle" /\ result' = r

(* What is left after the client's cookie. *)
Left == {e \in dir : e > cookie}

(* A page: the first entries of what is left, in order, and at least one if  *)
(* there are any; and whether the server says that it is the last.           *)
Increasing(s) == \A i, j \in DOMAIN s : i < j => s[i] < s[j]
Pages ==
    {page \in SeqOf(Left, PageLimit) :
        /\ Increasing(page)
        /\ \A e \in Left \ ToSet(page) : \A i \in DOMAIN page : page[i] < e
        /\ page = <<>> => Left = {}}
Eofs(page) ==
    IF page = <<>> THEN {TRUE} ELSE IF ToSet(page) = Left THEN BOOLEAN ELSE {FALSE}

BadCookie == setting.strict /\ cookie # 0 /\ verf # cookieverf

(* The verifier of the next request, the cookie, and the end of the loop. *)
NextVerf_Kept(page) == verf
NextVerf(page) == cookieverf

NextCookie(page) == IF page = <<>> THEN cookie ELSE Last(page)

Ends_ShortPage(page, eof) == eof \/ Len(page) < PageLimit
Ends(page, eof) == eof \/ page = <<>>

ReadPage ==
    /\ pc = "loop" /\ ~ BadCookie
    /\ \E page \in Pages : \E eof \in Eofs(page) :
          /\ verf' = NextVerf(page)
          /\ out' = out \o page
          /\ cookie' = NextCookie(page)
          /\ IF Ends(page, eof) THEN Return("ok") ELSE UNCHANGED <<pc, result>>
    /\ UNCHANGED <<setting, dir, cookieverf, changes, history>>

(* The `?` of the call: the server's refusal, or a failure of the RPC. *)
ReadFails ==
    /\ pc = "loop"
    /\ \/ BadCookie /\ Return("bad_cookie")
       \/ Return("rpc")
    /\ UNCHANGED <<setting, dir, cookieverf, changes, out, cookie, verf, history>>

(* Another client changes the directory. *)
Changed == /\ pc = "loop" /\ changes < MaxChanges /\ changes' = changes + 1
           /\ disturbed' = TRUE
           /\ cookieverf' = IF setting.strict THEN cookieverf + 1 ELSE cookieverf
           /\ UNCHANGED <<setting, client>>

OtherAdds == \E e \in Entries \ dir : /\ Changed /\ dir' = dir \cup {e}
                                      /\ seen' = seen \cup {e} /\ UNCHANGED kept
OtherRemoves == \E e \in dir : /\ Changed /\ dir' = dir \ {e}
                               /\ kept' = kept \ {e} /\ UNCHANGED seen

Next == readdir \/ ReadPage \/ ReadFails \/ OtherAdds \/ OtherRemoves

Spec == Init /\ [][Next]_vars

-----------------------------------------------------------------------------
(* EachOnce: a listing that returns Ok names every entry that was there      *)
(* during the whole listing exactly once, names no entry twice, and none     *)
(* that was never there, whatever other clients add or remove between two    *)
(* pages and wherever the pages end (backend_v3.rs 225-248, backend_v4.rs    *)
(* 154-175).                                                                 *)
EachOnce ==
    result = "ok" => /\ \A i, j \in DOMAIN out : out[i] = out[j] => i = j
                     /\ kept \subseteq ToSet(out) /\ ToSet(out) \subseteq seen

(* RefusedOnlyIfChanged: the server refuses a cookie of this client only     *)
(* when another client changed the directory since the listing began: the    *)
(* client hands back the verifier that came with the cookie                  *)
(* (backend_v3.rs 233, backend_v4.rs 160).                                   *)
RefusedOnlyIfChanged == result = "bad_cookie" => disturbed
=============================================================================
