--------------------------- MODULE ReaddirProofs ---------------------------
(***************************************************************************)
(* Proofs about Readdir: a listing names what was there exactly once, and  *)
(* its cookies are refused only when the directory changed, for any        *)
(* directory, any size of a page and any number of changes.                *)
(***************************************************************************)
EXTENDS Readdir, TLAPS

-----------------------------------------------------------------------------
(* Sequences. *)

\* A sequence over a set is one over a larger set.
LEMMA Widened ==
  ASSUME NEW S, NEW s \in Seq(S), NEW T, S \subseteq T
  PROVE  s \in Seq(T)
  OBVIOUS

\* The elements of two sequences that are joined.
LEMMA Joined ==
  ASSUME NEW S, NEW a \in Seq(S), NEW b \in Seq(S)
  PROVE  /\ a \o b \in Seq(S) /\ Len(a \o b) = Len(a) + Len(b)
         /\ \A i \in 1 .. Len(a) + Len(b) :
               (a \o b)[i] = IF i <= Len(a) THEN a[i] ELSE b[i - Len(a)]
  OBVIOUS

-----------------------------------------------------------------------------
TypeOK ==
    /\ dir \subseteq Entries /\ kept \subseteq Entries
    /\ out \in Seq(Nat) /\ cookie \in Nat
    /\ pc \in {"idle", "loop"}
    /\ disturbed \in BOOLEAN

(* The names so far are in the order of their cookies, and none is beyond    *)
(* the cookie of the next request.                                           *)
Ordered == Increasing(out) /\ \A i \in DOMAIN out : out[i] <= cookie

(* What was there all the time and is not beyond the cookie has been named.  *)
Complete == \A e \in kept : e <= cookie => \E i \in DOMAIN out : out[i] = e

(* The next request hands back the verifier of the directory.                *)
VerifierHeld == (~ disturbed /\ cookie # 0) => verf = cookieverf

Listing ==
    pc = "loop" =>
        /\ result = None
        /\ kept \subseteq dir /\ dir \subseteq seen
        /\ \A i \in DOMAIN out : out[i] \in seen
        /\ Ordered /\ Complete /\ VerifierHeld

IInv == TypeOK /\ Listing /\ EachOnce /\ RefusedOnlyIfChanged

(* No listing has begun when the client starts.                              *)
LEMMA InitInv == Init => IInv
<1> SUFFICES ASSUME Init PROVE IInv
  OBVIOUS
<1>1. TypeOK
  <2>1. disturbed \in BOOLEAN
    BY Zenon DEF Init
  <2> QED
    BY <2>1, ReaddirAssumption DEF Init, TypeOK
<1>2. result = None /\ pc = "idle"
  BY DEF Init
<1> QED
  BY <1>1, <1>2 DEF IInv, Listing, EachOnce, RefusedOnlyIfChanged, None

(* The beginning of readdir: nothing is named, and cookie 0 is before        *)
(* every entry.                                                              *)
LEMMA BeginStep == ASSUME IInv, readdir PROVE IInv'
<1>1. /\ pc' = "loop" /\ out' = <<>> /\ cookie' = 0 /\ result' = None
      /\ kept' = dir /\ seen' = dir /\ dir' = dir /\ disturbed' = FALSE
  BY DEF readdir
<1>2. TypeOK'
  <2>1. disturbed' \in BOOLEAN
    BY Zenon, <1>1
  <2> QED
    BY <1>1, <2>1 DEF IInv, TypeOK
<1>3. Listing'
  <2>1. DOMAIN out' = {}
    BY <1>1
  <2>2. Ordered' /\ VerifierHeld'
    BY <1>1, <2>1 DEF Ordered, Increasing, VerifierHeld
  <2>3. Complete'
    <3>1. \A e \in dir : e \in Nat /\ e # 0
      BY ReaddirAssumption DEF IInv, TypeOK
    <3> QED
      BY <1>1, <3>1 DEF Complete
  <2> QED
    BY <1>1, <2>1, <2>2, <2>3 DEF Listing
<1>4. EachOnce' /\ RefusedOnlyIfChanged'
  BY <1>1 DEF EachOnce, RefusedOnlyIfChanged, None
<1> QED
  BY <1>2, <1>3, <1>4 DEF IInv

(* A page is a sequence of entries beyond the cookie, in order; what it      *)
(* leaves out is beyond its last entry.                                      *)
LEMMA PageFacts ==
  ASSUME TypeOK, NEW page \in Pages
  PROVE  /\ page \in Seq(Nat) /\ DOMAIN page = 1 .. Len(page) /\ Len(page) \in Nat
         /\ \A i \in 1 .. Len(page) : page[i] \in dir /\ page[i] > cookie /\ page[i] \in Nat
         /\ Increasing(page)
         /\ page = <<>> => Left = {}
         /\ \A e \in dir : e > cookie =>
               \/ \E i \in 1 .. Len(page) : page[i] = e
               \/ \A i \in 1 .. Len(page) : page[i] < e
<1>1. PICK m \in 0 .. PageLimit : page \in [1 .. m -> Left]
  BY ReaddirAssumption DEF Pages, SeqOf
<1>2. dir \subseteq Nat
  BY ReaddirAssumption DEF TypeOK
<1>3. m \in Nat /\ page \in Seq(Left)
  BY <1>1, ReaddirAssumption
<1>4. Left \subseteq Nat /\ Left \subseteq dir
  BY Zenon, <1>2 DEF Left
<1>5. page \in Seq(Nat) /\ Len(page) = m /\ DOMAIN page = 1 .. m
  <2>1. page \in Seq(Nat)
    BY Zenon, <1>3, <1>4, Widened
  <2> QED
    BY <1>1, <1>3, <2>1
<1>6. \A i \in 1 .. m : page[i] \in Left
  BY <1>1
<1>7. \A e \in dir : e > cookie =>
         \/ \E i \in 1 .. m : page[i] = e
         \/ \A i \in 1 .. m : page[i] < e
  <2> SUFFICES ASSUME NEW e \in dir, e > cookie, ~ \E i \in 1 .. m : page[i] = e
               PROVE  \A i \in 1 .. m : page[i] < e
    OBVIOUS
  <2>1. e \in Left \ ToSet(page)
    BY <1>5 DEF Left, ToSet
  <2> QED
    BY <2>1, <1>5 DEF Pages
<1>8. Increasing(page) /\ (page = <<>> => Left = {})
  BY DEF Pages
<1> QED
  BY SMTT(30), <1>2, <1>3, <1>4, <1>5, <1>6, <1>7, <1>8 DEF Left

(* The names with a page after them.                                         *)
LEMMA Appended ==
  ASSUME NEW s \in Seq(Nat), NEW t \in Seq(Nat)
  PROVE  /\ s \o t \in Seq(Nat)
         /\ DOMAIN (s \o t) = 1 .. Len(s) + Len(t) /\ DOMAIN s = 1 .. Len(s)
         /\ Len(s) \in Nat /\ Len(t) \in Nat
         /\ \A i \in 1 .. Len(s) : (s \o t)[i] = s[i]
         /\ \A i \in 1 .. Len(t) : (s \o t)[Len(s) + i] = t[i]
         /\ \A i \in 1 .. Len(s) + Len(t) :
               i \in 1 .. Len(s) \/ \E j \in 1 .. Len(t) : i = Len(s) + j
<1>1. /\ s \o t \in Seq(Nat) /\ Len(s \o t) = Len(s) + Len(t)
      /\ \A i \in 1 .. Len(s) + Len(t) :
            (s \o t)[i] = IF i <= Len(s) THEN s[i] ELSE t[i - Len(s)]
  BY Joined, Zenon
<1>2. Len(s) \in Nat /\ Len(t) \in Nat /\ DOMAIN s = 1 .. Len(s)
  OBVIOUS
<1>3. DOMAIN (s \o t) = 1 .. Len(s) + Len(t)
  BY <1>1
<1>4. \A i \in 1 .. Len(s) : (s \o t)[i] = s[i]
  BY <1>1, <1>2
<1>5. \A i \in 1 .. Len(t) : (s \o t)[Len(s) + i] = t[i]
  <2> TAKE i \in 1 .. Len(t)
  <2>1. Len(s) + i \in 1 .. Len(s) + Len(t) /\ ~ (Len(s) + i <= Len(s)) /\ (Len(s) + i) - Len(s) = i
    BY <1>2
  <2> QED
    BY <1>1, <2>1
<1>6. \A i \in 1 .. Len(s) + Len(t) :
         i \in 1 .. Len(s) \/ \E j \in 1 .. Len(t) : i = Len(s) + j
  <2> TAKE i \in 1 .. Len(s) + Len(t)
  <2>1. CASE i <= Len(s)
    BY <1>2, <2>1
  <2>2. CASE ~ (i <= Len(s))
    <3>1. i - Len(s) \in 1 .. Len(t) /\ i = Len(s) + (i - Len(s))
      BY <1>2, <2>2
    <3> QED
      BY Zenon, <3>1
  <2> QED
    BY <2>1, <2>2
<1> QED
  BY <1>1, <1>2, <1>3, <1>4, <1>5, <1>6

(* In the order of their cookies, a page beyond every name keeps the order. *)
LEMMA OrderKept ==
  ASSUME NEW s \in Seq(Nat), NEW t \in Seq(Nat), NEW c \in Nat,
         Increasing(s), \A i \in 1 .. Len(s) : s[i] <= c,
         Increasing(t), \A i \in 1 .. Len(t) : t[i] > c
  PROVE  Increasing(s \o t)
<1> DEFINE u == s \o t
<1>1. /\ DOMAIN u = 1 .. Len(s) + Len(t) /\ DOMAIN s = 1 .. Len(s)
      /\ Len(s) \in Nat /\ Len(t) \in Nat
      /\ \A i \in 1 .. Len(s) : u[i] = s[i]
      /\ \A i \in 1 .. Len(t) : u[Len(s) + i] = t[i]
      /\ \A i \in 1 .. Len(s) + Len(t) :
            i \in 1 .. Len(s) \/ \E j \in 1 .. Len(t) : i = Len(s) + j
  BY Appended
<1>2. /\ \A i \in 1 .. Len(s) : u[i] = s[i] /\ s[i] \in Nat
      /\ \A i \in 1 .. Len(t) : u[Len(s) + i] = t[i] /\ t[i] \in Nat
      /\ DOMAIN t = 1 .. Len(t)
  BY <1>1
<1> HIDE DEF u
<1>3. ASSUME NEW i \in DOMAIN u, NEW j \in DOMAIN u, i < j PROVE u[i] < u[j]
  <2>1. CASE j \in 1 .. Len(s)
    <3>1. i \in 1 .. Len(s)
      BY <1>1, <1>3, <2>1
    <3>2. s[i] < s[j]
      BY <1>1, <1>3, <2>1, <3>1 DEF Increasing
    <3> QED
      BY <1>2, <2>1, <3>1, <3>2
  <2>2. ASSUME NEW k \in 1 .. Len(t), j = Len(s) + k PROVE u[i] < u[j]
    <3>1. u[j] = t[k] /\ t[k] > c /\ t[k] \in Nat
      BY <1>2, <2>2
    <3>2. CASE i \in 1 .. Len(s)
      <4>1. u[i] = s[i] /\ s[i] <= c /\ s[i] \in Nat
        BY SMTT(30), <1>2, <3>2
      <4> QED
        BY <3>1, <4>1
    <3>3. ASSUME NEW l \in 1 .. Len(t), i = Len(s) + l PROVE u[i] < u[j]
      <4>1. l < k
        BY <1>1, <1>3, <2>2, <3>3
      <4>2. u[i] = t[l]
        BY <1>2, <3>3
      <4>3. t[l] < t[k]
        BY Zenon, <1>2, <4>1 DEF Increasing
      <4> QED
        BY <3>1, <4>2, <4>3
    <3> QED
      BY <1>1, <3>2, <3>3
  <2> QED
    BY <1>1, <2>1, <2>2
<1> QED
  BY <1>3 DEF u, Increasing

(* A page continues the list: the order is kept, nothing up to the new       *)
(* cookie is left out, and the page that ends the loop leaves nothing.       *)
LEMMA PageStep == ASSUME IInv, ReadPage PROVE IInv'
<1>0. PICK page \in Pages : \E eof \in Eofs(page) :
         /\ verf' = NextVerf(page) /\ out' = out \o page
         /\ cookie' = NextCookie(page)
         /\ IF Ends(page, eof) THEN Return("ok") ELSE UNCHANGED <<pc, result>>
  BY DEF ReadPage
<1>1. PICK eof \in Eofs(page) :
         /\ pc = "loop" /\ verf' = cookieverf /\ out' = out \o page
         /\ cookie' = NextCookie(page)
         /\ IF Ends(page, eof) THEN Return("ok") ELSE UNCHANGED <<pc, result>>
         /\ dir' = dir /\ cookieverf' = cookieverf
         /\ kept' = kept /\ seen' = seen /\ disturbed' = disturbed
  BY <1>0 DEF ReadPage, NextVerf, history
<1>2. /\ page \in Seq(Nat) /\ DOMAIN page = 1 .. Len(page) /\ Len(page) \in Nat
      /\ \A i \in 1 .. Len(page) : page[i] \in dir /\ page[i] > cookie /\ page[i] \in Nat
      /\ Increasing(page)
      /\ page = <<>> => Left = {}
      /\ \A e \in dir : e > cookie =>
            \/ \E i \in 1 .. Len(page) : page[i] = e
            \/ \A i \in 1 .. Len(page) : page[i] < e
  BY PageFacts DEF IInv
<1>3. /\ out \in Seq(Nat) /\ cookie \in Nat /\ dir \subseteq Nat /\ kept \subseteq Nat
      /\ result = None /\ kept \subseteq dir /\ dir \subseteq seen
      /\ \A i \in DOMAIN out : out[i] \in seen
      /\ Increasing(out) /\ \A i \in DOMAIN out : out[i] <= cookie
  BY <1>1, ReaddirAssumption DEF IInv, TypeOK, Listing, Ordered
<1>4. Complete
  BY <1>1 DEF IInv, Listing
<1>5. /\ out' \in Seq(Nat)
      /\ DOMAIN out' = 1 .. Len(out) + Len(page) /\ DOMAIN out = 1 .. Len(out)
      /\ Len(out) \in Nat
      /\ \A i \in 1 .. Len(out) : out'[i] = out[i]
      /\ \A i \in 1 .. Len(page) : out'[Len(out) + i] = page[i]
      /\ \A i \in 1 .. Len(out) + Len(page) :
            i \in 1 .. Len(out) \/ \E j \in 1 .. Len(page) : i = Len(out) + j
  BY <1>1, <1>2, <1>3, Appended
<1>6. /\ cookie' \in Nat /\ cookie <= cookie'
      /\ \A i \in 1 .. Len(page) : page[i] <= cookie'
      /\ \A e \in dir : e > cookie /\ e <= cookie' => \E i \in 1 .. Len(page) : page[i] = e
  <2>1. CASE page = <<>>
    BY <1>1, <1>2, <1>3, <2>1 DEF NextCookie
  <2>2. CASE page # <<>>
    <3>1. Len(page) \in 1 .. Len(page) /\ cookie' = page[Len(page)]
      BY SMTT(30), <1>1, <1>2, <2>2 DEF NextCookie, Last
    <3>2. \A i \in 1 .. Len(page) : i < Len(page) => page[i] < page[Len(page)]
      BY <1>2, <3>1 DEF Increasing
    <3>3. \A i \in 1 .. Len(page) : page[i] <= cookie'
      BY <1>2, <3>1, <3>2
    <3>4. \A e \in dir : e > cookie /\ e <= cookie' => \E i \in 1 .. Len(page) : page[i] = e
      BY <1>2, <1>3, <3>1
    <3> QED
      BY SMTT(30), <1>2, <1>3, <3>1, <3>3, <3>4
  <2> QED
    BY <2>1, <2>2
<1>7. TypeOK'
  <2>1. disturbed' \in BOOLEAN
    BY <1>1 DEF IInv, TypeOK
  <2>2. pc' \in {"idle", "loop"}
    BY <1>1 DEF Return
  <2> QED
    BY SMTT(30), <1>1, <1>5, <1>6, <2>1, <2>2 DEF IInv, TypeOK
<1>8. Ordered'
  <2>1. \A i \in DOMAIN out' : out'[i] <= cookie'
    <3> TAKE i \in DOMAIN out'
    <3>1. CASE i \in 1 .. Len(out)
      <4>1. out'[i] = out[i] /\ out[i] <= cookie /\ out[i] \in Nat
        BY <1>3, <1>5, <3>1
      <4> QED
        BY <1>3, <1>6, <4>1
    <3>2. CASE \E j \in 1 .. Len(page) : i = Len(out) + j
      BY SMTT(30), <1>5, <1>6, <3>2
    <3> QED
      BY <1>5, <3>1, <3>2
  <2>2. \A i \in 1 .. Len(out) : out[i] <= cookie
    BY Zenon, <1>3, <1>5
  <2>3. Increasing(out')
    BY Zenon, <1>1, <1>2, <1>3, <2>2, OrderKept
  <2> QED
    BY <2>1, <2>3 DEF Ordered
<1>9. Complete'
  <2> SUFFICES ASSUME NEW e \in kept, e <= cookie' PROVE \E i \in DOMAIN out' : out'[i] = e
    BY <1>1 DEF Complete
  <2>1. CASE e <= cookie
    <3>1. PICK i \in DOMAIN out : out[i] = e
      BY <1>4, <2>1 DEF Complete
    <3>2. i \in DOMAIN out' /\ out'[i] = e
      BY <1>2, <1>5, <3>1
    <3> QED
      BY <3>2
  <2>2. CASE ~ (e <= cookie)
    <3>1. PICK i \in 1 .. Len(page) : page[i] = e
      BY <1>3, <1>6, <2>2
    <3>2. Len(out) + i \in DOMAIN out' /\ out'[Len(out) + i] = e
      BY <1>2, <1>5, <3>1
    <3> QED
      BY <3>2
  <2> QED
    BY <2>1, <2>2
<1>10. \A i \in DOMAIN out' : out'[i] \in seen'
  <2> TAKE i \in DOMAIN out'
  <2>1. CASE i \in 1 .. Len(out)
    BY SMTT(30), <1>1, <1>3, <1>5, <2>1
  <2>2. CASE \E j \in 1 .. Len(page) : i = Len(out) + j
    BY SMTT(30), <1>1, <1>2, <1>3, <1>5, <2>2
  <2> QED
    BY <1>5, <2>1, <2>2
<1>11. Listing'
  <2>1. VerifierHeld'
    BY <1>1 DEF VerifierHeld
  <2>2. pc' = "loop" => result' = None
    BY <1>1, <1>3 DEF Return
  <2> QED
    BY SMTT(30), <1>1, <1>3, <1>8, <1>9, <1>10, <2>1, <2>2 DEF Listing
<1>12. EachOnce'
  <2> SUFFICES ASSUME result' = "ok" PROVE EachOnce'
    BY DEF EachOnce
  <2>1. ASSUME NEW i \in DOMAIN out', NEW j \in DOMAIN out', out'[i] = out'[j]
        PROVE  i = j
    <3>1. i \in Nat /\ j \in Nat
      BY <1>2, <1>5
    <3>2. out'[i] \in Nat /\ out'[j] \in Nat
      BY <1>5
    <3>3. Increasing(out')
      BY <1>8 DEF Ordered
    <3>4. ~ (i < j) /\ ~ (j < i)
      <4>1. ~ (out'[i] < out'[j]) /\ ~ (out'[j] < out'[i])
        BY <2>1, <3>2
      <4> QED
        BY <3>3, <4>1 DEF Increasing
    <3> QED
      BY <3>1, <3>4
  <2>2. Ends(page, eof)
    BY <1>1, <1>3 DEF None
  <2>3. \A e \in dir : e > cookie => \E i \in 1 .. Len(page) : page[i] = e
    <3>1. CASE page = <<>>
      BY <1>2, <3>1 DEF Left
    <3>2. CASE page # <<>>
      <4>1. eof = TRUE
        BY <2>2, <3>2 DEF Ends
      <4>2. ToSet(page) = Left
        BY <1>1, <3>2, <4>1 DEF Eofs
      <4> QED
        BY <1>2, <4>2 DEF ToSet, Left
    <3> QED
      BY <3>1, <3>2
  <2>4. \A e \in kept : \E i \in DOMAIN out' : out'[i] = e
    <3> TAKE e \in kept
    <3>1. CASE e <= cookie
      <4>1. e <= cookie'
        BY <1>3, <1>6, <3>1
      <4> QED
        BY <1>1, <1>9, <4>1 DEF Complete
    <3>2. CASE ~ (e <= cookie)
      <4>1. PICK i \in 1 .. Len(page) : page[i] = e
        BY <1>3, <2>3, <3>2
      <4>2. Len(out) + i \in DOMAIN out' /\ out'[Len(out) + i] = e
        BY <1>2, <1>5, <4>1
      <4> QED
        BY <4>2
    <3> QED
      BY <3>1, <3>2
  <2>5. kept' \subseteq ToSet(out') /\ ToSet(out') \subseteq seen'
    BY <1>1, <1>10, <2>4 DEF ToSet
  <2> QED
    BY <2>1, <2>5 DEF EachOnce
<1>13. RefusedOnlyIfChanged'
  BY <1>1, <1>3 DEF RefusedOnlyIfChanged, Return, None
<1> QED
  BY <1>7, <1>11, <1>12, <1>13 DEF IInv

(* A listing that fails: the server refuses only the verifier of another     *)
(* state of the directory.                                                   *)
LEMMA FailStep == ASSUME IInv, ReadFails PROVE IInv'
<1>1. /\ pc = "loop" /\ pc' = "idle" /\ result' \in {"bad_cookie", "rpc"}
      /\ result' = "bad_cookie" => BadCookie
      /\ dir' = dir /\ kept' = kept /\ out' = out /\ cookie' = cookie
      /\ disturbed' = disturbed
  BY DEF ReadFails, Return, history
<1>2. TypeOK'
  <2>1. disturbed' \in BOOLEAN
    BY <1>1 DEF IInv, TypeOK
  <2> QED
    BY <1>1, <2>1 DEF IInv, TypeOK
<1>3. RefusedOnlyIfChanged'
  <2>1. VerifierHeld
    BY <1>1 DEF IInv, Listing
  <2>2. BadCookie => disturbed
    BY <2>1 DEF BadCookie, VerifierHeld
  <2> QED
    BY <1>1, <2>2 DEF RefusedOnlyIfChanged
<1>4. EachOnce' /\ Listing'
  BY <1>1 DEF EachOnce, Listing
<1> QED
  BY <1>2, <1>3, <1>4 DEF IInv

(* What another client adds is seen and not kept; what it removes is kept    *)
(* no longer; either way the listing is disturbed.                           *)
LEMMA ChangeStep == ASSUME IInv, OtherAdds \/ OtherRemoves PROVE IInv'
<1>1. /\ pc = "loop" /\ pc' = pc /\ out' = out /\ cookie' = cookie /\ result' = result
      /\ disturbed' = TRUE
  BY DEF OtherAdds, OtherRemoves, Changed, client
<1>2. /\ dir' \subseteq Entries /\ kept' \subseteq dir' /\ dir' \subseteq seen'
      /\ kept' \subseteq kept /\ seen \subseteq seen'
  <2>1. kept \subseteq dir /\ dir \subseteq seen /\ dir \subseteq Entries
    BY <1>1 DEF IInv, Listing, TypeOK
  <2>2. CASE OtherAdds
    BY <2>1, <2>2 DEF OtherAdds
  <2>3. CASE OtherRemoves
    BY <2>1, <2>3 DEF OtherRemoves
  <2> QED
    BY <2>2, <2>3
<1>3. TypeOK'
  <2>1. disturbed' \in BOOLEAN
    BY <1>1
  <2> QED
    BY <1>1, <1>2, <2>1 DEF IInv, TypeOK
<1>4. Listing'
  <2>1. Ordered' /\ VerifierHeld'
    BY <1>1 DEF IInv, Listing, Ordered, Increasing, VerifierHeld
  <2>2. Complete'
    BY <1>1, <1>2 DEF IInv, Listing, Complete
  <2> QED
    BY SMTT(30), <1>1, <1>2, <2>1, <2>2 DEF IInv, Listing
<1>5. EachOnce' /\ RefusedOnlyIfChanged'
  BY <1>1 DEF IInv, Listing, EachOnce, RefusedOnlyIfChanged, None
<1> QED
  BY <1>3, <1>4, <1>5 DEF IInv

(* Every step keeps the invariant.                                           *)
LEMMA StepInv == IInv /\ [Next]_vars => IInv'
<1> SUFFICES ASSUME IInv, [Next]_vars PROVE IInv'
  OBVIOUS
<1>1. CASE UNCHANGED vars
  BY <1>1 DEF IInv, vars, client, history, TypeOK, Listing, Ordered, Increasing,
     Complete, VerifierHeld, EachOnce, RefusedOnlyIfChanged, ToSet
<1> QED
  BY SMTT(30), <1>1, BeginStep, PageStep, FailStep, ChangeStep DEF Next

(* readdir of both backends: a listing that returns Ok names every entry     *)
(* that was there all the time exactly once, and none that never was.        *)
THEOREM ListsEachOnce == Spec => []EachOnce
<1>1. IInv => EachOnce
  BY DEF IInv
<1> QED
  BY <1>1, InitInv, StepInv, PTL DEF Spec

(* readdir of both backends: the server refuses a cookie only when another   *)
(* client changed the directory during the listing.                          *)
THEOREM CookieHeld == Spec => []RefusedOnlyIfChanged
<1>1. IInv => RefusedOnlyIfChanged
  BY DEF IInv
<1> QED
  BY <1>1, InitInv, StepInv, PTL DEF Spec
=============================================================================
