---------------------------- MODULE TeaBar_proofs ----------------------------
(***************************************************************************)
(* The bars, for any users, numbers of bars, requests and faults: whatever *)
(* sessions wait, updates are on their way, saves fail or restarts come,   *)
(* the messages on their way lead the briefs of every user to what the     *)
(* bars keep of him.                                                       *)
(*                                                                         *)
(* What TeaBar's properties say of the moments at which nothing is under   *)
(* way is not inductive: it has to be said of every moment.  The brief     *)
(* list of a user stands to a bar in one of three ways (Standing).  Every  *)
(* field of an update on its way turns one standing into another and is    *)
(* only right in some (Turned, Allowed), so that a queue leads from what   *)
(* the list shows now to what it will show (Comes); and that has to be     *)
(* what the bar keeps of the user (Due).  Sound says so of every bar of    *)
(* which nothing was spoilt, with what each session that waits relies on   *)
(* until its answer is there (Relies), as the sessions that could take it  *)
(* away conflict with it (Apart).                                          *)
(*                                                                         *)
(* Chips are counted in a ledger of its own (Ledger): what users will have *)
(* after the messages on their way, what the bars will hold and what was   *)
(* spent is, at every moment, what there was at first.                     *)
(*                                                                         *)
(* The folds and recursive functions over the fields of an update are      *)
(* reasoned about through the values they take one field after another:    *)
(* well-founded induction over the numbers (Least, UpTo, Always) gives     *)
(* what SequenceTheorems states with an operator parameter.                *)
(***************************************************************************)
EXTENDS TeaBar, FiniteSetTheorems, SequenceTheorems, WellFoundedInduction, TLAPS

-----------------------------------------------------------------------------
(* What a brief says and what it will say                                  *)

(* How the brief list of a user stands to a bar: no brief of it, the brief *)
(* of its master, or the brief of a member, without chips.                 *)
Standing == {"none", "own", "zero"}

Once(s, b) == \A i, j \in DOMAIN s : s[i].tbid = b /\ s[j].tbid = b => i = j

Shows(s, u, b, x) ==
  /\ x \in Standing /\ Once(s, b)
  /\ x = "none" <=> ~Has(s, b)
  /\ \A k \in DOMAIN s : s[k].tbid = b =>
       IF x = "own" THEN s[k].master = u ELSE s[k].master # u /\ s[k].chips = 0

(* What a field of an update of u does to that, and where it may.          *)
Turned(x, op, u, b) ==
  IF op.field = "add" /\ op.tbid = b THEN IF op.master = u THEN "own" ELSE "zero"
  ELSE IF op.field = "del" /\ op.tbid = b THEN "none" ELSE x
Allowed(x, op, u, b) ==
  /\ op.field = "add" /\ op.tbid = b => x = "none" /\ (op.master = u \/ op.n = 0)
  /\ op.field = "bar" /\ op.tbid = b => x # "zero"

(* The fields of a message lead from x to y, along g.                      *)
Leads(x, ops, u, b, y) ==
  \E g \in [0 .. Len(ops) -> Standing] :
    /\ g[0] = x /\ g[Len(ops)] = y
    /\ \A k \in 1 .. Len(ops) :
         Allowed(g[k - 1], ops[k], u, b) /\ g[k] = Turned(g[k - 1], ops[k], u, b)

(* The messages on their way lead from the briefs there are to y.          *)
Comes(s, q, u, b, y) ==
  \E h \in [0 .. Len(q) -> Standing] :
    /\ Shows(s, u, b, h[0]) /\ h[Len(q)] = y
    /\ \A k \in 1 .. Len(q) : Leads(h[k - 1], q[k].ops, u, b, h[k])

-----------------------------------------------------------------------------
(* The inductive invariant *)

(* The message of a drop.                                                  *)
DropOf(m, b) == m.kind = "drop" /\ b \in m.tbids
(* The brief of the bar is going or gone, and the bar does not know yet.   *)
Going(u, b) ==
  << u, b >> \in drops \/ \E k \in DOMAIN updates[u] : DropOf(updates[u][k], b)

(* Whom the bar will keep, and what his brief will say.                    *)
On(u, b)  == Exists(b) /\ GetTeaBar(b).users[u] > IF Going(u, b) THEN 1 ELSE 0
Due(u, b) == IF ~On(u, b) THEN "none" ELSE IF GetTeaBar(b).master = u THEN "own" ELSE "zero"

(* The bars and the numbers they have.                                     *)
Given == 1 .. max_tbid
BarsOK ==
  /\ max_tbid \in 0 .. MaxTbid
  /\ cached \in [Tbids -> Bar \cup {None}] /\ stored \in [Tbids -> Bar \cup {None}]
  /\ \A b \in Tbids : b > max_tbid => cached[b] = None /\ stored[b] = None

UserOK ==
  /\ briefs \in [Users -> Seq(Brief)] /\ chips \in [Users -> Nat] /\ spent \in Nat
  /\ \A u \in Users : \A k \in DOMAIN briefs[u] : briefs[u][k].tbid \in Given

(* A session is about one bar, or creates one, or is about all bars of a   *)
(* user.                                                                   *)
SlotOK(s, given) ==
  /\ s \in Asked /\ s.tbids \subseteq given
  /\ s.kind \notin {"create", "list", "transfer"} => \E b \in given : s.tbids = {b}
  /\ s.kind = "transfer" => /\ s.by # s.who
                            /\ \A k \in DOMAIN s.seen[s.by] : s.seen[s.by][k].tbid \in s.tbids
AskedOK ==
  /\ asked \in [Slots -> Asked \cup {None}]
  /\ \A i \in Slots : asked[i] # None => SlotOK(asked[i], Given)

(* An update is about the bars of its session, and only puts and costs     *)
(* take chips away.                                                        *)
OpOK(op, kind, tbids) ==
  /\ op \in Op /\ (op.field = "purse" \/ op.tbid \in tbids)
  /\ op.field = "add" => op.tbid \in Tbids /\ op.master \in Users /\ op.n \in Nat
  /\ op.field = "purse" => kind = "put" \/ op.n \in Nat
  /\ op.field = "bar" => kind \in {"put", "cost"}
  /\ kind \in {"put", "cost"} => op.field \in {"bar", "purse"}
MessageOK(m, given) ==
  /\ m \in Update /\ m.tbids \subseteq given
  /\ \A j \in DOMAIN m.ops : OpOK(m.ops[j], m.kind, m.tbids)
UpdatesOK ==
  /\ updates \in [Users -> Seq(Update)]
  /\ \A u \in Users : \A k \in DOMAIN updates[u] : MessageOK(updates[u][k], Given)

DropsOK  == drops \subseteq Users \X Given
CountsOK == requests \in 0 .. MaxRequests /\ faults \in 0 .. MaxFaults /\ spoilt \subseteq Tbids

Shape == BarsOK /\ UserOK /\ AskedOK /\ UpdatesOK /\ DropsOK /\ CountsOK

(* What a session relies on, of a bar it is about.                         *)
Relies(s, b) ==
  /\ s.kind = "agree" =>
       (s.who \in GetTeaBar(b).applied /\ ~Has(s.seen[s.who], b) => ~On(s.who, b))
  /\ s.kind = "drop" => On(s.by, b) /\ ~Going(s.by, b)
  /\ s.kind = "list" => On(s.by, b)
  /\ s.kind = "remove" =>
       /\ s.who # GetTeaBar(b).master /\ ~Going(s.who, b)
       /\ Has(s.seen[s.who], b) \/ ~On(s.who, b)
  /\ s.kind = "transfer" =>
       \A u \in {s.by, s.who} : ~Going(u, b) /\ Shows(s.seen[u], u, b, Due(u, b))
  /\ s.kind = "put" => s.by = GetTeaBar(b).master
  /\ s.kind = "cost" =>
       \A k \in DOMAIN s.seen[s.by] :
         s.seen[s.by][k].tbid = b /\ s.seen[s.by][k].chips > 0 => s.by = GetTeaBar(b).master

(* The sessions about a bar.                                               *)
Sessions(b) == { asked[i] : i \in { j \in Slots : asked[j] # None /\ b \in asked[j].tbids } }

(* Sessions that may spoil each other are not both there.                  *)
Apart(b) ==
  \A i, j \in Slots :
    i # j /\ asked[i] # None /\ asked[j] # None /\ b \in asked[i].tbids /\ b \in asked[j].tbids
      => {asked[i].kind, asked[j].kind} \notin Conflicts

(* A drop is at one place at a time, and somebody waits for it.            *)
DropsOnce(b) ==
  \A u \in Users : \A k \in DOMAIN updates[u] : DropOf(updates[u][k], b) =>
    /\ updates[u][k].live /\ << u, b >> \notin drops
    /\ \A l \in DOMAIN updates[u] : DropOf(updates[u][l], b) => l = k

Kept(b) == cached[b] # None =>
  /\ stored[b] # None
  /\ stored[b].master = cached[b].master /\ stored[b].users = cached[b].users

(* A bar of which nothing was spoilt.                                      *)
Sound(b) ==
  /\ Kept(b) /\ Apart(b) /\ DropsOnce(b)
  /\ \A u \in Users : Comes(briefs[u], updates[u], u, b, Due(u, b))
  /\ Exists(b) =>
       /\ \A u \in Users :
            /\ LET d == IF Going(u, b) THEN 1 ELSE 0 IN GetTeaBar(b).users[u] \in {d, d + 1}
            /\ u = GetTeaBar(b).master => On(u, b)
       /\ \A s \in Sessions(b) : Relies(s, b)

IInv ==
  /\ Shape
  /\ \A b \in Tbids \ spoilt : Sound(b)

-----------------------------------------------------------------------------
(* Induction *)

(* A set of natural numbers has a least one: the order of the numbers is   *)
(* well-founded.                                                           *)
LEMMA Least ==
  ASSUME NEW S \in SUBSET Nat, S # {}
  PROVE  \E m \in S : \A k \in S : ~(k < m)
<1> DEFINE R == OpToRel(<, Nat)
<1>1. IsWellFoundedOn(R, Nat)
  BY NatLessThanWellFounded
<1>2. \E x \in S : \A y \in S : ~(<< y, x >> \in R)
  <2> HIDE DEF R
  <2> QED BY <1>1, WFMin
<1> QED
  BY <1>2 DEF OpToRel

(* What holds of 0, and of k + 1 when it holds of k, holds up to n.        *)
LEMMA UpTo ==
  ASSUME NEW n \in Nat, NEW S, 0 \in S,
         \A k \in 0 .. n : k < n /\ k \in S => k + 1 \in S
  PROVE  \A k \in 0 .. n : k \in S
<1> DEFINE D == { k \in 0 .. n : k \notin S }
<1> SUFFICES ASSUME D # {} PROVE FALSE
  OBVIOUS
<1>1. D \in SUBSET Nat
  OBVIOUS
<1>2. PICK m \in D : \A k \in D : ~(k < m)
  <2> HIDE DEF D
  <2> QED BY <1>1, Least
<1>3. m \in 0 .. n /\ m # 0
  OBVIOUS
<1>4. m - 1 \in 0 .. n /\ m - 1 < n /\ m - 1 < m /\ (m - 1) + 1 = m
  BY <1>3
<1>5. m - 1 \in S
  BY <1>2, <1>4
<1>6. m \in S
  BY <1>4, <1>5
<1> QED
  BY <1>6

(* All numbers.                                                            *)
LEMMA Always ==
  ASSUME NEW S, 0 \in S, \A k \in Nat : k \in S => k + 1 \in S
  PROVE  \A k \in Nat : k \in S
<1> SUFFICES ASSUME NEW n \in Nat PROVE n \in S
  OBVIOUS
<1>1. \A k \in 0 .. n : k < n /\ k \in S => k + 1 \in S
  OBVIOUS
<1>2. \A k \in 0 .. n : k \in S
  BY <1>1, UpTo
<1> QED
  BY <1>2

-----------------------------------------------------------------------------
(* The fields of a message, one after the other *)

After(v, op) == IF Fits(v) THEN Done(v, op) ELSE v
IsRun(f, w, ops, n) ==
  f = [k \in 0 .. n |->
         IF k = 0 THEN w
         ELSE IF Fits(f[k - 1]) THEN Done(f[k - 1], ops[k]) ELSE f[k - 1]]

(* A recursive function over the fields of an update exists: the library's *)
(* theorem asks for its value at every number, which Always gives.         *)
LEMMA RunExists ==
  ASSUME NEW w, NEW ops, NEW n \in Nat
  PROVE  \E f : IsRun(f, w, ops, n)
<1> DEFINE Run(f, m) == f = [k \in 0 .. m |-> IF k = 0 THEN w ELSE After(f[k - 1], ops[k])]
           S == { m \in Nat : \E f : Run(f, m) }
<1>1. 0 \in S
  <2>1. Run([k \in 0 .. 0 |-> w], 0)
    OBVIOUS
  <2> QED BY <2>1
<1>2. ASSUME NEW m \in Nat, m \in S PROVE m + 1 \in S
  <2>1. PICK f : Run(f, m)
    BY <1>2
  <2> DEFINE g == [k \in 0 .. m + 1 |-> IF k <= m THEN f[k] ELSE After(f[m], ops[m + 1])]
  <2>2. ASSUME NEW k \in 0 .. m + 1
        PROVE  g[k] = IF k = 0 THEN w ELSE After(g[k - 1], ops[k])
    <3>1. CASE k = 0
      BY <3>1, <2>1
    <3>2. CASE k # 0 /\ k <= m
      <4>1. k - 1 \in 0 .. m + 1 /\ k - 1 <= m /\ k \in 0 .. m
        BY <3>2
      <4>2. g[k] = f[k] /\ g[k - 1] = f[k - 1]
        BY <4>1, <3>2
      <4>3. f[k] = After(f[k - 1], ops[k])
        BY <2>1, <4>1, <3>2
      <4> QED BY <4>2, <4>3, <3>2
    <3>3. CASE k = m + 1
      <4>1. m \in 0 .. m + 1 /\ k - 1 = m /\ k # 0 /\ ~(k <= m)
        BY <3>3
      <4>2. g[m] = f[m]
        BY <4>1
      <4>3. g[k] = After(f[m], ops[m + 1])
        BY <4>1
      <4> QED BY <4>1, <4>2, <4>3, <3>3
    <3> QED BY <3>1, <3>2, <3>3
  <2>3. g = [k \in 0 .. m + 1 |-> g[k]]
    OBVIOUS
  <2>4. Run(g, m + 1)
    <3> HIDE DEF g
    <3> QED BY <2>2, <2>3
  <2> HIDE DEF g, Run
  <2> QED BY <2>4
<1>3. n \in S
  <2> HIDE DEF S
  <2> QED BY <1>1, <1>2, Always
<1>4. PICK f : Run(f, n)
  BY <1>3
<1> QED
  BY <1>4 DEF After, IsRun

(* Update messages are done by the run of their fields.                    *)
LEMMA AllDoneRuns ==
  ASSUME NEW w, NEW ops, Len(ops) \in Nat
  PROVE  \E f : /\ f = [k \in 0 .. Len(ops) |-> IF k = 0 THEN w ELSE After(f[k - 1], ops[k])]
                /\ AllDone(w, ops) = f[Len(ops)]
<1> DEFINE after == CHOOSE f : IsRun(f, w, ops, Len(ops))
<1>1. \E f : IsRun(f, w, ops, Len(ops))
  BY RunExists
<1>2. IsRun(after, w, ops, Len(ops))
  BY <1>1
<1>3. AllDone(w, ops) = after[Len(ops)]
  BY DEF AllDone, IsRun
<1> QED
  BY <1>2, <1>3 DEF After, IsRun
-----------------------------------------------------------------------------
(* Lists of briefs *)

(* While the fields of a message are done, chips may be below zero; briefs *)
(* are of the bars T.                                                      *)
LooseBrief(T) == [ tbid : T, master : Users, chips : Int ]
Loose(T) == [ briefs : Seq(LooseBrief(T)), chips : Int ]

OpTyped(op, T) ==
  op \in Op /\ (op.field = "add" => op.tbid \in T /\ op.master \in Users /\ op.n \in Nat)

(* The place At chooses is one of the bar's brief.                         *)
LEMMA AtFound ==
  ASSUME NEW s, Len(s) \in Nat, DOMAIN s = 1 .. Len(s), NEW b, Has(s, b)
  PROVE  At(s, b) \in DOMAIN s /\ s[At(s, b)].tbid = b
<1> DEFINE I == { i \in 1 .. Len(s) : s[i].tbid = b }
<1>1. I \in SUBSET Nat /\ I # {}
  BY DEF Has
<1>2. PICK m \in I : \A k \in I : ~(k < m)
  <2> HIDE DEF I
  <2> QED BY <1>1, Least
<1>3. \E x \in I : \A y \in I : x =< y
  BY <1>1, <1>2
<1>4. Min(I) \in I
  <2> HIDE DEF I
  <2> QED BY <1>3 DEF Min
<1>5. At(s, b) = Min(I)
  BY <1>1 DEF At, SelectInSeq
<1> QED
  BY <1>4, <1>5

(* What is left of a sequence without its k-th element.                    *)
LEMMA Removed ==
  ASSUME NEW T, NEW s \in Seq(T), NEW k \in 1 .. Len(s)
  PROVE  /\ RemoveAt(s, k) \in Seq(T)
         /\ Len(RemoveAt(s, k)) = Len(s) - 1
         /\ \A i \in 1 .. Len(s) - 1 : RemoveAt(s, k)[i] = IF i < k THEN s[i] ELSE s[i + 1]
<1> DEFINE p == SubSeq(s, 1, k - 1)  r == SubSeq(s, k + 1, Len(s))
<1>1. Len(s) \in Nat /\ \A i \in 1 .. Len(s) : s[i] \in T
  BY LenProperties
<1>2. /\ p \in Seq(T) /\ Len(p) = k - 1
      /\ \A i \in 1 .. k - 1 : p[i] = s[i]
  <2>1. /\ 1 \in Int /\ k - 1 \in Int /\ \A i \in 1 .. k - 1 : s[i] \in T
    BY <1>1
  <2>2. /\ p \in Seq(T) /\ Len(p) = IF 1 <= k - 1 THEN (k - 1) - 1 + 1 ELSE 0
        /\ \A i \in 1 .. (k - 1) - 1 + 1 : p[i] = s[1 + i - 1]
    BY <2>1, SubSeqProperties
  <2> HIDE DEF p
  <2> QED BY <2>2, <1>1
<1>3. /\ r \in Seq(T) /\ Len(r) = Len(s) - k
      /\ \A i \in 1 .. Len(s) - k : r[i] = s[k + i]
  <2>1. /\ k + 1 \in Int /\ Len(s) \in Int /\ \A i \in k + 1 .. Len(s) : s[i] \in T
    BY <1>1
  <2>2. /\ r \in Seq(T) /\ Len(r) = IF k + 1 <= Len(s) THEN Len(s) - (k + 1) + 1 ELSE 0
        /\ \A i \in 1 .. Len(s) - (k + 1) + 1 : r[i] = s[(k + 1) + i - 1]
    BY <2>1, SubSeqProperties
  <2> HIDE DEF r
  <2> QED BY <2>2, <1>1
<1>4. RemoveAt(s, k) = p \o r
  BY DEF RemoveAt
<1> HIDE DEF p, r
<1>5. /\ p \o r \in Seq(T) /\ Len(p \o r) = Len(p) + Len(r)
      /\ \A i \in 1 .. Len(p) + Len(r) : (p \o r)[i] = IF i <= Len(p) THEN p[i] ELSE r[i - Len(p)]
  BY <1>2, <1>3, ConcatProperties
<1>6. ASSUME NEW i \in 1 .. Len(s) - 1
      PROVE  (p \o r)[i] = IF i < k THEN s[i] ELSE s[i + 1]
  <2>1. CASE i < k
    BY <2>1, <1>1, <1>2, <1>3, <1>5
  <2>2. CASE ~(i < k)
    <3>1. i - (k - 1) \in 1 .. Len(s) - k /\ k + (i - (k - 1)) = i + 1 /\ ~(i <= k - 1)
      BY <2>2, <1>1
    <3>2. i \in 1 .. Len(p) + Len(r) /\ Len(p) = k - 1
      BY <1>1, <1>2, <1>3
    <3>3. (p \o r)[i] = r[i - (k - 1)]
      BY <3>1, <3>2, <1>5
    <3>4. r[i - (k - 1)] = s[i + 1]
      BY <3>1, <1>3
    <3> QED BY <3>3, <3>4, <2>2
  <2> QED BY <2>1, <2>2
<1> QED
  BY <1>1, <1>2, <1>3, <1>4, <1>5, <1>6

(* Fields keep the types.                                                  *)
LEMMA DoneLoose ==
  ASSUME NEW T, NEW w \in Loose(T), NEW op, OpTyped(op, T)
  PROVE  Done(w, op) \in Loose(T)
<1> DEFINE k == At(w.briefs, op.tbid)
<1>0. /\ w.briefs \in Seq(LooseBrief(T)) /\ w.chips \in Int /\ op.n \in Int
      /\ w = [briefs |-> w.briefs, chips |-> w.chips]
  BY DEF Loose, OpTyped, Op
<1>s. Len(w.briefs) \in Nat /\ DOMAIN w.briefs = 1 .. Len(w.briefs)
  BY <1>0, LenProperties
<1>1. CASE op.field = "add"
  <2> DEFINE new == [ tbid |-> op.tbid, master |-> op.master, chips |-> op.n ]
  <2>1. new \in LooseBrief(T)
    BY <1>1 DEF OpTyped, LooseBrief
  <2>2. Append(w.briefs, new) \in Seq(LooseBrief(T))
    BY <2>1, <1>0, AppendProperties
  <2>3. Done(w, op) = [w EXCEPT !.briefs = Append(@, new)]
    BY <1>1 DEF Done
  <2> QED BY <2>2, <2>3, <1>0 DEF Loose
<1>2. CASE op.field = "del" /\ Has(w.briefs, op.tbid)
  <2>1. k \in 1 .. Len(w.briefs)
    BY <1>2, <1>s, AtFound
  <2>2. RemoveAt(w.briefs, k) \in Seq(LooseBrief(T))
    BY <2>1, <1>0, Removed
  <2>3. Done(w, op) = [w EXCEPT !.briefs = RemoveAt(@, k)]
    BY <1>2 DEF Done
  <2> QED BY <2>2, <2>3, <1>0 DEF Loose
<1>3. CASE op.field = "bar" /\ Has(w.briefs, op.tbid)
  <2>1. k \in 1 .. Len(w.briefs)
    BY <1>3, <1>s, AtFound
  <2> DEFINE e == [w.briefs[k] EXCEPT !.chips = @ + op.n]
             n == [w.briefs EXCEPT ![k] = e]
  <2>2. Done(w, op) = [w EXCEPT !.briefs = n]
    <3>1. Done(w, op) = [w EXCEPT !.briefs[k].chips = @ + op.n]
      BY <1>3 DEF Done
    <3> QED BY <3>1, <1>0
  <2> HIDE DEF k
  <2>3. e \in LooseBrief(T)
    <3>1. w.briefs[k] \in LooseBrief(T)
      BY <2>1, <1>0, ElementOfSeq
    <3> QED BY <3>1, <1>0, SMTT(30) DEF LooseBrief
  <2> HIDE DEF e
  <2>4. n \in Seq(LooseBrief(T))
    BY <2>1, <2>3, <1>0, ExceptSeq
  <2> QED BY <2>2, <2>4, <1>0 DEF Loose
<1>4. CASE op.field = "purse"
  <2>1. Done(w, op) = [w EXCEPT !.chips = @ + op.n]
    BY <1>4 DEF Done
  <2> QED BY <2>1, <1>0 DEF Loose
<1>5. CASE /\ op.field # "add" /\ op.field # "purse"
           /\ op.field = "del" => ~Has(w.briefs, op.tbid)
           /\ op.field = "bar" => ~Has(w.briefs, op.tbid)
  <2>1. Done(w, op) = w
    BY <1>5 DEF Done
  <2> QED BY <2>1
<1> QED
  BY <1>1, <1>2, <1>3, <1>4, <1>5
(* A field turns the standing of a bar as Turned says, where it is         *)
(* allowed.                                                                *)
LEMMA DoneShows ==
  ASSUME NEW T, NEW w \in Loose(T), NEW op, OpTyped(op, T), NEW u, NEW b, NEW x,
         Shows(w.briefs, u, b, x), Allowed(x, op, u, b)
  PROVE  Shows(Done(w, op).briefs, u, b, Turned(x, op, u, b))
<1> DEFINE s == w.briefs
           k == At(s, op.tbid)
<1>0. /\ s \in Seq(LooseBrief(T)) /\ w = [briefs |-> s, chips |-> w.chips]
      /\ op.n \in Int /\ op.field \in {"add", "del", "bar", "purse"}
  BY DEF Loose, OpTyped, Op
<1>s. /\ Len(s) \in Nat /\ DOMAIN s = 1 .. Len(s)
      /\ \A i \in 1 .. Len(s) : s[i] \in LooseBrief(T)
  BY <1>0, LenProperties
<1>1. CASE op.field = "add"
  <2> DEFINE new == [ tbid |-> op.tbid, master |-> op.master, chips |-> op.n ]
             t == Append(s, new)
  <2>1. new \in LooseBrief(T)
    BY <1>1 DEF OpTyped, LooseBrief
  <2>2. /\ Len(t) = Len(s) + 1 /\ DOMAIN t = 1 .. Len(s) + 1
        /\ \A i \in 1 .. Len(s) : t[i] = s[i]
        /\ t[Len(s) + 1] = new
    BY <2>1, <1>0, <1>s, AppendProperties, LenProperties
  <2>3. Done(w, op).briefs = t
    <3>1. Done(w, op) = [w EXCEPT !.briefs = Append(@, new)]
      BY <1>1 DEF Done
    <3> QED BY <3>1, <1>0
  <2> HIDE DEF t
  <2>4. CASE op.tbid # b
    <3>1. Turned(x, op, u, b) = x
      BY <2>4, <1>1 DEF Turned
    <3>2. new.tbid # b
      BY <2>4
    <3>3. \A i \in DOMAIN t : t[i].tbid = b => i \in DOMAIN s /\ t[i] = s[i]
      BY <2>2, <3>2, <1>s
    <3>4. \A i \in DOMAIN s : i \in DOMAIN t /\ t[i] = s[i]
      BY <2>2, <1>s
    <3> HIDE DEF new
    <3>5. Shows(t, u, b, x)
      BY <3>3, <3>4 DEF Shows, Once, Has
    <3> QED BY <3>1, <3>5, <2>3
  <2>5. CASE op.tbid = b
    <3>1. x = "none" /\ ~Has(s, b) /\ (op.master = u \/ op.n = 0)
      BY <2>5, <1>1 DEF Allowed, Shows
    <3>2. \A i \in DOMAIN t : t[i].tbid = b => i = Len(s) + 1
      BY <2>2, <3>1, <1>s DEF Has
    <3>3. Len(s) + 1 \in DOMAIN t /\ t[Len(s) + 1].tbid = b
      BY <2>2, <2>5, <1>s
    <3>4. t[Len(s) + 1].master = op.master /\ t[Len(s) + 1].chips = op.n
      BY <2>2
    <3>5. Turned(x, op, u, b) = IF op.master = u THEN "own" ELSE "zero"
      BY <2>5, <1>1 DEF Turned
    <3>6. Once(t, b) /\ Has(t, b)
      BY <3>2, <3>3 DEF Once, Has
    <3> HIDE DEF new
    <3>7. CASE op.master = u
      BY <3>2, <3>4, <3>5, <3>6, <3>7, <2>3 DEF Shows, Standing
    <3>8. CASE op.master # u
      BY <3>1, <3>2, <3>4, <3>5, <3>6, <3>8, <2>3 DEF Shows, Standing
    <3> QED BY <3>7, <3>8
  <2> QED BY <2>4, <2>5
<1>2. CASE op.field = "del" /\ Has(s, op.tbid)
  <2> DEFINE t == RemoveAt(s, k)
  <2>1. k \in 1 .. Len(s) /\ s[k].tbid = op.tbid
    BY <1>2, <1>s, AtFound
  <2>2. t \in Seq(LooseBrief(T)) /\ Len(t) = Len(s) - 1
        /\ \A i \in 1 .. Len(s) - 1 : t[i] = IF i < k THEN s[i] ELSE s[i + 1]
    BY <2>1, <1>0, Removed
  <2>3. DOMAIN t = 1 .. Len(s) - 1
    BY <2>2, LenProperties
  <2>4. Done(w, op).briefs = t
    <3>1. Done(w, op) = [w EXCEPT !.briefs = RemoveAt(@, k)]
      BY <1>2 DEF Done
    <3> QED BY <3>1, <1>0
  <2> HIDE DEF t, k
  <2> DEFINE o(i) == IF i < k THEN i ELSE i + 1
  <2>5. \A i \in DOMAIN t : o(i) \in DOMAIN s /\ o(i) # k /\ t[i] = s[o(i)]
    BY <2>1, <2>2, <2>3, <1>s
  <2>6. \A i, j \in DOMAIN t : o(i) = o(j) => i = j
    BY <2>1, <2>3, <1>s
  <2>7. \A j \in DOMAIN s : j # k => \E i \in DOMAIN t : o(i) = j
    <3> SUFFICES ASSUME NEW j \in DOMAIN s, j # k PROVE \E i \in DOMAIN t : o(i) = j
      OBVIOUS
    <3>1. CASE j < k
      <4>1. j \in DOMAIN t /\ o(j) = j
        BY <3>1, <2>1, <2>3, <1>s
      <4> QED BY <4>1
    <3>2. CASE ~(j < k)
      <4>1. j - 1 \in DOMAIN t /\ o(j - 1) = j
        BY <3>2, <2>1, <2>3, <1>s
      <4> QED BY <4>1
    <3> QED BY <3>1, <3>2
  <2> HIDE DEF o
  <2>8. CASE op.tbid # b
    <3>1. Turned(x, op, u, b) = x
      BY <2>8, <1>2 DEF Turned
    <3>2. Once(t, b)
      BY <2>5, <2>6 DEF Once, Shows
    <3>3. Has(t, b) <=> Has(s, b)
      BY <2>5, <2>7, <2>8, <2>1 DEF Has
    <3>4. Shows(t, u, b, x)
      BY <3>2, <3>3, <2>5 DEF Shows
    <3> QED BY <3>1, <3>4, <2>4
  <2>9. CASE op.tbid = b
    <3>1. Turned(x, op, u, b) = "none"
      BY <2>9, <1>2 DEF Turned
    <3>2. \A i \in DOMAIN t : t[i].tbid # b
      BY <2>5, <2>1, <2>9, <1>s DEF Shows, Once
    <3>3. Shows(t, u, b, "none")
      BY <3>2 DEF Shows, Once, Has, Standing
    <3> QED BY <3>1, <3>3, <2>4
  <2> QED BY <2>8, <2>9
<1>3. CASE op.field = "bar" /\ Has(s, op.tbid)
  <2> DEFINE e == [s[k] EXCEPT !.chips = @ + op.n]
             t == [s EXCEPT ![k] = e]
  <2>1. k \in 1 .. Len(s) /\ s[k].tbid = op.tbid
    BY <1>3, <1>s, AtFound
  <2>2. Done(w, op).briefs = t
    <3>1. Done(w, op) = [w EXCEPT !.briefs[k].chips = @ + op.n]
      BY <1>3 DEF Done
    <3> QED BY <3>1, <1>0
  <2>3. e.tbid = s[k].tbid /\ e.master = s[k].master
    <3>1. s[k] \in LooseBrief(T)
      BY <2>1, <1>s
    <3> QED BY <3>1 DEF LooseBrief
  <2> HIDE DEF e, k
  <2>4. DOMAIN t = DOMAIN s /\ \A i \in DOMAIN s : t[i] = IF i = k THEN e ELSE s[i]
    BY <1>s
  <2> HIDE DEF t
  <2>5. Turned(x, op, u, b) = x
    BY <1>3 DEF Turned
  <2>6. \A i \in DOMAIN s : t[i].tbid = s[i].tbid /\ t[i].master = s[i].master
    BY <2>3, <2>4
  <2>7. \A i \in DOMAIN s : t[i].tbid = b /\ x # "own" => t[i] = s[i]
    <3> SUFFICES ASSUME NEW i \in DOMAIN s, t[i].tbid = b, x # "own", t[i] # s[i] PROVE FALSE
      OBVIOUS
    <3>1. i = k /\ s[k].tbid = b
      BY <2>4, <2>6
    <3>2. x \in Standing /\ x # "none"
      BY <3>1, <2>1, <1>s DEF Shows, Has
    <3>3. x = "zero" /\ op.tbid = b
      BY <3>1, <3>2, <2>1 DEF Standing
    <3> QED BY <3>3, <1>3 DEF Allowed
  <2>8. Once(t, b) /\ (Has(t, b) <=> Has(s, b))
    BY <2>4, <2>6 DEF Once, Has, Shows
  <2>9. Shows(t, u, b, x)
    BY <2>4, <2>6, <2>7, <2>8 DEF Shows
  <2> QED BY <2>2, <2>5, <2>9
<1>4. CASE op.field = "purse"
  <2>1. Done(w, op).briefs = s
    <3>1. Done(w, op) = [w EXCEPT !.chips = @ + op.n]
      BY <1>4 DEF Done
    <3> QED BY <3>1, <1>0
  <2>2. Turned(x, op, u, b) = x
    BY <1>4 DEF Turned
  <2> QED BY <2>1, <2>2
<1>5. CASE /\ op.field \in {"del", "bar"} /\ ~Has(s, op.tbid)
  <2>1. Done(w, op) = w
    BY <1>5 DEF Done
  <2>2. Turned(x, op, u, b) = x
    BY <1>5 DEF Turned, Shows
  <2> QED BY <2>1, <2>2
<1> QED
  BY <1>0, <1>1, <1>2, <1>3, <1>4, <1>5

(* A field other than a payment of the bar's chips leaves no bar with less *)
(* than zero.                                                              *)
LEMMA DoneFits ==
  ASSUME NEW T, NEW w \in Loose(T), NEW op, OpTyped(op, T), Fits(w),
         op.field # "bar", op.field = "purse" => op.n \in Nat
  PROVE  Fits(Done(w, op))
<1> DEFINE s == w.briefs
           k == At(s, op.tbid)
<1>0. /\ s \in Seq(LooseBrief(T)) /\ w = [briefs |-> s, chips |-> w.chips]
      /\ op.field \in {"add", "del", "bar", "purse"} /\ w.chips \in Int
  BY DEF Loose, OpTyped, Op
<1>s. /\ Len(s) \in Nat /\ DOMAIN s = 1 .. Len(s)
      /\ \A i \in 1 .. Len(s) : s[i] \in LooseBrief(T)
  BY <1>0, LenProperties
<1>f. w.chips >= 0 /\ \A i \in DOMAIN s : s[i].chips >= 0
  BY DEF Fits
<1>1. CASE op.field = "add"
  <2> DEFINE new == [ tbid |-> op.tbid, master |-> op.master, chips |-> op.n ]
             t == Append(s, new)
  <2>1. new \in LooseBrief(T) /\ new.chips >= 0
    BY <1>1 DEF OpTyped, LooseBrief
  <2>2. /\ DOMAIN t = 1 .. Len(s) + 1
        /\ \A i \in 1 .. Len(s) : t[i] = s[i]
        /\ t[Len(s) + 1] = new
    BY <2>1, <1>0, <1>s, AppendProperties, LenProperties
  <2>3. Done(w, op) = [w EXCEPT !.briefs = Append(@, new)]
    BY <1>1 DEF Done
  <2>4. Done(w, op).briefs = t /\ Done(w, op).chips = w.chips
    BY <2>3, <1>0
  <2> HIDE DEF t, new
  <2> QED BY <2>1, <2>2, <2>4, <1>f, <1>s DEF Fits
<1>2. CASE op.field = "del" /\ Has(s, op.tbid)
  <2> DEFINE t == RemoveAt(s, k)
  <2>1. k \in 1 .. Len(s)
    BY <1>2, <1>s, AtFound
  <2>2. t \in Seq(LooseBrief(T)) /\ Len(t) = Len(s) - 1
        /\ \A i \in 1 .. Len(s) - 1 : t[i] = IF i < k THEN s[i] ELSE s[i + 1]
    BY <2>1, <1>0, Removed
  <2>3. DOMAIN t = 1 .. Len(s) - 1
    BY <2>2, LenProperties
  <2>4. Done(w, op) = [w EXCEPT !.briefs = RemoveAt(@, k)]
    BY <1>2 DEF Done
  <2>5. Done(w, op).briefs = t /\ Done(w, op).chips = w.chips
    BY <2>4, <1>0
  <2> HIDE DEF t, k
  <2>6. ASSUME NEW i \in DOMAIN t PROVE t[i].chips >= 0
    <3>1. i \in 1 .. Len(s) - 1 /\ i \in DOMAIN s /\ i + 1 \in DOMAIN s
      BY <2>3, <1>s
    <3>2. t[i] = s[i] \/ t[i] = s[i + 1]
      BY <2>2, <3>1
    <3> QED BY <3>1, <3>2, <1>f
  <2> QED BY <2>5, <2>6, <1>f DEF Fits
<1>3. CASE op.field = "del" /\ ~Has(s, op.tbid)
  BY <1>3 DEF Done
<1>4. CASE op.field = "purse"
  <2>1. Done(w, op) = [w EXCEPT !.chips = @ + op.n]
    BY <1>4 DEF Done
  <2>2. Done(w, op).briefs = s /\ Done(w, op).chips = w.chips + op.n
    BY <2>1, <1>0
  <2> QED BY <2>2, <1>0, <1>f, <1>4 DEF Fits
<1> QED
  BY <1>0, <1>1, <1>2, <1>3, <1>4

OpsTyped(ops, T) == ops \in Seq(Op) /\ \A k \in DOMAIN ops : OpTyped(ops[k], T)

(* A message keeps the types and, when it is not refused, leads where its  *)
(* fields lead.                                                            *)
LEMMA MessageDone ==
  ASSUME NEW T, NEW w \in Loose(T), NEW ops, OpsTyped(ops, T)
  PROVE  /\ AllDone(w, ops) \in Loose(T)
         /\ Fits(AllDone(w, ops)) =>
              \A u, b, x, y : Shows(w.briefs, u, b, x) /\ Leads(x, ops, u, b, y)
                                => Shows(AllDone(w, ops).briefs, u, b, y)
<1>1. Len(ops) \in Nat /\ DOMAIN ops = 1 .. Len(ops)
  BY LenProperties DEF OpsTyped
<1>2. PICK f : /\ f = [k \in 0 .. Len(ops) |-> IF k = 0 THEN w ELSE After(f[k - 1], ops[k])]
               /\ AllDone(w, ops) = f[Len(ops)]
  BY <1>1, AllDoneRuns
<1>3. f[0] = w /\ \A k \in 0 .. Len(ops) : k < Len(ops) => f[k + 1] = After(f[k], ops[k + 1])
  BY <1>1, <1>2
<1>4. \A k \in 0 .. Len(ops) : f[k] \in Loose(T)
  <2> DEFINE S == { k \in 0 .. Len(ops) : f[k] \in Loose(T) }
  <2>1. 0 \in S
    BY <1>1, <1>3
  <2>2. ASSUME NEW k \in 0 .. Len(ops), k < Len(ops), k \in S PROVE k + 1 \in S
    <3>1. k + 1 \in DOMAIN ops /\ k + 1 \in 0 .. Len(ops)
      BY <1>1, <2>2
    <3>2. OpTyped(ops[k + 1], T)
      BY <3>1 DEF OpsTyped
    <3>3. f[k + 1] \in Loose(T)
      BY <3>2, <2>2, <1>3, DoneLoose DEF After
    <3> QED BY <3>1, <3>3
  <2> HIDE DEF S
  <2>3. \A k \in 0 .. Len(ops) : k \in S
    BY <1>1, <2>1, <2>2, UpTo
  <2> QED BY <2>3 DEF S
<1>5. ASSUME Fits(f[Len(ops)]), NEW u, NEW b, NEW x, NEW y,
             Shows(w.briefs, u, b, x), Leads(x, ops, u, b, y)
      PROVE  Shows(f[Len(ops)].briefs, u, b, y)
  <2>1. PICK g \in [0 .. Len(ops) -> Standing] :
          /\ g[0] = x /\ g[Len(ops)] = y
          /\ \A k \in 1 .. Len(ops) :
               Allowed(g[k - 1], ops[k], u, b) /\ g[k] = Turned(g[k - 1], ops[k], u, b)
    BY <1>5 DEF Leads
  <2> DEFINE S == { k \in 0 .. Len(ops) : Fits(f[k]) => Shows(f[k].briefs, u, b, g[k]) }
  <2>2. 0 \in S
    BY <1>1, <1>3, <1>5, <2>1
  <2>3. ASSUME NEW k \in 0 .. Len(ops), k < Len(ops), k \in S PROVE k + 1 \in S
    <3>1. k + 1 \in DOMAIN ops /\ k + 1 \in 0 .. Len(ops) /\ k + 1 \in 1 .. Len(ops) /\ (k + 1) - 1 = k
      BY <1>1, <2>3
    <3>2. OpTyped(ops[k + 1], T)
      BY <3>1 DEF OpsTyped
    <3>3. Allowed(g[k], ops[k + 1], u, b) /\ g[k + 1] = Turned(g[k], ops[k + 1], u, b)
      BY <2>1, <3>1
    <3>4. ASSUME Fits(f[k + 1]) PROVE Shows(f[k + 1].briefs, u, b, g[k + 1])
      <4>1. Fits(f[k]) /\ f[k + 1] = Done(f[k], ops[k + 1])
        BY <1>3, <2>3, <3>4 DEF After
      <4>2. Shows(f[k].briefs, u, b, g[k])
        BY <4>1, <2>3
      <4> QED BY <4>1, <4>2, <3>2, <3>3, <1>4, DoneShows
    <3> QED BY <3>1, <3>4
  <2> HIDE DEF S
  <2>4. \A k \in 0 .. Len(ops) : k \in S
    BY <1>1, <2>2, <2>3, UpTo
  <2>5. Len(ops) \in S
    BY <2>4, <1>1
  <2> QED BY <2>1, <2>5, <1>5 DEF S
<1> QED
  BY <1>1, <1>2, <1>4, <1>5

(* A message is refused only for chips it takes away.                      *)
LEMMA MessageFits ==
  ASSUME NEW T, NEW w \in Loose(T), Fits(w), NEW ops, OpsTyped(ops, T),
         \A k \in DOMAIN ops : ops[k].field # "bar" /\ (ops[k].field = "purse" => ops[k].n \in Nat)
  PROVE  Fits(AllDone(w, ops))
<1>1. Len(ops) \in Nat /\ DOMAIN ops = 1 .. Len(ops)
  BY LenProperties DEF OpsTyped
<1>2. PICK f : /\ f = [k \in 0 .. Len(ops) |-> IF k = 0 THEN w ELSE After(f[k - 1], ops[k])]
               /\ AllDone(w, ops) = f[Len(ops)]
  BY <1>1, AllDoneRuns
<1>3. f[0] = w /\ \A k \in 0 .. Len(ops) : k < Len(ops) => f[k + 1] = After(f[k], ops[k + 1])
  BY <1>1, <1>2
<1> DEFINE S == { k \in 0 .. Len(ops) : f[k] \in Loose(T) /\ Fits(f[k]) }
<1>4. 0 \in S
  BY <1>1, <1>3
<1>5. ASSUME NEW k \in 0 .. Len(ops), k < Len(ops), k \in S PROVE k + 1 \in S
  <2>1. k + 1 \in DOMAIN ops /\ k + 1 \in 0 .. Len(ops)
    BY <1>1, <1>5
  <2>2. OpTyped(ops[k + 1], T)
    BY <2>1 DEF OpsTyped
  <2>3. f[k + 1] = Done(f[k], ops[k + 1])
    BY <1>3, <1>5 DEF After
  <2>4. f[k + 1] \in Loose(T)
    BY <2>2, <2>3, <1>5, DoneLoose
  <2>5. Fits(f[k + 1])
    BY <2>1, <2>2, <2>3, <1>5, DoneFits
  <2> QED BY <2>1, <2>4, <2>5
<1> HIDE DEF S
<1>6. \A k \in 0 .. Len(ops) : k \in S
  BY <1>1, <1>4, <1>5, UpTo
<1> QED
  BY <1>1, <1>2, <1>6 DEF S
-----------------------------------------------------------------------------
(* Where updates lead *)

(* A field that is not about the bar.                                      *)
Aside(op, b) == op.field = "purse" \/ op.tbid # b
SeqLen(s) == Len(s) \in Nat /\ DOMAIN s = 1 .. Len(s)

(* Fields about other bars change nothing of this one.                     *)
LEMMA LeadsStay ==
  ASSUME NEW ops, SeqLen(ops), NEW b, NEW u, NEW x \in Standing,
         \A k \in DOMAIN ops : Aside(ops[k], b)
  PROVE  Leads(x, ops, u, b, x)
<1> DEFINE g == [k \in 0 .. Len(ops) |-> x]
<1>1. g \in [0 .. Len(ops) -> Standing] /\ g[0] = x /\ g[Len(ops)] = x
  BY DEF SeqLen
<1>2. ASSUME NEW k \in 1 .. Len(ops)
      PROVE  Allowed(g[k - 1], ops[k], u, b) /\ g[k] = Turned(g[k - 1], ops[k], u, b)
  <2>1. g[k] = x /\ g[k - 1] = x /\ Aside(ops[k], b)
    BY DEF SeqLen
  <2> QED BY <2>1 DEF Aside, Allowed, Turned
<1> HIDE DEF g
<1> QED BY <1>1, <1>2 DEF Leads

(* A message of one field leads where the field does.                      *)
LEMMA LeadsOne ==
  ASSUME NEW op, NEW b, NEW u, NEW x \in Standing, Allowed(x, op, u, b)
  PROVE  Leads(x, << op >>, u, b, Turned(x, op, u, b))
<1> DEFINE g == [k \in 0 .. 1 |-> IF k = 0 THEN x ELSE Turned(x, op, u, b)]
<1>1. Turned(x, op, u, b) \in Standing
  BY DEF Turned, Standing
<1>2. /\ g \in [0 .. 1 -> Standing] /\ g[0] = x /\ g[1] = Turned(x, op, u, b)
      /\ \A k \in 1 .. 1 : k = 1 /\ k - 1 = 0
  BY <1>1
<1>3. Len(<< op >>) = 1 /\ << op >>[1] = op
  OBVIOUS
<1> HIDE DEF g
<1> QED BY <1>2, <1>3 DEF Leads

(* Two lists of fields one after the other lead where the second leads     *)
(* from where the first did.                                               *)
LEMMA LeadsJoin ==
  ASSUME NEW T, NEW p \in Seq(T), NEW r \in Seq(T), NEW b, NEW u, NEW x, NEW y, NEW z,
         Leads(x, p, u, b, y), Leads(y, r, u, b, z)
  PROVE  Leads(x, p \o r, u, b, z)
<1> DEFINE t == p \o r  n == Len(p)  m == Len(r)
<1>1. n \in Nat /\ m \in Nat
  BY LenProperties
<1>2. Len(t) = n + m /\ \A i \in 1 .. n + m : t[i] = IF i <= n THEN p[i] ELSE r[i - n]
  BY ConcatProperties
<1>3. PICK g \in [0 .. n -> Standing] :
        /\ g[0] = x /\ g[n] = y
        /\ \A k \in 1 .. n : Allowed(g[k - 1], p[k], u, b) /\ g[k] = Turned(g[k - 1], p[k], u, b)
  BY DEF Leads
<1>4. PICK h \in [0 .. m -> Standing] :
        /\ h[0] = y /\ h[m] = z
        /\ \A k \in 1 .. m : Allowed(h[k - 1], r[k], u, b) /\ h[k] = Turned(h[k - 1], r[k], u, b)
  BY DEF Leads
<1> HIDE DEF t, n, m
<1> DEFINE e == [k \in 0 .. n + m |-> IF k <= n THEN g[k] ELSE h[k - n]]
<1>5. e \in [0 .. n + m -> Standing]
  <2>1. ASSUME NEW k \in 0 .. n + m PROVE (IF k <= n THEN g[k] ELSE h[k - n]) \in Standing
    <3>1. CASE k <= n
      BY <3>1, <1>1
    <3>2. CASE ~(k <= n)
      <4>1. k - n \in 0 .. m
        BY <3>2, <1>1
      <4> QED BY <3>2, <4>1
    <3> QED BY <3>1, <3>2
  <2> QED BY <2>1
<1>6. e[0] = x
  BY <1>1, <1>3
<1>7. \A k \in 0 .. m : n + k \in 0 .. n + m /\ e[n + k] = h[k]
  <2> SUFFICES ASSUME NEW k \in 0 .. m PROVE n + k \in 0 .. n + m /\ e[n + k] = h[k]
    OBVIOUS
  <2>1. n + k \in 0 .. n + m
    BY <1>1
  <2>2. CASE k = 0
    BY <2>1, <2>2, <1>1, <1>3, <1>4
  <2>3. CASE k # 0
    <3>1. ~(n + k <= n) /\ (n + k) - n = k
      BY <2>3, <1>1
    <3> QED BY <2>1, <3>1
  <2> QED BY <2>2, <2>3
<1>8. ASSUME NEW k \in 1 .. n + m
      PROVE  Allowed(e[k - 1], t[k], u, b) /\ e[k] = Turned(e[k - 1], t[k], u, b)
  <2>1. CASE k <= n
    <3>1. /\ k \in 1 .. n /\ k \in 0 .. n + m /\ k - 1 \in 0 .. n + m /\ k - 1 <= n
      BY <2>1, <1>1
    <3>2. e[k] = g[k] /\ e[k - 1] = g[k - 1] /\ t[k] = p[k]
      BY <3>1, <2>1, <1>2
    <3> QED BY <3>1, <3>2, <1>3
  <2>2. CASE ~(k <= n)
    <3>1. /\ k - n \in 1 .. m /\ (k - n) - 1 \in 0 .. m /\ k - n \in 0 .. m
          /\ n + (k - n) = k /\ n + ((k - n) - 1) = k - 1
      BY <2>2, <1>1
    <3>2. e[k] = h[k - n] /\ e[k - 1] = h[(k - n) - 1]
      BY <3>1, <1>7
    <3>3. t[k] = r[k - n]
      BY <2>2, <1>2
    <3> QED BY <3>1, <3>2, <3>3, <1>4
  <2> QED BY <2>1, <2>2
<1>9. e[n + m] = z
  <2>1. m \in 0 .. m
    BY <1>1
  <2> QED BY <2>1, <1>7, <1>4
<1> HIDE DEF e
<1> QED
  BY <1>2, <1>5, <1>6, <1>8, <1>9 DEF Leads, t

(* Fields that neither add nor delete briefs lead nowhere.                 *)
LEMMA LeadsSteady ==
  ASSUME NEW ops, SeqLen(ops), NEW b, NEW u, NEW x, NEW y, Leads(x, ops, u, b, y),
         \A k \in DOMAIN ops : ops[k].field \in {"bar", "purse"} \/ Aside(ops[k], b)
  PROVE  x = y
<1>1. PICK g \in [0 .. Len(ops) -> Standing] :
        /\ g[0] = x /\ g[Len(ops)] = y
        /\ \A k \in 1 .. Len(ops) :
             Allowed(g[k - 1], ops[k], u, b) /\ g[k] = Turned(g[k - 1], ops[k], u, b)
  BY DEF Leads
<1> DEFINE S == { k \in 0 .. Len(ops) : g[k] = x }
<1>2. 0 \in S
  BY <1>1 DEF SeqLen
<1>3. ASSUME NEW k \in 0 .. Len(ops), k < Len(ops), k \in S PROVE k + 1 \in S
  <2>1. k + 1 \in 1 .. Len(ops) /\ k + 1 \in 0 .. Len(ops) /\ (k + 1) - 1 = k
    BY <1>3 DEF SeqLen
  <2>2. g[k + 1] = Turned(g[k], ops[k + 1], u, b)
    BY <1>1, <2>1
  <2>3. ops[k + 1].field \in {"bar", "purse"} \/ Aside(ops[k + 1], b)
    BY <2>1 DEF SeqLen
  <2>4. g[k + 1] = g[k]
    BY <2>2, <2>3 DEF Turned, Aside
  <2> QED BY <2>1, <2>4, <1>3
<1> HIDE DEF S
<1>4. Len(ops) \in S
  <2>1. \A k \in 0 .. Len(ops) : k \in S
    BY <1>2, <1>3, UpTo DEF SeqLen
  <2> QED BY <2>1 DEF SeqLen
<1> QED
  BY <1>1, <1>4 DEF S

(* With no message on its way, what the briefs show is what they will      *)
(* show.                                                                   *)
LEMMA ComesEmpty ==
  ASSUME NEW s, NEW u, NEW b, NEW y
  PROVE  Comes(s, << >>, u, b, y) <=> Shows(s, u, b, y)
<1>1. Len(<< >>) = 0 /\ 1 .. 0 = {} /\ 0 \in 0 .. 0
  OBVIOUS
<1>2. ASSUME Comes(s, << >>, u, b, y) PROVE Shows(s, u, b, y)
  BY <1>1, <1>2 DEF Comes
<1>3. ASSUME Shows(s, u, b, y) PROVE Comes(s, << >>, u, b, y)
  <2> DEFINE h == [k \in 0 .. 0 |-> y]
  <2>1. h \in [0 .. 0 -> Standing] /\ h[0] = y
    BY <1>3 DEF Shows
  <2> HIDE DEF h
  <2> QED BY <2>1, <1>1, <1>3 DEF Comes
<1> QED BY <1>2, <1>3

(* A message more.                                                         *)
LEMMA ComesMore ==
  ASSUME NEW T, NEW q \in Seq(T), NEW m \in T, NEW s, NEW u, NEW b, NEW x, NEW y \in Standing,
         Comes(s, q, u, b, x), Leads(x, m.ops, u, b, y)
  PROVE  Comes(s, Append(q, m), u, b, y)
<1> DEFINE r == Append(q, m)  n == Len(q)
<1>1. n \in Nat /\ Len(r) = n + 1 /\ (\A i \in 1 .. n : r[i] = q[i]) /\ r[n + 1] = m
  BY AppendProperties, LenProperties
<1>2. PICK h \in [0 .. n -> Standing] :
        /\ Shows(s, u, b, h[0]) /\ h[n] = x
        /\ \A k \in 1 .. n : Leads(h[k - 1], q[k].ops, u, b, h[k])
  BY DEF Comes
<1> HIDE DEF r, n
<1> DEFINE e == [k \in 0 .. n + 1 |-> IF k <= n THEN h[k] ELSE y]
<1>3. e \in [0 .. n + 1 -> Standing] /\ e[0] = h[0] /\ e[n + 1] = y /\ e[n] = x
  BY <1>1, <1>2
<1>4. ASSUME NEW k \in 1 .. n + 1 PROVE Leads(e[k - 1], r[k].ops, u, b, e[k])
  <2>1. CASE k <= n
    <3>1. e[k] = h[k] /\ e[k - 1] = h[k - 1] /\ r[k] = q[k] /\ k \in 1 .. n
      BY <2>1, <1>1
    <3> QED BY <3>1, <1>2
  <2>2. CASE k = n + 1
    <3>1. k - 1 = n
      BY <2>2, <1>1
    <3> QED BY <3>1, <2>2, <1>1, <1>3
  <2> QED BY <2>1, <2>2, <1>1
<1> HIDE DEF e
<1> QED
  BY <1>1, <1>2, <1>3, <1>4 DEF Comes, r

(* A message is done, and leads somewhere.                                 *)
LEMMA ComesDone ==
  ASSUME NEW T, NEW q \in Seq(T), q # << >>, NEW s, NEW u, NEW b, NEW y, Comes(s, q, u, b, y)
  PROVE  \E x, z \in Standing :
           /\ Shows(s, u, b, x) /\ Leads(x, Head(q).ops, u, b, z)
           /\ \A t : Shows(t, u, b, z) => Comes(t, Tail(q), u, b, y)
<1> DEFINE r == Tail(q)  n == Len(q)
<1>1. /\ n \in Nat /\ n >= 1 /\ Len(r) = n - 1
      /\ \A i \in 1 .. n - 1 : r[i] = q[i + 1]
      /\ Head(q) = q[1]
  BY HeadTailProperties, LenProperties, EmptySeq
<1>2. PICK h \in [0 .. n -> Standing] :
        /\ Shows(s, u, b, h[0]) /\ h[n] = y
        /\ \A k \in 1 .. n : Leads(h[k - 1], q[k].ops, u, b, h[k])
  BY DEF Comes
<1> HIDE DEF r, n
<1>3. Leads(h[0], Head(q).ops, u, b, h[1])
  <2>1. 1 \in 1 .. n /\ 1 - 1 = 0
    BY <1>1
  <2> QED BY <2>1, <1>1, <1>2
<1>4. ASSUME NEW t, Shows(t, u, b, h[1]) PROVE Comes(t, r, u, b, y)
  <2> DEFINE e == [k \in 0 .. n - 1 |-> h[k + 1]]
  <2>1. e \in [0 .. n - 1 -> Standing] /\ e[0] = h[1] /\ e[n - 1] = y
    BY <1>1, <1>2
  <2>2. ASSUME NEW k \in 1 .. n - 1 PROVE Leads(e[k - 1], r[k].ops, u, b, e[k])
    <3>1. /\ e[k] = h[k + 1] /\ e[k - 1] = h[k] /\ r[k] = q[k + 1]
          /\ k + 1 \in 1 .. n /\ (k + 1) - 1 = k
      BY <1>1
    <3> QED BY <3>1, <1>2
  <2> HIDE DEF e
  <2> QED BY <2>1, <2>2, <1>1, <1>4 DEF Comes
<1>5. h[0] \in Standing /\ h[1] \in Standing
  BY <1>1
<1> QED
  BY <1>2, <1>3, <1>4, <1>5 DEF r

(* Only the fields of the messages count.                                  *)
LEMMA ComesSame ==
  ASSUME NEW q, SeqLen(q), NEW r, SeqLen(r), Len(q) = Len(r), \A k \in DOMAIN q : q[k].ops = r[k].ops,
         NEW s, NEW u, NEW b, NEW y, Comes(s, q, u, b, y)
  PROVE  Comes(s, r, u, b, y)
  BY DEF Comes, SeqLen

(* No message is about the bar.                                            *)
LEMMA ComesQuiet ==
  ASSUME NEW q, SeqLen(q), NEW s, NEW u, NEW b, NEW y, Comes(s, q, u, b, y),
         \A k \in DOMAIN q : SeqLen(q[k].ops) /\ \A j \in DOMAIN q[k].ops : Aside(q[k].ops[j], b)
  PROVE  Shows(s, u, b, y)
<1>1. PICK h \in [0 .. Len(q) -> Standing] :
        /\ Shows(s, u, b, h[0]) /\ h[Len(q)] = y
        /\ \A k \in 1 .. Len(q) : Leads(h[k - 1], q[k].ops, u, b, h[k])
  BY DEF Comes
<1> DEFINE S == { k \in 0 .. Len(q) : h[k] = h[0] }
<1>2. 0 \in S
  BY DEF SeqLen
<1>3. ASSUME NEW k \in 0 .. Len(q), k < Len(q), k \in S PROVE k + 1 \in S
  <2>1. k + 1 \in 1 .. Len(q) /\ k + 1 \in 0 .. Len(q) /\ (k + 1) - 1 = k /\ k + 1 \in DOMAIN q
    BY <1>3 DEF SeqLen
  <2>2. Leads(h[k], q[k + 1].ops, u, b, h[k + 1])
    BY <1>1, <2>1
  <2>3. h[k] = h[k + 1]
    BY <2>1, <2>2, LeadsSteady
  <2> QED BY <2>1, <2>3, <1>3
<1> HIDE DEF S
<1>4. Len(q) \in S
  <2>1. \A k \in 0 .. Len(q) : k \in S
    BY <1>2, <1>3, UpTo DEF SeqLen
  <2> QED BY <2>1 DEF SeqLen
<1> QED
  BY <1>1, <1>4 DEF S
-----------------------------------------------------------------------------
(* The updates of a transfer, one bar after the other *)

IsFlat(f, F, n) == f = [i \in 1 .. n |-> IF i = 1 THEN F[i] ELSE f[i - 1] \o F[i]]

(* The flattened lists exist as a recursive function over their number.    *)
LEMMA FlatExists ==
  ASSUME NEW F, NEW n \in Nat
  PROVE  \E f : IsFlat(f, F, n)
<1> DEFINE S == { m \in Nat : \E f : IsFlat(f, F, m) }
<1>1. 0 \in S
  <2> DEFINE f == [i \in 1 .. 0 |-> F[i]]
  <2>1. f = [i \in 1 .. 0 |-> IF i = 1 THEN F[i] ELSE f[i - 1] \o F[i]]
    OBVIOUS
  <2> HIDE DEF f
  <2>2. IsFlat(f, F, 0)
    BY <2>1 DEF IsFlat
  <2> QED BY <2>2
<1>2. ASSUME NEW m \in Nat, m \in S PROVE m + 1 \in S
  <2>1. PICK f : IsFlat(f, F, m)
    BY <1>2
  <2> DEFINE g == [i \in 1 .. m + 1 |->
                     IF i <= m THEN f[i] ELSE IF i = 1 THEN F[i] ELSE f[i - 1] \o F[i]]
  <2>2. ASSUME NEW i \in 1 .. m + 1
        PROVE  g[i] = IF i = 1 THEN F[i] ELSE g[i - 1] \o F[i]
    <3>1. CASE i <= m
      <4>1. i \in 1 .. m /\ g[i] = f[i]
        BY <3>1
      <4>2. f[i] = IF i = 1 THEN F[i] ELSE f[i - 1] \o F[i]
        BY <4>1, <2>1 DEF IsFlat
      <4>3. i # 1 => g[i - 1] = f[i - 1]
        BY <3>1
      <4> QED BY <4>1, <4>2, <4>3
    <3>2. CASE ~(i <= m)
      <4>1. g[i] = IF i = 1 THEN F[i] ELSE f[i - 1] \o F[i]
        BY <3>2
      <4>2. i # 1 => i - 1 \in 1 .. m + 1 /\ i - 1 <= m
        BY <3>2
      <4>3. i # 1 => g[i - 1] = f[i - 1]
        BY <4>2
      <4> HIDE DEF g
      <4> QED BY <4>1, <4>3
    <3> QED BY <3>1, <3>2
  <2>3. g = [i \in 1 .. m + 1 |-> g[i]]
    OBVIOUS
  <2> HIDE DEF g
  <2>4. IsFlat(g, F, m + 1)
    BY <2>2, <2>3 DEF IsFlat
  <2> QED BY <2>4
<1> HIDE DEF S
<1>3. n \in S
  BY <1>1, <1>2, Always
<1> QED
  BY <1>3 DEF S

(* FlattenSeq joins its lists one after the other; f[i] is what the first  *)
(* i of them make.                                                         *)
LEMMA Flattened ==
  ASSUME NEW T, NEW F \in Seq(Seq(T))
  PROVE  \E f \in [0 .. Len(F) -> Seq(T)] :
           /\ f[0] = << >> /\ f[Len(F)] = FlattenSeq(F)
           /\ \A i \in 1 .. Len(F) : f[i] = f[i - 1] \o F[i]
<1> DEFINE n == Len(F)
<1>1. n \in Nat /\ \A i \in 1 .. n : F[i] \in Seq(T)
  BY LenProperties
<1>2. CASE n = 0
  <2> DEFINE f == [k \in 0 .. 0 |-> << >>]
  <2>1. F = << >>
    BY <1>2, EmptySeq
  <2>2. FlattenSeq(F) = << >>
    BY <1>2, <2>1 DEF FlattenSeq
  <2>3. f \in [0 .. 0 -> Seq(T)] /\ f[0] = << >>
    BY EmptySeq
  <2> HIDE DEF f
  <2> QED BY <1>2, <2>2, <2>3
<1>3. CASE n # 0
  <2> DEFINE e == CHOOSE f : IsFlat(f, F, Len(F))
  <2>1. \E f : IsFlat(f, F, Len(F))
    BY <1>1, FlatExists
  <2>2. IsFlat(e, F, Len(F))
    BY <2>1
  <2>3. FlattenSeq(F) = e[Len(F)]
    BY <1>3 DEF FlattenSeq, IsFlat
  <2> HIDE DEF e
  <2> DEFINE f == [k \in 0 .. n |-> IF k = 0 THEN << >> ELSE e[k]]
  <2>4. \A i \in 1 .. n : f[i] = IF i = 1 THEN F[i] ELSE f[i - 1] \o F[i]
    <3> SUFFICES ASSUME NEW i \in 1 .. n PROVE f[i] = IF i = 1 THEN F[i] ELSE f[i - 1] \o F[i]
      OBVIOUS
    <3>1. f[i] = e[i] /\ (i # 1 => f[i - 1] = e[i - 1])
      BY <1>1
    <3>2. e[i] = IF i = 1 THEN F[i] ELSE e[i - 1] \o F[i]
      BY <2>2 DEF IsFlat
    <3> QED BY <3>1, <3>2
  <2>5. f[0] = << >> /\ f[n] = FlattenSeq(F) /\ f = [k \in 0 .. n |-> f[k]]
    BY <1>1, <1>3, <2>3
  <2> HIDE DEF f
  <2> DEFINE S == { k \in 0 .. n : f[k] \in Seq(T) /\ (k > 0 => f[k] = f[k - 1] \o F[k]) }
  <2>6. 0 \in S
    <3>1. f[0] \in Seq(T)
      BY <2>5, EmptySeq
    <3>2. 0 \in 0 .. n /\ ~(0 > 0)
      BY <1>1
    <3> QED BY <3>1, <3>2
  <2>7. ASSUME NEW k \in 0 .. n, k < n, k \in S PROVE k + 1 \in S
    <3>1. k + 1 \in 1 .. n /\ k + 1 \in 0 .. n /\ (k + 1) - 1 = k /\ F[k + 1] \in Seq(T)
      BY <2>7, <1>1
    <3>2. f[k] \in Seq(T)
      BY <2>7
    <3>3. f[k + 1] = f[k] \o F[k + 1]
      <4>1. CASE k = 0
        <5>1. << >> \o F[k + 1] = F[k + 1]
          BY <3>1, ConcatEmptySeq
        <5>2. f[k + 1] = F[k + 1]
          BY <4>1, <2>4, <3>1
        <5> QED BY <4>1, <5>1, <5>2, <2>5
      <4>2. CASE k # 0
        <5>1. k + 1 # 1
          BY <4>2
        <5> QED BY <5>1, <2>4, <3>1
      <4> QED BY <4>1, <4>2
    <3>4. f[k] \o F[k + 1] \in Seq(T)
      BY <3>1, <3>2, ConcatProperties
    <3> QED BY <3>1, <3>3, <3>4
  <2> HIDE DEF S
  <2>8. \A k \in 0 .. n : k \in S
    BY <1>1, <2>6, <2>7, UpTo
  <2>9. f \in [0 .. n -> Seq(T)]
    BY <2>5, <2>8 DEF S
  <2>10. \A i \in 1 .. n : f[i] = f[i - 1] \o F[i]
    <3> SUFFICES ASSUME NEW i \in 1 .. n PROVE f[i] = f[i - 1] \o F[i]
      OBVIOUS
    <3>1. i \in 0 .. n /\ i > 0
      BY <1>1
    <3>2. i \in S
      BY <2>8, <3>1
    <3> QED BY <3>1, <3>2 DEF S
  <2> QED BY <2>5, <2>9, <2>10
<1> QED
  BY <1>2, <1>3
-----------------------------------------------------------------------------
(* What the steps have in common *)

(* What the assumption says of the constants.                              *)
LEMMA Numbers ==
  /\ MaxTbid \in Nat /\ None \notin Users /\ None \notin Tbids /\ None \notin Bar
  /\ Tbids = 1 .. MaxTbid
  BY TeaBarAssumption DEF Tbids

(* The numbers given so far are tbids.                                     *)
LEMMA GivenTbids ==
  ASSUME BarsOK
  PROVE  Given \subseteq Tbids /\ max_tbid \in Nat
  BY Numbers DEF BarsOK, Given

(* A bar that exists has a number that was given.                          *)
LEMMA ThereIs ==
  ASSUME BarsOK, NEW b \in Tbids
  PROVE  /\ GetTeaBar(b) \in Bar \cup {None}
         /\ Exists(b) => GetTeaBar(b) \in Bar /\ b \in Given
<1>1. /\ cached[b] \in Bar \cup {None} /\ stored[b] \in Bar \cup {None}
      /\ b > max_tbid => cached[b] = None /\ stored[b] = None
  BY DEF BarsOK
<1>2. GetTeaBar(b) \in Bar \cup {None} /\ (b > max_tbid => GetTeaBar(b) = None)
  BY <1>1 DEF GetTeaBar
<1>3. b \in Nat /\ b >= 1 /\ max_tbid \in Nat
  BY Numbers, GivenTbids
<1> QED
  BY <1>2, <1>3 DEF Exists, Given

(* A field that is fine for a session about tbids has the type of one      *)
(* about bars among T.                                                     *)
LEMMA OpTypedOK ==
  ASSUME NEW op, NEW kind, NEW tbids, OpOK(op, kind, tbids), NEW T, tbids \subseteq T
  PROVE  OpTyped(op, T)
  BY DEF OpOK, OpTyped

(* So have all fields of a message.                                        *)
LEMMA OpsTypedOK ==
  ASSUME NEW m, NEW given, MessageOK(m, given)
  PROVE  OpsTyped(m.ops, given) /\ SeqLen(m.ops) /\ m.ops \in Seq(Op)
<1>1. m.ops \in Seq(Op)
  BY DEF MessageOK, Update
<1>2. \A k \in DOMAIN m.ops : OpTyped(m.ops[k], given)
  BY OpTypedOK DEF MessageOK
<1>3. SeqLen(m.ops)
  BY <1>1, LenProperties DEF SeqLen
<1> QED
  BY <1>1, <1>2, <1>3 DEF OpsTyped

(* The messages on their way to a user are a sequence.                     *)
LEMMA QueueLen ==
  ASSUME UpdatesOK, NEW u \in Users
  PROVE  updates[u] \in Seq(Update) /\ SeqLen(updates[u])
<1>1. updates[u] \in Seq(Update)
  BY DEF UpdatesOK
<1> QED
  BY <1>1, LenProperties DEF SeqLen

(* A request is about some bar, and is at work on it.                      *)
LEMMA Bar1In ==
  ASSUME NEW s, s.tbids # {}
  PROVE  Bar1(s) \in s.tbids
  BY DEF Bar1

(* A bar of a waiting session is locked by it.                             *)
LEMMA WorkingSlot ==
  ASSUME NEW i \in Slots, asked[i] # None, NEW b \in asked[i].tbids
  PROVE  << asked[i].kind, b >> \in Working
<1>1. << asked[i].kind, b >> \in {asked[i].kind} \X asked[i].tbids
  OBVIOUS
<1>2. << asked[i].kind, b >> \in
        UNION { {asked[j].kind} \X asked[j].tbids : j \in { k \in Slots : asked[k] # None } }
  BY <1>1
<1> QED BY <1>2 DEF Working

(* A bar of a message on its way is locked by its kind.                    *)
LEMMA WorkingMessage ==
  ASSUME NEW u \in Users, NEW k \in DOMAIN updates[u], NEW b \in updates[u][k].tbids
  PROVE  << updates[u][k].kind, b >> \in Working
<1>1. << updates[u][k].kind, b >> \in
        UNION { {updates[u][l].kind} \X updates[u][l].tbids : l \in DOMAIN updates[u] }
  OBVIOUS
<1>2. << updates[u][k].kind, b >> \in
        UNION { UNION { {updates[v][l].kind} \X updates[v][l].tbids : l \in DOMAIN updates[v] }
                : v \in Users }
  BY <1>1
<1> QED BY <1>2 DEF Working

(* A bar whose brief is going is locked by the drop.                       *)
LEMMA WorkingDrop ==
  ASSUME NEW u \in Users, NEW b, Going(u, b)
  PROVE  << "drop", b >> \in Working
<1>1. CASE << u, b >> \in drops
  <2>1. b \in { d[2] : d \in drops }
    <3>1. << u, b >>[2] = b
      OBVIOUS
    <3> QED BY <3>1, <1>1
  <2>2. << "drop", b >> \in {"drop"} \X { d[2] : d \in drops }
    BY <2>1
  <2> QED BY <2>2 DEF Working
<1>2. ASSUME NEW k \in DOMAIN updates[u], DropOf(updates[u][k], b)
      PROVE  << "drop", b >> \in Working
  BY <1>2, WorkingMessage DEF DropOf
<1> QED
  BY <1>1, <1>2 DEF Going

(* Pairs of requests the invariant needs apart.                            *)
LEMMA Clashes ==
  /\ {"agree", "remove"} \in Conflicts /\ {"remove", "agree"} \in Conflicts
  /\ {"agree", "transfer"} \in Conflicts /\ {"transfer", "agree"} \in Conflicts
  /\ {"drop", "list"} \in Conflicts /\ {"list", "drop"} \in Conflicts
  /\ {"drop", "drop"} \in Conflicts
  /\ {"drop", "remove"} \in Conflicts /\ {"remove", "drop"} \in Conflicts
  /\ {"drop", "transfer"} \in Conflicts /\ {"transfer", "drop"} \in Conflicts
  /\ {"remove", "list"} \in Conflicts /\ {"list", "remove"} \in Conflicts
  /\ {"remove", "transfer"} \in Conflicts /\ {"transfer", "remove"} \in Conflicts
  /\ {"transfer", "transfer"} \in Conflicts
  /\ {"transfer", "put"} \in Conflicts /\ {"put", "transfer"} \in Conflicts
  /\ {"transfer", "cost"} \in Conflicts /\ {"cost", "transfer"} \in Conflicts
<1>1. \A a, c : {a, c} = {c, a} /\ {a, a} = {a}
  OBVIOUS
<1>2. /\ {"list", "drop"} \in Conflicts /\ {"list", "remove"} \in Conflicts
      /\ {"agree", "remove"} \in Conflicts /\ {"drop"} \in Conflicts
      /\ {"drop", "remove"} \in Conflicts /\ {"transfer"} \in Conflicts
      /\ {"transfer", "agree"} \in Conflicts /\ {"transfer", "drop"} \in Conflicts
      /\ {"transfer", "remove"} \in Conflicts /\ {"put", "transfer"} \in Conflicts
      /\ {"cost", "transfer"} \in Conflicts
  BY DEF Conflicts
<1> QED
  BY <1>1, <1>2

(* What a standing says.                                                   *)
LEMMA DueStanding ==
  ASSUME NEW u, NEW b
  PROVE  Due(u, b) \in Standing
  BY DEF Due, Standing

(* Briefs that show what is due tell members from others, and no member    *)
(* without the bar has chips of it.                                        *)
LEMMA ShowsDue ==
  ASSUME NEW s, NEW u, NEW b, Shows(s, u, b, Due(u, b))
  PROVE  /\ Has(s, b) <=> On(u, b)
         /\ \A k \in DOMAIN s : s[k].tbid = b /\ (s[k].chips > 0 \/ s[k].master = u)
              => Exists(b) /\ GetTeaBar(b).master = u
<1>1. Has(s, b) <=> On(u, b)
  BY DEF Shows, Due
<1>2. ASSUME NEW k \in DOMAIN s, s[k].tbid = b, s[k].chips > 0 \/ s[k].master = u
      PROVE  Exists(b) /\ GetTeaBar(b).master = u
  <2>1. On(u, b)
    BY <1>1, <1>2 DEF Has
  <2>2. Exists(b)
    BY <2>1 DEF On
  <2>3. CASE GetTeaBar(b).master # u
    <3>1. Due(u, b) # "own"
      BY <2>1, <2>3 DEF Due
    <3>2. s[k].master # u /\ s[k].chips = 0
      BY <3>1, <1>2 DEF Shows
    <3> QED BY <3>2, <1>2
  <2> QED BY <2>2, <2>3
<1> QED BY <1>1, <1>2
-----------------------------------------------------------------------------
(* Bars are saved *)

(* A save writes cache and store of its bars and of no other; where it     *)
(* fails, the bars are spoilt.                                             *)
LEMMA SavedBars ==
  ASSUME BarsOK, CountsOK, NEW bs, bs \subseteq Tbids, NEW bar,
         \A b \in bs : bar[b] \in Bar \cup {None},
         max_tbid \in Nat, max_tbid' \in max_tbid .. MaxTbid,
         \A b \in bs : b > max_tbid' => bar[b] = None,
         Saved(bs, bar), requests' = requests
  PROVE  /\ BarsOK' /\ CountsOK' /\ spoilt \subseteq spoilt'
         /\ \A b \in bs \ spoilt' : cached'[b] = bar[b] /\ stored'[b] = bar[b]
         /\ \A b \in bs : cached'[b] = bar[b]
         /\ \A b \in Tbids \ bs : cached'[b] = cached[b] /\ stored'[b] = stored[b]
<1>1. PICK lost \in SUBSET bs :
        /\ faults' = faults + Cardinality(lost) /\ faults' <= MaxFaults
        /\ stored' = [ b \in Tbids |-> IF b \in bs \ lost THEN bar[b] ELSE stored[b] ]
        /\ spoilt' = spoilt \cup lost
  BY DEF Saved
<1>2. cached' = [ b \in Tbids |-> IF b \in bs THEN bar[b] ELSE cached[b] ]
  BY DEF Saved
<1>3. Cardinality(lost) \in Nat
  <2>1. IsFiniteSet(Tbids)
    BY Numbers, FS_Interval
  <2>2. lost \subseteq Tbids
    OBVIOUS
  <2> QED BY <2>1, <2>2, FS_Subset, FS_CardinalityType
<1>4. CountsOK'
  BY <1>1, <1>3, Numbers, TeaBarAssumption DEF CountsOK
<1>5. BarsOK'
  <2>1. max_tbid' \in 0 .. MaxTbid
    BY Numbers
  <2>2. cached' \in [Tbids -> Bar \cup {None}] /\ stored' \in [Tbids -> Bar \cup {None}]
    BY <1>1, <1>2 DEF BarsOK
  <2>3. ASSUME NEW b \in Tbids, b > max_tbid' PROVE cached'[b] = None /\ stored'[b] = None
    <3>1. b > max_tbid
      BY <2>3, Numbers
    <3> QED BY <3>1, <2>3, <1>1, <1>2 DEF BarsOK
  <2> QED BY <2>1, <2>2, <2>3 DEF BarsOK
<1> QED
  BY <1>1, <1>2, <1>4, <1>5

(* A handler that writes no bar leaves them and what is spoilt.            *)
LEMMA NoWriteBars ==
  ASSUME BarsOK, CountsOK, NoWrite, max_tbid' = max_tbid, requests' = requests
  PROVE  /\ BarsOK' /\ CountsOK' /\ spoilt' = spoilt
         /\ \A b \in Tbids : cached'[b] = cached[b] /\ stored'[b] = stored[b]
  BY DEF BarsOK, CountsOK, NoWrite

(* A bar that is written keeps what is in memory and in Redis the same.    *)
LEMMA Written ==
  ASSUME NEW b, NEW bar, cached'[b] = bar, stored'[b] = bar
  PROVE  GetTeaBar(b)' = bar /\ Kept(b)'
  BY DEF GetTeaBar, Kept

(* A bar not written is the bar it was.                                    *)
LEMMA Unwritten ==
  ASSUME NEW b, cached'[b] = cached[b], stored'[b] = stored[b]
  PROVE  GetTeaBar(b)' = GetTeaBar(b) /\ Exists(b)' = Exists(b) /\ (Kept(b) => Kept(b)')
  BY DEF GetTeaBar, Kept, Exists

-----------------------------------------------------------------------------
(* Updates are sent *)

OpsOK(ops, kind, tbids) ==
  /\ ops \in [Users -> Seq(Op)]
  /\ \A u \in Users : \A j \in DOMAIN ops[u] : OpOK(ops[u][j], kind, tbids)

(* The updates a session saves are well formed and join the ends of their  *)
(* users' queues.                                                          *)
LEMMA SavedUpdates ==
  ASSUME UpdatesOK, NEW s, s.kind \in Kinds, s.tbids \subseteq Tbids, s.tbids \subseteq Given',
         max_tbid \in Nat, max_tbid' \in Nat, max_tbid' >= max_tbid,
         NEW ops, OpsOK(ops, s.kind, s.tbids), Save(s, ops)
  PROVE  /\ UpdatesOK'
         /\ \A u \in Users :
              IF ops[u] = << >> THEN updates'[u] = updates[u]
              ELSE \E m \in Update : /\ m.kind = s.kind /\ m.tbids = s.tbids /\ m.live
                                     /\ m.ops = ops[u] /\ updates'[u] = Append(updates[u], m)
<1> DEFINE M(u) == [ kind |-> s.kind, tbids |-> s.tbids, live |-> TRUE, ops |-> ops[u] ]
           G == 1 .. max_tbid'
<1>1. \A u \in Users : updates'[u] = IF ops[u] = << >> THEN updates[u] ELSE Append(updates[u], M(u))
  BY DEF Save
<1>2. updates' = [ u \in Users |-> IF ops[u] = << >> THEN updates[u] ELSE Append(updates[u], M(u)) ]
  BY DEF Save
<1>3. ASSUME NEW u \in Users
      PROVE  /\ M(u) \in Update /\ MessageOK(M(u), G)
             /\ M(u).kind = s.kind /\ M(u).tbids = s.tbids /\ M(u).live /\ M(u).ops = ops[u]
  <2>1. M(u) \in Update
    BY DEF Update, OpsOK
  <2>2. \A j \in DOMAIN ops[u] : OpOK(ops[u][j], s.kind, s.tbids)
    BY DEF OpsOK
  <2> QED BY <2>1, <2>2 DEF MessageOK, Given
<1>4. Given \subseteq G
  BY DEF Given
<1> HIDE DEF M, G
<1>5. ASSUME NEW u \in Users
      PROVE  /\ updates'[u] \in Seq(Update)
             /\ \A k \in DOMAIN updates'[u] : MessageOK(updates'[u][k], G)
  <2>1. updates[u] \in Seq(Update) /\ SeqLen(updates[u])
    BY QueueLen
  <2>2. \A k \in DOMAIN updates[u] : MessageOK(updates[u][k], G)
    BY <1>4 DEF UpdatesOK, MessageOK
  <2>3. CASE ops[u] = << >>
    <3>1. updates'[u] = updates[u]
      BY <1>1, <2>3
    <3> QED BY <2>1, <2>2, <3>1
  <2>4. CASE ops[u] # << >>
    <3> DEFINE q == updates[u]  r == Append(q, M(u))
    <3>1. updates'[u] = r
      BY <2>4, <1>1
    <3>2. /\ r \in Seq(Update) /\ Len(r) = Len(q) + 1
          /\ \A k \in 1 .. Len(q) : r[k] = q[k]
          /\ r[Len(q) + 1] = M(u)
      BY <2>1, <1>3, AppendProperties
    <3>3. DOMAIN r = 1 .. Len(q) + 1
      BY <3>2, LenProperties
    <3> HIDE DEF q, r
    <3>4. ASSUME NEW k \in DOMAIN r PROVE MessageOK(r[k], G)
      <4>1. CASE k \in 1 .. Len(q)
        BY <4>1, <3>2, <2>1, <2>2 DEF q, SeqLen
      <4>2. CASE k = Len(q) + 1
        BY <4>2, <3>2, <1>3
      <4> QED BY <4>1, <4>2, <3>3, <2>1 DEF q, SeqLen
    <3> QED BY <3>1, <3>2, <3>4
  <2> QED BY <2>3, <2>4
<1>6. UpdatesOK'
  <2>1. updates' \in [Users -> Seq(Update)]
    BY <1>2, <1>5
  <2> QED BY <2>1, <1>5 DEF UpdatesOK, G, Given
<1>7. ASSUME NEW u \in Users, ops[u] # << >>
      PROVE  \E m \in Update : /\ m.kind = s.kind /\ m.tbids = s.tbids /\ m.live
                               /\ m.ops = ops[u] /\ updates'[u] = Append(updates[u], m)
  <2>1. M(u) \in Update /\ updates'[u] = Append(updates[u], M(u))
    BY <1>1, <1>3, <1>7
  <2> QED BY <2>1, <1>3
<1> QED
  BY <1>1, <1>6, <1>7
(* The messages of Save are sent.                                          *)
Sent(s, ops) ==
  \A u \in Users :
    IF ops[u] = << >> THEN updates'[u] = updates[u]
    ELSE \E m \in Update : /\ m.kind = s.kind /\ m.tbids = s.tbids /\ m.live
                           /\ m.ops = ops[u] /\ updates'[u] = Append(updates[u], m)

(* What a queue with one more message holds.                               *)
LEMMA Appended ==
  ASSUME UpdatesOK, NEW u \in Users, NEW m \in Update, updates'[u] = Append(updates[u], m)
  PROVE  /\ DOMAIN updates'[u] = 1 .. Len(updates[u]) + 1
         /\ DOMAIN updates[u] = 1 .. Len(updates[u]) /\ Len(updates[u]) \in Nat
         /\ \A k \in 1 .. Len(updates[u]) : updates'[u][k] = updates[u][k]
         /\ updates'[u][Len(updates[u]) + 1] = m
<1> DEFINE q == updates[u]  r == Append(q, m)
<1>1. q \in Seq(Update) /\ SeqLen(q)
  BY QueueLen
<1> HIDE DEF q
<1>2. /\ r \in Seq(Update) /\ Len(r) = Len(q) + 1
      /\ \A k \in 1 .. Len(q) : r[k] = q[k]
      /\ r[Len(q) + 1] = m
  BY <1>1, AppendProperties
<1>3. DOMAIN r = 1 .. Len(q) + 1
  BY <1>2, LenProperties
<1>4. updates'[u] = r
  BY DEF q
<1> QED BY <1>1, <1>2, <1>3, <1>4 DEF q, SeqLen

(* Updates that are no drop of the bar make no brief of it go.             *)
LEMMA SentGoing ==
  ASSUME UpdatesOK, NEW s, NEW ops, Sent(s, ops), drops' = drops, NEW b,
         s.kind # "drop" \/ b \notin s.tbids, NEW u \in Users
  PROVE  Going(u, b)' = Going(u, b)
<1>1. CASE ops[u] = << >>
  BY <1>1 DEF Sent, Going
<1>2. CASE ops[u] # << >>
  <2>1. PICK m \in Update : m.kind = s.kind /\ m.tbids = s.tbids /\ updates'[u] = Append(updates[u], m)
    BY <1>2 DEF Sent
  <2>2. ~DropOf(m, b)
    BY <2>1 DEF DropOf
  <2>3. /\ DOMAIN updates'[u] = 1 .. Len(updates[u]) + 1
        /\ DOMAIN updates[u] = 1 .. Len(updates[u]) /\ Len(updates[u]) \in Nat
        /\ \A k \in 1 .. Len(updates[u]) : updates'[u][k] = updates[u][k]
        /\ updates'[u][Len(updates[u]) + 1] = m
    BY <2>1, Appended
  <2>4. (\E k \in DOMAIN updates'[u] : DropOf(updates'[u][k], b))
          <=> \E k \in DOMAIN updates[u] : DropOf(updates[u][k], b)
    <3>1. \A k \in DOMAIN updates'[u] : DropOf(updates'[u][k], b) => k \in DOMAIN updates[u]
      BY <2>2, <2>3
    <3>2. \A k \in DOMAIN updates[u] : k \in DOMAIN updates'[u]
      BY <2>3
    <3> QED BY <3>1, <3>2, <2>3
  <2>5. Going(u, b)' <=> Going(u, b)
    BY <2>4 DEF Going
  <2>6. Going(u, b)' \in BOOLEAN /\ Going(u, b) \in BOOLEAN
    BY DEF Going
  <2> QED BY <2>5, <2>6
<1> QED BY <1>1, <1>2

(* Nor do they send a second drop of it.                                   *)
LEMMA SentDrops ==
  ASSUME UpdatesOK, NEW s, NEW ops, Sent(s, ops), drops' = drops, NEW b,
         s.kind # "drop" \/ b \notin s.tbids, DropsOnce(b)
  PROVE  DropsOnce(b)'
<1>1. ASSUME NEW u \in Users, NEW k \in DOMAIN updates'[u], DropOf(updates'[u][k], b)
      PROVE  /\ updates'[u][k].live /\ << u, b >> \notin drops'
             /\ \A l \in DOMAIN updates'[u] : DropOf(updates'[u][l], b) => l = k
  <2>1. CASE ops[u] = << >>
    <3>1. updates'[u] = updates[u]
      BY <2>1 DEF Sent
    <3> QED BY <3>1, <1>1 DEF DropsOnce
  <2>2. CASE ops[u] # << >>
    <3>1. PICK m \in Update : m.kind = s.kind /\ m.tbids = s.tbids /\ updates'[u] = Append(updates[u], m)
      BY <2>2 DEF Sent
    <3>2. ~DropOf(m, b)
      BY <3>1 DEF DropOf
    <3>3. /\ DOMAIN updates'[u] = 1 .. Len(updates[u]) + 1
          /\ DOMAIN updates[u] = 1 .. Len(updates[u]) /\ Len(updates[u]) \in Nat
          /\ \A l \in 1 .. Len(updates[u]) : updates'[u][l] = updates[u][l]
          /\ updates'[u][Len(updates[u]) + 1] = m
      BY <3>1, Appended
    <3>4. \A l \in DOMAIN updates'[u] : DropOf(updates'[u][l], b) =>
            l \in DOMAIN updates[u] /\ updates'[u][l] = updates[u][l]
      BY <3>2, <3>3
    <3> QED BY <3>4, <1>1 DEF DropsOnce
  <2> QED BY <2>1, <2>2
<1> QED
  BY <1>1 DEF DropsOnce

(* A message at the end of a queue leads on from where the queue led.      *)
LEMMA SentComes ==
  ASSUME UpdatesOK, NEW s, NEW ops, Sent(s, ops), briefs' = briefs, NEW u \in Users, NEW b,
         NEW x, NEW y \in Standing, Comes(briefs[u], updates[u], u, b, x), Leads(x, ops[u], u, b, y)
  PROVE  Comes(briefs'[u], updates'[u], u, b, y)
<1>1. CASE ops[u] = << >>
  <2>1. SeqLen(ops[u]) /\ DOMAIN ops[u] = {}
    BY <1>1 DEF SeqLen
  <2>2. x = y
    BY <2>1, LeadsSteady
  <2>3. updates'[u] = updates[u]
    BY <1>1 DEF Sent
  <2> QED BY <2>2, <2>3
<1>2. CASE ops[u] # << >>
  <2>1. PICK m \in Update : m.ops = ops[u] /\ updates'[u] = Append(updates[u], m)
    BY <1>2 DEF Sent
  <2>2. updates[u] \in Seq(Update)
    BY QueueLen
  <2>3. Comes(briefs[u], Append(updates[u], m), u, b, y)
    BY <2>1, <2>2, ComesMore
  <2> QED BY <2>1, <2>3
<1> QED BY <1>1, <1>2

-----------------------------------------------------------------------------
(* Sessions *)

(* Sessions that end bring no conflict.                                    *)
LEMMA ApartLess ==
  ASSUME NEW b, Apart(b), \A i \in Slots : asked'[i] = asked[i] \/ asked'[i] = None
  PROVE  Apart(b)'
  BY DEF Apart

(* A handler frees the slot of its session and touches no other.           *)
LEMMA TurnSlots ==
  ASSUME AskedOK, NEW i \in Slots, NEW kind, Turn(i, kind),
         max_tbid \in Nat, max_tbid' \in Nat, max_tbid' >= max_tbid
  PROVE  /\ asked[i] # None /\ asked[i].kind = kind /\ SlotOK(asked[i], Given)
         /\ AskedOK'
         /\ asked'[i] = None /\ \A j \in Slots : j # i => asked'[j] = asked[j]
<1>1. asked[i] # None /\ asked[i].kind = kind /\ SlotOK(asked[i], Given)
  BY DEF Turn, AskedOK
<1>2. asked'[i] = None /\ \A j \in Slots : j # i => asked'[j] = asked[j]
  BY DEF Turn, AskedOK
<1>3. asked' \in [Slots -> Asked \cup {None}]
  BY DEF Turn, AskedOK
<1>4. Given \subseteq Given'
  BY DEF Given
<1>5. \A j \in Slots : asked'[j] # None => SlotOK(asked'[j], Given')
  BY <1>2, <1>4 DEF AskedOK, SlotOK
<1> QED
  BY <1>1, <1>2, <1>3, <1>5 DEF AskedOK

(* A session goes on to rely on a bar that keeps its master and members.   *)
LEMMA ReliesKept ==
  ASSUME NEW s \in Asked, NEW b, Exists(b), Exists(b)',
         GetTeaBar(b)'.master = GetTeaBar(b).master,
         \A u \in Users : On(u, b)' = On(u, b) /\ (Going(u, b)' => Going(u, b)),
         \A u \in Users : u \in GetTeaBar(b)'.applied => u \in GetTeaBar(b).applied \/ ~On(u, b),
         Relies(s, b)
  PROVE  Relies(s, b)'
<1>1. s.by \in Users /\ s.who \in Users
  BY DEF Asked
<1>2. \A u \in Users : Due(u, b)' = Due(u, b)
  BY DEF Due
<1>3. On(s.who, b)' = On(s.who, b) /\ On(s.by, b)' = On(s.by, b)
  BY <1>1
<1>4. s.kind = "agree" =>
        (s.who \in GetTeaBar(b)'.applied /\ ~Has(s.seen[s.who], b) => ~On(s.who, b)')
  BY <1>1, <1>3 DEF Relies
<1>5. ASSUME s.kind = "transfer", NEW u \in {s.by, s.who}
      PROVE  ~Going(u, b)' /\ Shows(s.seen[u], u, b, Due(u, b)')
  BY <1>1, <1>2, <1>5 DEF Relies
<1>6. s.kind = "drop" => On(s.by, b)' /\ ~Going(s.by, b)'
  BY <1>1, <1>3 DEF Relies
<1>7. s.kind = "list" => On(s.by, b)'
  BY <1>1, <1>3 DEF Relies
<1>8. s.kind = "remove" =>
        /\ s.who # GetTeaBar(b)'.master /\ ~Going(s.who, b)'
        /\ Has(s.seen[s.who], b) \/ ~On(s.who, b)'
  BY <1>1, <1>3 DEF Relies
<1>9. s.kind = "put" => s.by = GetTeaBar(b)'.master
  BY DEF Relies
<1>10. s.kind = "cost" =>
        \A k \in DOMAIN s.seen[s.by] :
          s.seen[s.by][k].tbid = b /\ s.seen[s.by][k].chips > 0 => s.by = GetTeaBar(b)'.master
  BY DEF Relies
<1> QED
  BY <1>4, <1>5, <1>6, <1>7, <1>8, <1>9, <1>10 DEF Relies

(* A session about a bar is one that was asked, in good shape.             *)
LEMMA SessionsAsked ==
  ASSUME AskedOK, NEW b, NEW s \in Sessions(b)
  PROVE  s \in Asked /\ b \in s.tbids /\ SlotOK(s, Given)
<1>1. PICK i \in Slots : asked[i] # None /\ b \in asked[i].tbids /\ s = asked[i]
  BY DEF Sessions
<1> QED BY <1>1 DEF AskedOK, SlotOK

(* Sessions that end are about the bar no more, and no others begin.       *)
LEMMA SessionsLess ==
  ASSUME NEW b, \A i \in Slots : asked'[i] = asked[i] \/ asked'[i] = None
  PROVE  Sessions(b)' \subseteq Sessions(b)
<1> SUFFICES ASSUME NEW i \in Slots, asked'[i] # None, b \in asked'[i].tbids
             PROVE  asked'[i] \in Sessions(b)
  BY DEF Sessions
<1>1. asked'[i] = asked[i]
  OBVIOUS
<1> QED BY <1>1 DEF Sessions

-----------------------------------------------------------------------------
(* A step that leaves a bar alone *)

(* A bar whose members and master stay, with nothing relied upon taken     *)
(* away, stays sound when its users' queues still lead to what is due.     *)
LEMMA Steady ==
  ASSUME BarsOK, AskedOK, NEW b \in Tbids, Sound(b), Kept(b)', Apart(b)', DropsOnce(b)',
         Sessions(b)' \subseteq Sessions(b),
         Exists(b)' = Exists(b),
         Exists(b) => /\ GetTeaBar(b)'.master = GetTeaBar(b).master
                      /\ GetTeaBar(b)'.users = GetTeaBar(b).users
                      /\ \A u \in Users : u \in GetTeaBar(b)'.applied
                           => u \in GetTeaBar(b).applied \/ ~On(u, b),
         \A u \in Users : Going(u, b)' = Going(u, b),
         \A u \in Users : Comes(briefs'[u], updates'[u], u, b, Due(u, b))
  PROVE  Sound(b)'
<1>1. \A u \in Users : On(u, b)' = On(u, b)
  BY DEF On
<1>2. \A u \in Users : Due(u, b)' = Due(u, b)
  BY <1>1 DEF Due, On
<1>3. \A u \in Users : Comes(briefs'[u], updates'[u], u, b, Due(u, b)')
  BY <1>2
<1>4. ASSUME Exists(b)', NEW u \in Users
      PROVE  /\ LET d == IF Going(u, b)' THEN 1 ELSE 0 IN GetTeaBar(b)'.users[u] \in {d, d + 1}
             /\ u = GetTeaBar(b)'.master => On(u, b)'
  BY <1>1, <1>4 DEF Sound
<1>5. ASSUME Exists(b)', NEW s \in Sessions(b)' PROVE Relies(s, b)'
  <2>1. s \in Sessions(b)
    BY <1>5
  <2>2. Relies(s, b) /\ s \in Asked
    BY <2>1, <1>5, SessionsAsked DEF Sound
  <2> QED BY <2>2, <1>1, <1>5, ReliesKept
<1> QED
  BY <1>3, <1>4, <1>5 DEF Sound

(* So does a bar nobody wrote, when the updates sent lead nobody           *)
(* elsewhere.                                                              *)
LEMMA SentSteady ==
  ASSUME BarsOK, AskedOK, UpdatesOK, NEW b \in Tbids, Sound(b),
         cached'[b] = cached[b], stored'[b] = stored[b], drops' = drops, briefs' = briefs,
         \A i \in Slots : asked'[i] = asked[i] \/ asked'[i] = None,
         NEW s, NEW ops, Sent(s, ops), s.kind # "drop" \/ b \notin s.tbids,
         \A u \in Users : Leads(Due(u, b), ops[u], u, b, Due(u, b))
  PROVE  Sound(b)'
<1>1. GetTeaBar(b)' = GetTeaBar(b) /\ Exists(b)' = Exists(b) /\ Kept(b)'
  BY Unwritten DEF Sound
<1>2. Apart(b)' /\ DropsOnce(b)'
  BY ApartLess, SentDrops DEF Sound
<1>3. \A u \in Users : Going(u, b)' = Going(u, b)
  BY SentGoing
<1>4. \A u \in Users : Comes(briefs'[u], updates'[u], u, b, Due(u, b))
  BY SentComes, DueStanding DEF Sound
<1>5. Sessions(b)' \subseteq Sessions(b)
  BY SessionsLess
<1> QED
  BY <1>1, <1>2, <1>3, <1>4, <1>5, Steady

Nothing == [ u \in Users |-> << >> ]
NoOne   == [ kind |-> "none", tbids |-> {} ]

(* To send nothing is to send no updates to everybody.                     *)
LEMMA Unsent ==
  ASSUME updates' = updates
  PROVE  Sent(NoOne, Nothing)
  BY DEF Sent, Nothing

(* No fields lead nowhere.                                                 *)
LEMMA NothingLeads ==
  ASSUME NEW u \in Users, NEW b, NEW x \in Standing
  PROVE  Leads(x, Nothing[u], u, b, x)
<1>1. SeqLen(Nothing[u]) /\ DOMAIN Nothing[u] = {}
  BY DEF Nothing, SeqLen
<1> QED BY <1>1, LeadsStay

(* The updates of a session about other bars lead nobody elsewhere at this *)
(* one.                                                                    *)
LEMMA AsideLeads ==
  ASSUME NEW ops, NEW kind, NEW tbids, OpsOK(ops, kind, tbids),
         NEW u \in Users, NEW b, b \notin tbids, NEW x \in Standing
  PROVE  Leads(x, ops[u], u, b, x)
<1>1. ops[u] \in Seq(Op)
  BY DEF OpsOK
<1>2. SeqLen(ops[u])
  BY <1>1, LenProperties DEF SeqLen
<1>3. \A k \in DOMAIN ops[u] : Aside(ops[u][k], b)
  BY DEF OpsOK, OpOK, Aside
<1> QED BY <1>2, <1>3, LeadsStay

(* A session that ends and changes nothing else, but for the applications. *)
LEMMA TurnedSteady ==
  ASSUME BarsOK, AskedOK, UpdatesOK, NEW b \in Tbids, Sound(b),
         cached'[b] = cached[b], stored'[b] = stored[b], drops' = drops, briefs' = briefs,
         \A i \in Slots : asked'[i] = asked[i] \/ asked'[i] = None, updates' = updates
  PROVE  Sound(b)'
<1>1. \A u \in Users : Leads(Due(u, b), Nothing[u], u, b, Due(u, b))
  BY NothingLeads, DueStanding
<1>2. NoOne.kind # "drop"
  BY DEF NoOne
<1> QED
  BY <1>1, <1>2, Unsent, SentSteady

(* A handler that leaves the users' side alone leaves its shape.           *)
LEMMA RestShape ==
  ASSUME UserOK, DropsOK, UpdatesOK, UNCHANGED << atUser, drops >>,
         max_tbid \in Nat, max_tbid' \in Nat, max_tbid' >= max_tbid
  PROVE  UserOK' /\ DropsOK' /\ (updates' = updates => UpdatesOK')
<1>1. Given \subseteq Given'
  BY DEF Given
<1>2. UserOK' /\ DropsOK'
  BY <1>1 DEF UserOK, DropsOK, atUser
<1>3. ASSUME updates' = updates PROVE UpdatesOK'
  BY <1>1, <1>3 DEF UpdatesOK, MessageOK
<1> QED BY <1>2, <1>3

-----------------------------------------------------------------------------
(* Fields *)

(* A brief added is a fine field of a session about the bar, unless that   *)
(* is a put or a cost.                                                     *)
LEMMA AddOK ==
  ASSUME NEW tbids \in SUBSET Tbids, NEW b \in tbids, NEW m \in Users, NEW n \in Nat, NEW kind,
         kind \notin {"put", "cost"}
  PROVE  OpOK(Add(b, m, n), kind, tbids)
  BY DEF OpOK, Add, Op

(* So is a brief deleted.                                                  *)
LEMMA DelOK ==
  ASSUME NEW tbids \in SUBSET Tbids, NEW b \in tbids, NEW kind, kind \notin {"put", "cost"}
  PROVE  OpOK(Del(b), kind, tbids)
  BY DEF OpOK, Del, Op

(* The chips of a brief are changed by puts and costs.                     *)
LEMMA BarOK ==
  ASSUME NEW tbids \in SUBSET Tbids, NEW b \in tbids, NEW n \in Int, NEW kind \in {"put", "cost"}
  PROVE  OpOK(BarChips(b, n), kind, tbids)
  BY DEF OpOK, BarChips, Op

(* A put takes from the purse or gives to it; other sessions give.         *)
LEMMA PurseOK ==
  ASSUME NEW tbids, NEW n \in Int, NEW kind, kind # "cost", kind = "put" \/ n \in Nat
  PROVE  OpOK(Purse(n), kind, tbids)
  BY DEF OpOK, Purse, Op

(* A fine field is a field.                                                *)
LEMMA OpOKOp ==
  ASSUME NEW op, NEW kind, NEW tbids, OpOK(op, kind, tbids)
  PROVE  op \in Op
  BY DEF OpOK

(* The updates of one field for one user are fine when the field is.       *)
LEMMA ForOne ==
  ASSUME NEW v \in Users, NEW op, NEW kind, NEW tbids, OpOK(op, kind, tbids)
  PROVE  OpsOK(For(v, << op >>), kind, tbids)
<1>1. op \in Op
  BY OpOKOp
<1>2. << op >> \in Seq(Op) /\ << >> \in Seq(Op)
  BY <1>1
<1>3. For(v, << op >>) \in [Users -> Seq(Op)]
  BY <1>2 DEF For
<1>4. ASSUME NEW u \in Users, NEW j \in DOMAIN For(v, << op >>)[u]
      PROVE  OpOK(For(v, << op >>)[u][j], kind, tbids)
  <2>1. u = v /\ For(v, << op >>)[u] = << op >>
    BY <1>4 DEF For
  <2>2. << op >>[j] = op
    BY <1>4, <2>1
  <2> QED BY <2>1, <2>2
<1> QED BY <1>3, <1>4 DEF OpsOK

(* So are those of two fields.                                             *)
LEMMA ForTwo ==
  ASSUME NEW v \in Users, NEW op, NEW pp, NEW kind, NEW tbids,
         OpOK(op, kind, tbids), OpOK(pp, kind, tbids)
  PROVE  OpsOK(For(v, << op, pp >>), kind, tbids)
<1>1. op \in Op /\ pp \in Op
  BY OpOKOp
<1>2. << op, pp >> \in Seq(Op) /\ << >> \in Seq(Op)
  BY <1>1
<1>3. For(v, << op, pp >>) \in [Users -> Seq(Op)]
  BY <1>2 DEF For
<1>4. ASSUME NEW u \in Users, NEW j \in DOMAIN For(v, << op, pp >>)[u]
      PROVE  OpOK(For(v, << op, pp >>)[u][j], kind, tbids)
  <2>1. u = v /\ For(v, << op, pp >>)[u] = << op, pp >>
    BY <1>4 DEF For
  <2>2. << op, pp >>[j] \in {op, pp}
    BY <1>4, <2>1
  <2> QED BY <2>1, <2>2
<1> QED BY <1>3, <1>4 DEF OpsOK

(* And those of none.                                                      *)
LEMMA ForNone ==
  ASSUME NEW v, NEW kind, NEW tbids
  PROVE  OpsOK(For(v, << >>), kind, tbids)
  BY DEF For, OpsOK

(* Chips that come or go lead nowhere.                                     *)
LEMMA ChipsLead ==
  ASSUME NEW x \in Standing, NEW b, NEW c, NEW n, NEW k, NEW u, c = b => x # "zero"
  PROVE  Leads(x, << BarChips(c, n), Purse(k) >>, u, b, x) /\ Leads(x, << BarChips(c, n) >>, u, b, x)
<1> DEFINE g == [j \in 0 .. 2 |-> x]  h == [j \in 0 .. 1 |-> x]
<1>1. g \in [0 .. 2 -> Standing] /\ h \in [0 .. 1 -> Standing] /\ g[0] = x /\ g[2] = x /\ h[0] = x /\ h[1] = x
  OBVIOUS
<1>2. Len(<< BarChips(c, n), Purse(k) >>) = 2 /\ Len(<< BarChips(c, n) >>) = 1
  OBVIOUS
<1>3. Allowed(x, BarChips(c, n), u, b) /\ Turned(x, BarChips(c, n), u, b) = x
  BY DEF Allowed, Turned, BarChips
<1>4. Allowed(x, Purse(k), u, b) /\ Turned(x, Purse(k), u, b) = x
  BY DEF Allowed, Turned, Purse
<1>5. \A j \in 1 .. 2 : Allowed(g[j - 1], << BarChips(c, n), Purse(k) >>[j], u, b)
                        /\ g[j] = Turned(g[j - 1], << BarChips(c, n), Purse(k) >>[j], u, b)
  <2> SUFFICES ASSUME NEW j \in 1 .. 2
               PROVE  Allowed(g[j - 1], << BarChips(c, n), Purse(k) >>[j], u, b)
                      /\ g[j] = Turned(g[j - 1], << BarChips(c, n), Purse(k) >>[j], u, b)
    OBVIOUS
  <2>1. g[j] = x /\ g[j - 1] = x
    OBVIOUS
  <2>2. << BarChips(c, n), Purse(k) >>[j] \in {BarChips(c, n), Purse(k)}
    OBVIOUS
  <2> QED BY <2>1, <2>2, <1>3, <1>4
<1>6. \A j \in 1 .. 1 : Allowed(h[j - 1], << BarChips(c, n) >>[j], u, b)
                        /\ h[j] = Turned(h[j - 1], << BarChips(c, n) >>[j], u, b)
  <2> SUFFICES ASSUME NEW j \in 1 .. 1
               PROVE  Allowed(h[j - 1], << BarChips(c, n) >>[j], u, b)
                      /\ h[j] = Turned(h[j - 1], << BarChips(c, n) >>[j], u, b)
    OBVIOUS
  <2>1. h[j] = x /\ h[j - 1] = x /\ << BarChips(c, n) >>[j] = BarChips(c, n)
    OBVIOUS
  <2> QED BY <2>1, <1>3
<1> HIDE DEF g, h
<1> QED BY <1>1, <1>2, <1>5, <1>6 DEF Leads

-----------------------------------------------------------------------------
(* Sessions that write no bar *)

(* What IInv says of the numbers of bars.                                  *)
LEMMA ShapeBars == ASSUME IInv PROVE Shape /\ max_tbid \in Nat /\ Given \subseteq Tbids
  BY GivenTbids DEF IInv, Shape

(* A session that ends with neither a write nor an update keeps IInv.      *)
LEMMA GotNothing ==
  ASSUME IInv, NEW i \in Slots, NEW kind, Turn(i, kind), Rest, NoWrite, UNCHANGED updates
  PROVE  IInv'
<1>1. Shape /\ max_tbid \in Nat /\ max_tbid' = max_tbid /\ drops' = drops /\ requests' = requests
      /\ atUser' = atUser /\ briefs' = briefs
  BY ShapeBars DEF Rest, atUser
<1>2. BarsOK' /\ CountsOK' /\ spoilt' = spoilt
      /\ \A b \in Tbids : cached'[b] = cached[b] /\ stored'[b] = stored[b]
  BY <1>1, NoWriteBars DEF Shape
<1>3. AskedOK' /\ \A j \in Slots : asked'[j] = asked[j] \/ asked'[j] = None
  BY <1>1, TurnSlots DEF Shape
<1>4. UserOK' /\ DropsOK' /\ UpdatesOK'
  BY <1>1, RestShape DEF Shape
<1>5. ASSUME NEW b \in Tbids \ spoilt PROVE Sound(b)'
  <2>1. Sound(b)
    BY DEF IInv
  <2> QED BY <1>1, <1>2, <1>3, <2>1, TurnedSteady DEF Shape
<1> QED
  BY <1>2, <1>3, <1>4, <1>5 DEF IInv, Shape

(* A session that ends with updates that lead nobody elsewhere, and no     *)
(* write, keeps IInv.                                                      *)
LEMMA GotSent ==
  ASSUME IInv, NEW i \in Slots, NEW kind, kind # "drop", Turn(i, kind), Rest, NoWrite,
         NEW ops, OpsOK(ops, kind, asked[i].tbids), Save(asked[i], ops),
         \A b \in asked[i].tbids \ spoilt : \A u \in Users : Leads(Due(u, b), ops[u], u, b, Due(u, b))
  PROVE  IInv'
<1>1. Shape /\ max_tbid \in Nat /\ max_tbid' = max_tbid /\ drops' = drops /\ requests' = requests
      /\ atUser' = atUser /\ briefs' = briefs /\ Given' = Given /\ Given \subseteq Tbids
  BY ShapeBars DEF Rest, atUser, Given
<1>2. BarsOK' /\ CountsOK' /\ spoilt' = spoilt
      /\ \A b \in Tbids : cached'[b] = cached[b] /\ stored'[b] = stored[b]
  BY <1>1, NoWriteBars DEF Shape
<1>3. /\ AskedOK' /\ SlotOK(asked[i], Given) /\ asked[i].kind = kind
      /\ \A j \in Slots : asked'[j] = asked[j] \/ asked'[j] = None
  BY <1>1, TurnSlots DEF Shape
<1>4. UserOK' /\ DropsOK'
  BY <1>1, RestShape DEF Shape
<1>5. asked[i].tbids \subseteq Given' /\ asked[i].tbids \subseteq Tbids /\ asked[i].kind \in Kinds
  BY <1>1, <1>3 DEF SlotOK, Asked
<1>6. UpdatesOK' /\ Sent(asked[i], ops)
  BY <1>1, <1>3, <1>5, SavedUpdates DEF Shape, Sent
<1>7. ASSUME NEW b \in Tbids \ spoilt PROVE Sound(b)'
  <2>1. Sound(b)
    BY DEF IInv
  <2>2. \A u \in Users : Leads(Due(u, b), ops[u], u, b, Due(u, b))
    BY AsideLeads, DueStanding
  <2> QED BY <1>1, <1>2, <1>3, <1>6, <2>1, <2>2, SentSteady DEF Shape
<1> QED
  BY <1>2, <1>3, <1>4, <1>6, <1>7 DEF IInv, Shape

(* The briefs a session saw are a sequence.                                *)
LEMMA Seen ==
  ASSUME NEW s \in Asked, NEW u \in Users
  PROVE  s.seen[u] \in Seq(Brief) /\ SeqLen(s.seen[u])
<1>1. s.seen[u] \in Seq(Brief)
  BY DEF Asked
<1> QED BY <1>1, LenProperties DEF SeqLen

(* The session of a slot is one about its bars.                            *)
LEMMA SlotSession ==
  ASSUME NEW i \in Slots, asked[i] # None, NEW b \in asked[i].tbids
  PROVE  asked[i] \in Sessions(b)
  BY DEF Sessions

(* A master's brief of his bar is his own.                                 *)
LEMMA MasterOwn ==
  ASSUME NEW b \in Tbids, Sound(b), NEW u \in Users, Exists(b) => GetTeaBar(b).master = u
  PROVE  Due(u, b) # "zero"
  BY DEF Sound, Due, On

(* The answer to a put keeps IInv: only the master puts, so that the brief *)
(* whose chips change is his own.                                          *)
LEMMA PutStep ==
  ASSUME IInv, NEW i \in Slots, PutGot(i)
  PROVE  IInv'
<1> DEFINE u == asked[i].by  b == Bar1(asked[i])  n == asked[i].n
<1>1. Turn(i, "put") /\ Rest /\ NoWrite
  BY DEF PutGot
<1>2. asked[i] # None /\ asked[i].kind = "put" /\ SlotOK(asked[i], Given) /\ Given \subseteq Tbids
  BY <1>1, ShapeBars DEF Turn, Shape, AskedOK
<1>3. u \in Users /\ n \in Int /\ -n \in Int /\ b \in asked[i].tbids /\ asked[i].tbids \subseteq Tbids
  <2>1. \E c : asked[i].tbids = {c}
    BY <1>2 DEF SlotOK
  <2>2. asked[i].tbids # {}
    BY <2>1
  <2>3. b \in asked[i].tbids
    BY <2>2, Bar1In
  <2> QED BY <1>2, <2>3 DEF SlotOK, Asked
<1>4. CASE UNCHANGED updates
  BY <1>1, <1>4, GotNothing
<1>5. CASE Save(asked[i], For(u, << BarChips(b, n), Purse(-n) >>))
  <2> DEFINE ops == For(u, << BarChips(b, n), Purse(-n) >>)
  <2>1. OpsOK(ops, "put", asked[i].tbids)
    BY <1>3, BarOK, PurseOK, ForTwo
  <2>2. ASSUME NEW c \in asked[i].tbids \ spoilt, NEW v \in Users
        PROVE  Leads(Due(v, c), ops[v], v, c, Due(v, c))
    <3>1. CASE v = u /\ c = b
      <4>1. Sound(c) /\ asked[i] \in Sessions(c)
        BY <1>2, <1>3, <2>2, SlotSession DEF IInv
      <4>2. Exists(c) => GetTeaBar(c).master = u
        BY <4>1, <1>2 DEF Sound, Relies
      <4>3. Due(u, c) # "zero"
        BY <4>1, <4>2, <1>3, MasterOwn
      <4>4. ops[v] = << BarChips(b, n), Purse(-n) >>
        BY <3>1 DEF For
      <4> QED BY <4>3, <4>4, <3>1, ChipsLead, DueStanding
    <3>2. CASE v = u /\ c # b
      <4>1. ops[v] = << BarChips(b, n), Purse(-n) >>
        BY <3>2 DEF For
      <4> QED BY <4>1, <3>2, ChipsLead, DueStanding
    <3>3. CASE v # u
      <4>1. ops[v] = Nothing[v]
        BY <3>3 DEF For, Nothing
      <4> QED BY <4>1, NothingLeads, DueStanding
    <3> QED BY <3>1, <3>2, <3>3
  <2> HIDE DEF ops
  <2> QED BY <1>1, <1>5, <2>1, <2>2, GotSent DEF ops
<1> QED
  BY <1>4, <1>5 DEF PutGot

(* The answer to a cost keeps IInv: chips are taken from a brief that has  *)
(* some, which is a master's.                                              *)
LEMMA CostStep ==
  ASSUME IInv, NEW i \in Slots, CostGot(i)
  PROVE  IInv'
<1> DEFINE u == asked[i].by  b == Bar1(asked[i])  s == asked[i].seen[u]
<1>1. Turn(i, "cost") /\ Rest /\ NoWrite
  BY DEF CostGot
<1>2. asked[i] # None /\ asked[i].kind = "cost" /\ SlotOK(asked[i], Given) /\ Given \subseteq Tbids
  BY <1>1, ShapeBars DEF Turn, Shape, AskedOK
<1>3. u \in Users /\ b \in asked[i].tbids /\ asked[i].tbids \subseteq Tbids /\ asked[i] \in Asked
  BY <1>2, Bar1In DEF SlotOK, Asked
<1>4. CASE UNCHANGED updates
  BY <1>1, <1>4, GotNothing
<1>5. CASE Has(s, b) /\ s[At(s, b)].chips >= 1 /\ Save(asked[i], For(u, << BarChips(b, -1) >>))
  <2> DEFINE ops == For(u, << BarChips(b, -1) >>)
  <2>1. OpsOK(ops, "cost", asked[i].tbids)
    BY <1>3, BarOK, ForOne
  <2>2. ASSUME NEW c \in asked[i].tbids \ spoilt, NEW v \in Users
        PROVE  Leads(Due(v, c), ops[v], v, c, Due(v, c))
    <3>1. CASE v = u /\ c = b
      <4>1. Sound(c) /\ asked[i] \in Sessions(c)
        BY <1>2, <1>3, <2>2, SlotSession DEF IInv
      <4>2. s \in Seq(Brief) /\ SeqLen(s)
        BY <1>3, Seen
      <4>3. At(s, b) \in DOMAIN s /\ s[At(s, b)].tbid = b
        BY <4>2, <1>5, AtFound DEF SeqLen
      <4>4. s[At(s, b)].chips > 0
        <5>1. s[At(s, b)] \in Brief
          BY <4>2, <4>3
        <5>2. s[At(s, b)].chips \in Nat
          BY <5>1 DEF Brief
        <5> QED BY <5>2, <1>5
      <4>5. Exists(c) => GetTeaBar(c).master = u
        BY <4>1, <4>3, <4>4, <3>1, <1>2 DEF Sound, Relies
      <4>6. Due(u, c) # "zero"
        BY <4>1, <4>5, <1>3, MasterOwn
      <4>7. ops[v] = << BarChips(b, -1) >>
        BY <3>1 DEF For
      <4> QED BY <4>6, <4>7, <3>1, ChipsLead, DueStanding
    <3>2. CASE v = u /\ c # b
      <4>1. ops[v] = << BarChips(b, -1) >>
        BY <3>2 DEF For
      <4> QED BY <4>1, <3>2, ChipsLead, DueStanding
    <3>3. CASE v # u
      <4>1. ops[v] = Nothing[v]
        BY <3>3 DEF For, Nothing
      <4> QED BY <4>1, NothingLeads, DueStanding
    <3> QED BY <3>1, <3>2, <3>3
  <2> HIDE DEF ops
  <2> QED BY <1>1, <1>5, <2>1, <2>2, GotSent DEF ops
<1> QED
  BY <1>4, <1>5 DEF CostGot

-----------------------------------------------------------------------------
(* Sessions that write bars *)

(* Saving no updates leaves the queues.                                    *)
LEMMA SaveNothing ==
  ASSUME UpdatesOK, updates' = updates, NEW s, NEW kind, NEW tbids
  PROVE  Save(s, Nothing) /\ OpsOK(Nothing, kind, tbids)
<1>1. \A u \in Users : Nothing[u] = << >>
  BY DEF Nothing
<1>2. Save(s, Nothing)
  <2>1. updates = [ u \in Users |-> updates[u] ]
    BY DEF UpdatesOK
  <2> QED BY <1>1, <2>1 DEF Save
<1>3. OpsOK(Nothing, kind, tbids)
  BY DEF OpsOK, Nothing
<1> QED BY <1>2, <1>3

(* The bars bs are written, and the others are not.                        *)
WrittenTo(bs, bar) ==
  /\ BarsOK' /\ CountsOK' /\ spoilt \subseteq spoilt'
  /\ \A b \in bs \ spoilt' : GetTeaBar(b)' = bar[b] /\ Kept(b)'
  /\ \A b \in Tbids \ bs : cached'[b] = cached[b] /\ stored'[b] = stored[b]

(* Writing no bars is a save of none.                                      *)
LEMMA NoWriteSaved ==
  ASSUME BarsOK, CountsOK, NoWrite, NEW bar
  PROVE  Saved({}, bar)
<1>1. cached' = [ b \in Tbids |-> IF b \in {} THEN bar[b] ELSE cached[b] ]
  BY DEF BarsOK, NoWrite
<1>2. stored' = [ b \in Tbids |-> IF b \in {} \ {} THEN bar[b] ELSE stored[b] ]
  BY DEF BarsOK, NoWrite
<1>3. faults' = faults + Cardinality({}) /\ faults' <= MaxFaults
  BY FS_EmptySet, TeaBarAssumption DEF CountsOK, NoWrite
<1>4. spoilt' = spoilt \cup {}
  BY DEF NoWrite
<1> QED BY <1>1, <1>2, <1>3, <1>4 DEF Saved

(* A save of bars that exist writes them.                                  *)
LEMMA SavedWrites ==
  ASSUME IInv, Rest,
         NEW bs \in SUBSET Tbids, NEW bar, \A b \in bs : Exists(b) /\ bar[b] \in Bar \cup {None},
         Saved(bs, bar)
  PROVE  WrittenTo(bs, bar)
<1>1. Shape /\ max_tbid \in Nat /\ max_tbid' = max_tbid /\ requests' = requests /\ Given \subseteq Tbids
  BY ShapeBars DEF Rest
<1>2. /\ BarsOK' /\ CountsOK' /\ spoilt \subseteq spoilt'
      /\ \A b \in bs \ spoilt' : cached'[b] = bar[b] /\ stored'[b] = bar[b]
      /\ \A b \in Tbids \ bs : cached'[b] = cached[b] /\ stored'[b] = stored[b]
  <2>1. \A b \in bs : ~(b > max_tbid')
    BY <1>1, ThereIs DEF Shape, Given
  <2>2. max_tbid' \in max_tbid .. MaxTbid
    BY <1>1, Numbers DEF Shape, BarsOK
  <2>3. BarsOK /\ CountsOK /\ bs \subseteq Tbids
    BY <1>1 DEF Shape
  <2>4. \A b \in bs : bar[b] \in Bar \cup {None}
    OBVIOUS
  <2>5. \A b \in bs : b > max_tbid' => bar[b] = None
    BY <2>1
  <2> QED BY <1>1, <2>2, <2>3, <2>4, <2>5, SavedBars
<1>3. \A b \in bs \ spoilt' : GetTeaBar(b)' = bar[b] /\ Kept(b)'
  BY <1>2, Written
<1> QED
  BY <1>2, <1>3 DEF WrittenTo

(* A handler without a write writes to no bar.                             *)
LEMMA NothingWrites ==
  ASSUME IInv, Rest, NoWrite
  PROVE  WrittenTo({}, Nothing)
<1>1. Shape
  BY ShapeBars
<1>2. Saved({}, Nothing)
  BY <1>1, NoWriteSaved DEF Shape
<1> QED BY <1>2, SavedWrites

(* A bar changed in the cache only, in its applications, counts as         *)
(* written.                                                                *)
LEMMA CachedWrites ==
  ASSUME IInv, Rest, NEW b \in Tbids, Exists(b), NEW bar \in Bar,
         bar.master = GetTeaBar(b).master, bar.users = GetTeaBar(b).users,
         cached' = [cached EXCEPT ![b] = bar], NotSaved
  PROVE  WrittenTo({b}, Only(b, bar))
<1>1. Shape /\ max_tbid' = max_tbid /\ requests' = requests /\ b \in Given /\ max_tbid \in Nat
  BY ShapeBars, ThereIs DEF Rest, Shape
<1>2. BarsOK'
  <2>1. cached' \in [Tbids -> Bar \cup {None}]
    BY <1>1 DEF Shape, BarsOK
  <2>2. \A c \in Tbids : c > max_tbid => c # b
    BY <1>1 DEF Given
  <2>3. \A c \in Tbids : c > max_tbid' => cached'[c] = None /\ stored'[c] = None
    BY <1>1, <2>2 DEF Shape, BarsOK, NotSaved
  <2> QED BY <1>1, <2>1, <2>3 DEF Shape, BarsOK, NotSaved
<1>3. CountsOK' /\ spoilt' = spoilt /\ stored' = stored
  BY <1>1 DEF Shape, CountsOK, NotSaved
<1>4. cached'[b] = bar /\ \A c \in Tbids \ {b} : cached'[c] = cached[c]
  BY <1>1 DEF Shape, BarsOK
<1>5. ASSUME b \notin spoilt PROVE GetTeaBar(b)' = bar /\ Kept(b)'
  <2>1. Kept(b)
    BY <1>5 DEF IInv, Sound
  <2>2. /\ stored[b] # None
        /\ stored[b].master = GetTeaBar(b).master /\ stored[b].users = GetTeaBar(b).users
    BY <2>1 DEF Kept, GetTeaBar, Exists
  <2>3. cached'[b] # None
    BY <1>4, Numbers
  <2> QED BY <1>3, <1>4, <2>2, <2>3 DEF GetTeaBar, Kept
<1>6. Only(b, bar)[b] = bar
  BY DEF Only
<1> QED
  BY <1>2, <1>3, <1>4, <1>5, <1>6 DEF WrittenTo

(* A session about bars ends: it writes some of them and sends messages.   *)
Ends(i, kind, bs, bar, ops) ==
  /\ Turn(i, kind) /\ Rest
  /\ bs \subseteq Tbids /\ WrittenTo(bs, bar)
  /\ OpsOK(ops, kind, asked[i].tbids) /\ Save(asked[i], ops)

(* What any handler that ends by writing bars and sending updates leaves:  *)
(* the shape, what was written and what was not, and the sessions that     *)
(* were there and do not conflict with it.                                 *)
LEMMA Wrote ==
  ASSUME IInv, NEW i \in Slots, NEW kind, NEW bs, NEW bar, NEW ops, Ends(i, kind, bs, bar, ops)
  PROVE  /\ Shape' /\ spoilt \subseteq spoilt' /\ briefs' = briefs /\ drops' = drops
         /\ Sent(asked[i], ops) /\ asked[i] # None /\ asked[i].kind = kind /\ SlotOK(asked[i], Given)
         /\ \A b \in bs \ spoilt' : GetTeaBar(b)' = bar[b] /\ Kept(b)'
         /\ \A b \in Tbids \ bs : cached'[b] = cached[b] /\ stored'[b] = stored[b]
         /\ \A j \in Slots : asked'[j] = asked[j] \/ asked'[j] = None
         /\ \A b \in Tbids \ spoilt' : Apart(b)' /\
              \A s \in Sessions(b)' :
                s \in Sessions(b) /\ (b \in asked[i].tbids => {kind, s.kind} \notin Conflicts)
<1>0. /\ Turn(i, kind) /\ Rest /\ bs \in SUBSET Tbids /\ WrittenTo(bs, bar)
      /\ OpsOK(ops, kind, asked[i].tbids) /\ Save(asked[i], ops)
  BY DEF Ends
<1>1. Shape /\ max_tbid \in Nat /\ max_tbid' = max_tbid /\ drops' = drops /\ requests' = requests
      /\ atUser' = atUser /\ briefs' = briefs /\ Given' = Given /\ Given \subseteq Tbids
  BY <1>0, ShapeBars DEF Rest, atUser, Given
<1>2. /\ BarsOK' /\ CountsOK' /\ spoilt \subseteq spoilt'
      /\ \A b \in Tbids \ bs : cached'[b] = cached[b] /\ stored'[b] = stored[b]
  BY <1>0 DEF WrittenTo
<1>3. /\ AskedOK' /\ asked[i] # None /\ SlotOK(asked[i], Given) /\ asked[i].kind = kind
      /\ asked'[i] = None /\ \A j \in Slots : j # i => asked'[j] = asked[j]
  BY <1>0, <1>1, TurnSlots DEF Shape
<1>4. UserOK' /\ DropsOK'
  BY <1>1, RestShape DEF Shape
<1>5. asked[i].tbids \subseteq Given' /\ asked[i].tbids \subseteq Tbids /\ asked[i].kind \in Kinds
  BY <1>1, <1>3 DEF SlotOK, Asked
<1>6. UpdatesOK' /\ Sent(asked[i], ops)
  BY <1>0, <1>1, <1>3, <1>5, SavedUpdates DEF Shape, Sent
<1>7. \A b \in bs \ spoilt' : GetTeaBar(b)' = bar[b] /\ Kept(b)'
  BY <1>0 DEF WrittenTo
<1>8. ASSUME NEW b \in Tbids \ spoilt'
      PROVE  Apart(b)' /\
             \A s \in Sessions(b)' :
               s \in Sessions(b) /\ (b \in asked[i].tbids => {kind, s.kind} \notin Conflicts)
  <2>1. Apart(b)
    BY <1>2 DEF IInv, Sound
  <2>2. Apart(b)'
    BY <1>3, <2>1, ApartLess
  <2>3. ASSUME NEW s \in Sessions(b)', b \in asked[i].tbids
        PROVE  {kind, s.kind} \notin Conflicts
    <3>1. PICK j \in Slots : asked'[j] # None /\ b \in asked'[j].tbids /\ s = asked'[j]
      BY <2>3 DEF Sessions
    <3>2. j # i /\ asked'[j] = asked[j]
      BY <3>1, <1>3
    <3> QED BY <3>1, <3>2, <2>1, <2>3, <1>3 DEF Apart
  <2> QED BY <2>2, <2>3, <1>3, SessionsLess
<1>9. Shape'
  BY <1>2, <1>3, <1>4, <1>6 DEF Shape
<1> QED
  BY <1>1, <1>2, <1>3, <1>6, <1>7, <1>8, <1>9

(* What the brief of a user is to say when the bar is bar.                 *)
OnIn(bar, u, gone)  == bar.users[u] > IF gone THEN 1 ELSE 0
DueIn(bar, u, gone) == IF ~OnIn(bar, u, gone) THEN "none" ELSE IF bar.master = u THEN "own" ELSE "zero"

(* A bar written is sound when its members and master fit, when the        *)
(* updates lead everybody to what the new bar keeps of him, and when the   *)
(* sessions left can still rely on it.                                     *)
LEMMA WroteBar ==
  ASSUME UpdatesOK, NEW b \in Tbids, Sound(b), Kept(b)', Apart(b)',
         NEW bar \in Bar, GetTeaBar(b)' = bar,
         \A u \in Users : LET d == IF Going(u, b) THEN 1 ELSE 0 IN bar.users[u] \in {d, d + 1},
         \A u \in Users : u = bar.master => OnIn(bar, u, Going(u, b)),
         NEW s, NEW ops, Sent(s, ops), s.kind # "drop" \/ b \notin s.tbids,
         drops' = drops, briefs' = briefs,
         \A u \in Users : Leads(Due(u, b), ops[u], u, b, DueIn(bar, u, Going(u, b))),
         \A t \in Sessions(b)' : Relies(t, b)'
  PROVE  Sound(b)'
<1>1. DropsOnce(b)'
  BY SentDrops DEF Sound
<1>2. \A u \in Users : Going(u, b)' = Going(u, b)
  BY SentGoing
<1>3. Exists(b)'
  BY Numbers DEF Exists
<1>4. \A u \in Users : On(u, b)' = OnIn(bar, u, Going(u, b)) /\ Due(u, b)' = DueIn(bar, u, Going(u, b))
  BY <1>2, <1>3 DEF On, OnIn, Due, DueIn
<1>5. \A u \in Users : Comes(briefs'[u], updates'[u], u, b, Due(u, b)')
  <2> SUFFICES ASSUME NEW u \in Users
               PROVE  Comes(briefs'[u], updates'[u], u, b, DueIn(bar, u, Going(u, b)))
    BY <1>4
  <2>1. Comes(briefs[u], updates[u], u, b, Due(u, b))
    BY DEF Sound
  <2>2. DueIn(bar, u, Going(u, b)) \in Standing
    BY DEF DueIn, Standing
  <2> QED BY <2>1, <2>2, SentComes
<1>6. ASSUME NEW u \in Users
      PROVE  /\ LET d == IF Going(u, b)' THEN 1 ELSE 0 IN GetTeaBar(b)'.users[u] \in {d, d + 1}
             /\ u = GetTeaBar(b)'.master => On(u, b)'
  BY <1>2, <1>4
<1> QED
  BY <1>1, <1>5, <1>6 DEF Sound

(* A handler that ends by writing bars keeps IInv when each bar it wrote   *)
(* is sound, and when it leads nobody elsewhere at the bars of its session *)
(* that it did not write.                                                  *)
LEMMA WroteAll ==
  ASSUME IInv, NEW i \in Slots, NEW kind, kind # "drop",
         NEW bs, NEW bar, NEW ops, Ends(i, kind, bs, bar, ops),
         \A b \in asked[i].tbids \ bs : b \notin spoilt =>
           \A u \in Users : Leads(Due(u, b), ops[u], u, b, Due(u, b)),
         \A b \in bs : b \notin spoilt' =>
           /\ bar[b] \in Bar
           /\ \A u \in Users :
                /\ LET d == IF Going(u, b) THEN 1 ELSE 0 IN bar[b].users[u] \in {d, d + 1}
                /\ u = bar[b].master => OnIn(bar[b], u, Going(u, b))
                /\ Leads(Due(u, b), ops[u], u, b, DueIn(bar[b], u, Going(u, b)))
           /\ \A t \in Sessions(b)' : Relies(t, b)'
  PROVE  IInv'
<1>1. /\ Shape' /\ spoilt \subseteq spoilt' /\ briefs' = briefs /\ drops' = drops
      /\ Sent(asked[i], ops) /\ asked[i] # None /\ asked[i].kind = kind /\ SlotOK(asked[i], Given)
      /\ \A b \in bs \ spoilt' : GetTeaBar(b)' = bar[b] /\ Kept(b)'
      /\ \A b \in Tbids \ bs : cached'[b] = cached[b] /\ stored'[b] = stored[b]
      /\ \A j \in Slots : asked'[j] = asked[j] \/ asked'[j] = None
      /\ \A b \in Tbids \ spoilt' : Apart(b)'
  BY Wrote
<1>2. Shape /\ OpsOK(ops, kind, asked[i].tbids)
  BY ShapeBars DEF Ends
<1>3. ASSUME NEW b \in Tbids \ spoilt' PROVE Sound(b)'
  <2>1. Sound(b) /\ b \notin spoilt
    BY <1>1 DEF IInv
  <2>2. CASE b \in bs
    <3>1. GetTeaBar(b)' = bar[b] /\ Kept(b)' /\ Apart(b)' /\ bar[b] \in Bar
      BY <1>1, <2>2
    <3> QED BY <1>1, <1>2, <2>1, <2>2, <3>1, WroteBar DEF Shape
  <2>3. CASE b \notin bs
    <3>1. \A u \in Users : Leads(Due(u, b), ops[u], u, b, Due(u, b))
      <4>1. CASE b \in asked[i].tbids
        BY <2>1, <2>3, <4>1
      <4>2. CASE b \notin asked[i].tbids
        BY <1>2, <4>2, AsideLeads, DueStanding
      <4> QED BY <4>1, <4>2
    <3> QED BY <1>1, <1>2, <2>1, <2>3, <3>1, SentSteady DEF Shape
  <2> QED BY <2>2, <2>3
<1> QED
  BY <1>1, <1>3 DEF IInv

(* Sessions go on to rely on a bar that changes.                           *)
LEMMA ReliesMore ==
  ASSUME NEW t \in Asked, NEW b, Relies(t, b), t.kind \notin {"remove", "transfer"},
         GetTeaBar(b)'.master = GetTeaBar(b).master,
         \A u \in Users : (On(u, b) => On(u, b)') /\ (Going(u, b)' => Going(u, b)),
         \A u \in Users : u \in GetTeaBar(b)'.applied /\ On(u, b)' => u \in GetTeaBar(b).applied /\ On(u, b)
  PROVE  Relies(t, b)'
<1>1. t.by \in Users /\ t.who \in Users
  BY DEF Asked
<1>2. t.kind = "agree" =>
        (t.who \in GetTeaBar(b)'.applied /\ ~Has(t.seen[t.who], b) => ~On(t.who, b)')
  BY <1>1 DEF Relies
<1>3. t.kind = "drop" => On(t.by, b)' /\ ~Going(t.by, b)'
  BY <1>1 DEF Relies
<1>4. t.kind = "list" => On(t.by, b)'
  BY <1>1 DEF Relies
<1>5. t.kind = "put" => t.by = GetTeaBar(b)'.master
  BY DEF Relies
<1>6. t.kind = "cost" =>
        \A k \in DOMAIN t.seen[t.by] :
          t.seen[t.by][k].tbid = b /\ t.seen[t.by][k].chips > 0 => t.by = GetTeaBar(b)'.master
  BY DEF Relies
<1> QED
  BY <1>2, <1>3, <1>4, <1>5, <1>6 DEF Relies

(* Sessions that only rely on the master are served while he stays.        *)
LEMMA ReliesFew ==
  ASSUME NEW t, NEW b, Relies(t, b),
         t.kind \notin {"agree", "drop", "list", "remove", "transfer"},
         GetTeaBar(b)'.master = GetTeaBar(b).master
  PROVE  Relies(t, b)'
  BY DEF Relies

(* What AddUser does to the count of its user, and that it does nothing    *)
(* else.                                                                   *)
LEMMA AddUserBar ==
  ASSUME NEW bar \in Bar, NEW u \in Users
  PROVE  /\ AddUser(bar, u) \in Bar
         /\ AddUser(bar, u).master = bar.master /\ AddUser(bar, u).applied = bar.applied
         /\ \A v \in Users : AddUser(bar, u).users[v] = IF v = u THEN bar.users[u] + 1 ELSE bar.users[v]
  BY DEF AddUser, Bar

(* What DeleteUser does to the count of its user, and that it does nothing *)
(* else.                                                                   *)
LEMMA DeleteUserBar ==
  ASSUME NEW bar \in Bar, NEW u \in Users
  PROVE  /\ DeleteUser(bar, u) \in Bar
         /\ DeleteUser(bar, u).master = bar.master /\ DeleteUser(bar, u).applied = bar.applied
         /\ \A v \in Users :
              DeleteUser(bar, u).users[v] =
                IF v = u THEN (IF bar.users[u] = 0 THEN 0 ELSE bar.users[u] - 1) ELSE bar.users[v]
  BY DEF DeleteUser, Bar

(* A bar that stays as it is, but for the applications.                    *)
LEMMA WroteApplied ==
  ASSUME IInv, NEW i \in Slots, NEW kind, kind # "drop", Turn(i, kind), Rest, updates' = updates,
         NEW b \in Tbids, Exists(b), NEW bar \in Bar,
         bar.master = GetTeaBar(b).master, bar.users = GetTeaBar(b).users,
         \A u \in Users : u \in bar.applied => u \in GetTeaBar(b).applied \/ ~On(u, b),
         cached' = [cached EXCEPT ![b] = bar], NotSaved
  PROVE  IInv'
<1>1. Shape
  BY ShapeBars
<1>2. WrittenTo({b}, Only(b, bar))
  BY CachedWrites
<1>3. Save(asked[i], Nothing) /\ OpsOK(Nothing, kind, asked[i].tbids)
  BY <1>1, SaveNothing DEF Shape
<1>4. Only(b, bar)[b] = bar
  BY DEF Only
<1>5. /\ drops' = drops /\ Sent(asked[i], Nothing)
      /\ GetTeaBar(b)' = bar \/ b \in spoilt'
      /\ \A c \in Tbids \ spoilt' : \A s \in Sessions(c)' : s \in Sessions(c)
      /\ spoilt \subseteq spoilt'
  <2>1. Ends(i, kind, {b}, Only(b, bar), Nothing)
    BY <1>2, <1>3 DEF Ends
  <2> DEFINE bs == {b}  only == Only(b, bar)
  <2>2. Ends(i, kind, bs, only, Nothing) /\ b \in bs /\ only[b] = bar
    BY <1>4, <2>1
  <2> HIDE DEF bs, only
  <2>3. drops' = drops /\ Sent(asked[i], Nothing) /\ spoilt \subseteq spoilt'
    BY <2>2, Wrote
  <2>4. \A c \in bs \ spoilt' : GetTeaBar(c)' = only[c]
    BY <2>2, Wrote
  <2>5. \A c \in Tbids \ spoilt' : \A s \in Sessions(c)' : s \in Sessions(c)
    BY <2>2, Wrote
  <2> QED BY <2>2, <2>3, <2>4, <2>5
<1>6. ASSUME b \notin spoilt'
      PROVE  /\ \A u \in Users :
                  /\ LET d == IF Going(u, b) THEN 1 ELSE 0 IN bar.users[u] \in {d, d + 1}
                  /\ u = bar.master => OnIn(bar, u, Going(u, b))
                  /\ DueIn(bar, u, Going(u, b)) = Due(u, b)
             /\ \A t \in Sessions(b)' : Relies(t, b)'
  <2>1. Sound(b) /\ GetTeaBar(b)' = bar /\ Exists(b)'
    BY <1>5, <1>6, Numbers DEF IInv, Exists
  <2>2. \A u \in Users : OnIn(bar, u, Going(u, b)) = On(u, b) /\ DueIn(bar, u, Going(u, b)) = Due(u, b)
    BY DEF OnIn, On, DueIn, Due
  <2>3. \A u \in Users : Going(u, b)' = Going(u, b)
    <3>1. updates' = updates /\ drops' = drops
      BY <1>5
    <3> QED BY <3>1 DEF Going
  <2>4. \A u \in Users : On(u, b)' = On(u, b)
    BY <2>1, <2>3 DEF On
  <2>5. ASSUME NEW t \in Sessions(b)' PROVE Relies(t, b)'
    <3>1. t \in Sessions(b) /\ t \in Asked /\ Relies(t, b)
      BY <1>1, <1>5, <1>6, <2>1, <2>5, SessionsAsked DEF Sound, Shape
    <3> QED BY <3>1, <2>1, <2>3, <2>4, ReliesKept
  <2> QED BY <2>1, <2>2, <2>5 DEF Sound
<1>7. \A c \in Tbids, u \in Users : Leads(Due(u, c), Nothing[u], u, c, Due(u, c))
  BY NothingLeads, DueStanding
<1>8. asked[i].tbids \subseteq Tbids
  BY <1>1, ShapeBars DEF Turn, Shape, AskedOK, SlotOK
<1>9. Ends(i, kind, {b}, Only(b, bar), Nothing)
  BY <1>2, <1>3 DEF Ends
<1> QED
  BY <1>4, <1>6, <1>7, <1>8, <1>9, WroteAll

(* The answer to an application keeps IInv: it changes neither members nor *)
(* briefs.                                                                 *)
LEMMA ApplyStep ==
  ASSUME IInv, NEW i \in Slots, ApplyGot(i)
  PROVE  IInv'
<1> DEFINE u == asked[i].by  b == Bar1(asked[i])  bar == GetTeaBar(b)
           new == [bar EXCEPT !.applied = @ \cup {u}]
<1>1. Turn(i, "apply") /\ Rest /\ UNCHANGED updates
  BY DEF ApplyGot
<1>2. asked[i] # None /\ asked[i].kind = "apply" /\ SlotOK(asked[i], Given) /\ Given \subseteq Tbids
      /\ BarsOK
  BY <1>1, ShapeBars DEF Turn, Shape, AskedOK
<1>3. u \in Users /\ b \in Tbids
  BY <1>2, Bar1In DEF SlotOK, Asked
<1>4. CASE NoWrite
  BY <1>1, <1>4, GotNothing
<1>5. CASE Exists(b) /\ ~Member(u, b) /\ cached' = [cached EXCEPT ![b] = new] /\ NotSaved
  <2>1. bar \in Bar
    BY <1>2, <1>3, <1>5, ThereIs
  <2>2. new \in Bar /\ new.master = bar.master /\ new.users = bar.users /\ new.applied = bar.applied \cup {u}
    BY <2>1, <1>3 DEF Bar
  <2>3. ~On(u, b)
    <3>1. bar.users[u] \in Nat /\ ~(bar.users[u] > 0)
      BY <2>1, <1>3, <1>5 DEF Bar, Member
    <3> QED BY <3>1 DEF On
  <2>4. \A v \in Users : v \in new.applied => v \in bar.applied \/ ~On(v, b)
    BY <2>2, <2>3
  <2> HIDE DEF new, b
  <2> QED BY <1>1, <1>3, <1>5, <2>2, <2>4, WroteApplied
<1> QED
  BY <1>4, <1>5 DEF ApplyGot

(* A new member of the bar.                                                *)
LEMMA Joined ==
  ASSUME NEW b \in Tbids, Sound(b), Exists(b), NEW bar \in Bar, NEW u \in Users, ~On(u, b),
         bar.master = GetTeaBar(b).master,
         \A v \in Users : bar.users[v] = IF v = u THEN GetTeaBar(b).users[u] + 1 ELSE GetTeaBar(b).users[v],
         GetTeaBar(b) \in Bar
  PROVE  /\ \A v \in Users :
              /\ LET d == IF Going(v, b) THEN 1 ELSE 0 IN bar.users[v] \in {d, d + 1}
              /\ v = bar.master => OnIn(bar, v, Going(v, b))
              /\ v # u => OnIn(bar, v, Going(v, b)) = On(v, b) /\ DueIn(bar, v, Going(v, b)) = Due(v, b)
         /\ u # bar.master /\ Due(u, b) = "none" /\ DueIn(bar, u, Going(u, b)) = "zero"
         /\ OnIn(bar, u, Going(u, b))
<1>1. u # bar.master
  BY DEF Sound
<1>2. /\ GetTeaBar(b).users[u] \in Nat
      /\ LET d == IF Going(u, b) THEN 1 ELSE 0 IN GetTeaBar(b).users[u] \in {d, d + 1}
  BY DEF Sound, Bar
<1>3. GetTeaBar(b).users[u] = IF Going(u, b) THEN 1 ELSE 0
  BY <1>2 DEF On
<1>4. bar.users[u] = IF Going(u, b) THEN 2 ELSE 1
  BY <1>3
<1>5. OnIn(bar, u, Going(u, b)) /\ DueIn(bar, u, Going(u, b)) = "zero" /\ Due(u, b) = "none"
  BY <1>1, <1>4 DEF OnIn, DueIn, Due
<1>6. ASSUME NEW v \in Users, v # u
      PROVE  /\ LET d == IF Going(v, b) THEN 1 ELSE 0 IN bar.users[v] \in {d, d + 1}
             /\ v = bar.master => OnIn(bar, v, Going(v, b))
             /\ OnIn(bar, v, Going(v, b)) = On(v, b) /\ DueIn(bar, v, Going(v, b)) = Due(v, b)
  <2>1. bar.users[v] = GetTeaBar(b).users[v]
    BY <1>6
  <2>2. OnIn(bar, v, Going(v, b)) = On(v, b) /\ DueIn(bar, v, Going(v, b)) = Due(v, b)
    BY <2>1 DEF OnIn, On, DueIn, Due
  <2> QED BY <2>1, <2>2 DEF Sound
<1>7. LET d == IF Going(u, b) THEN 1 ELSE 0 IN bar.users[u] \in {d, d + 1}
  BY <1>4
<1> QED
  BY <1>1, <1>5, <1>6, <1>7

(* The member is added, in memory at least.                                *)
LEMMA AgreeWrites ==
  ASSUME IInv, Rest, NEW b \in Tbids, Exists(b), NEW u \in Users,
         LET bar == GetTeaBar(b)
             answered == [cached EXCEPT ![b] = [bar EXCEPT !.applied = @ \ {u}]]
         IN  cached' = [answered EXCEPT ![b] = AddUser(@, u)] /\ stored' = [stored EXCEPT ![b] = AddUser(bar, u)],
         UNCHANGED << faults, spoilt >>
  PROVE  LET new == AddUser([GetTeaBar(b) EXCEPT !.applied = @ \ {u}], u)
         IN  WrittenTo({b}, Only(b, new)) /\ new \in Bar
<1> DEFINE bar == GetTeaBar(b)  less == [bar EXCEPT !.applied = @ \ {u}]  new == AddUser(less, u)
           kept == AddUser(bar, u)
<1>1. Shape /\ max_tbid' = max_tbid /\ requests' = requests /\ b \in Given /\ max_tbid \in Nat /\ bar \in Bar
  BY ShapeBars, ThereIs DEF Rest, Shape
<1>2. less \in Bar /\ less.users = bar.users /\ less.master = bar.master
  BY <1>1 DEF Bar
<1>3. new \in Bar /\ kept \in Bar /\ new.master = kept.master /\ new.users = kept.users
  <2>1. new \in Bar /\ kept \in Bar
    BY <1>1, <1>2, AddUserBar
  <2>2. new.master = kept.master /\ new.users = kept.users
    BY <1>1, <1>2 DEF AddUser, Bar
  <2> QED BY <2>1, <2>2
<1>4. cached' = [cached EXCEPT ![b] = new] /\ stored' = [stored EXCEPT ![b] = kept]
  <2>1. cached \in [Tbids -> Bar \cup {None}]
    BY <1>1 DEF Shape, BarsOK
  <2> HIDE DEF less
  <2>2. cached' = [[cached EXCEPT ![b] = less] EXCEPT ![b] = AddUser(@, u)]
    BY DEF less
  <2>3. [cached EXCEPT ![b] = less][b] = less
    BY <2>1
  <2>4. cached' = [[cached EXCEPT ![b] = less] EXCEPT ![b] = new]
    BY <2>2, <2>3
  <2>5. cached' = [cached EXCEPT ![b] = new]
    BY <2>1, <2>4
  <2> QED BY <2>5
<1> HIDE DEF new, kept, less
<1>5. /\ cached'[b] = new /\ stored'[b] = kept
      /\ \A c \in Tbids \ {b} : cached'[c] = cached[c] /\ stored'[c] = stored[c]
  BY <1>1, <1>4 DEF Shape, BarsOK
<1>6. BarsOK'
  <2>1. cached' \in [Tbids -> Bar \cup {None}] /\ stored' \in [Tbids -> Bar \cup {None}]
    BY <1>1, <1>3, <1>4 DEF Shape, BarsOK
  <2>2. \A c \in Tbids : c > max_tbid => c # b
    BY <1>1 DEF Given
  <2>3. \A c \in Tbids : c > max_tbid' => cached'[c] = None /\ stored'[c] = None
    BY <1>1, <1>5, <2>2 DEF Shape, BarsOK
  <2> QED BY <1>1, <2>1, <2>3 DEF Shape, BarsOK
<1>7. CountsOK' /\ spoilt' = spoilt
  BY <1>1 DEF Shape, CountsOK
<1>8. GetTeaBar(b)' = new /\ Kept(b)'
  BY <1>3, <1>5, Numbers DEF GetTeaBar, Kept
<1>9. Only(b, new)[b] = new
  BY DEF Only
<1>10. WrittenTo({b}, Only(b, new))
  BY <1>5, <1>6, <1>7, <1>8, <1>9 DEF WrittenTo
<1> QED
  BY <1>3, <1>10 DEF new, less

(* What Wrote says of a bar that is written.                               *)
LEMMA WroteOne ==
  ASSUME IInv, NEW i \in Slots, NEW kind, kind # "drop", NEW bs, NEW bar, NEW ops,
         Ends(i, kind, bs, bar, ops), NEW b \in bs, b \notin spoilt', bar[b] # None
  PROVE  /\ Sound(b) /\ GetTeaBar(b)' = bar[b] /\ Exists(b)'
         /\ \A v \in Users : /\ Going(v, b)' = Going(v, b)
                             /\ On(v, b)' = OnIn(bar[b], v, Going(v, b))
                             /\ Due(v, b)' = DueIn(bar[b], v, Going(v, b))
         /\ \A t \in Sessions(b)' :
              /\ t \in Sessions(b) /\ t \in Asked /\ (Exists(b) => Relies(t, b))
              /\ b \in asked[i].tbids => {kind, t.kind} \notin Conflicts
<1>1. b \in Tbids /\ Shape
  BY ShapeBars DEF Ends
<1>2. GetTeaBar(b)' = bar[b] /\ spoilt \subseteq spoilt' /\ drops' = drops
  BY Wrote
<1>3. Sent(asked[i], ops) /\ asked[i].kind = kind
  BY Wrote
<1>4. \A t \in Sessions(b)' : t \in Sessions(b) /\ (b \in asked[i].tbids => {kind, t.kind} \notin Conflicts)
  BY <1>1, Wrote
<1>5. Sound(b)
  BY <1>1, <1>2 DEF IInv
<1>6. \A t \in Sessions(b)' : t \in Asked /\ (Exists(b) => Relies(t, b))
  BY <1>1, <1>4, <1>5, SessionsAsked DEF Sound, Shape
<1>7. \A v \in Users : Going(v, b)' = Going(v, b)
  BY <1>1, <1>2, <1>3, SentGoing DEF Shape
<1>8. Exists(b)'
  BY <1>2 DEF Exists
<1>9. \A v \in Users : On(v, b)' = OnIn(bar[b], v, Going(v, b)) /\ Due(v, b)' = DueIn(bar[b], v, Going(v, b))
  BY <1>2, <1>7, <1>8 DEF On, OnIn, Due, DueIn
<1> QED
  BY <1>2, <1>4, <1>5, <1>6, <1>7, <1>8, <1>9

(* The answer to an agreement keeps IInv: a user taken in gets one count   *)
(* and one brief; the session saw that he had no brief, and everything     *)
(* that could have brought one since conflicts with it.                    *)
LEMMA AgreeStep ==
  ASSUME IInv, NEW i \in Slots, AgreeGot(i)
  PROVE  IInv'
<1>0. PICK u, b, bar : u = asked[i].who /\ b = Bar1(asked[i]) /\ bar = GetTeaBar(b)
  OBVIOUS
<1> DEFINE seen == asked[i].seen[u]
           less == [bar EXCEPT !.applied = @ \ {u}]
           answered == [cached EXCEPT ![b] = less]
           ops == For(u, << Add(b, bar.master, 0) >>)
<1>1. (Turn(i, "agree") \/ Turn(i, "refuse")) /\ Rest
  BY DEF AgreeGot
<1>2. asked[i] # None /\ asked[i].kind \in {"agree", "refuse"} /\ Turn(i, asked[i].kind)
  BY <1>1 DEF Turn
<1>3. SlotOK(asked[i], Given) /\ Given \subseteq Tbids /\ Shape
  BY <1>2, ShapeBars DEF Shape, AskedOK
<1>4. u \in Users /\ b \in asked[i].tbids /\ b \in Tbids /\ asked[i] \in Asked
  BY <1>0, <1>2, <1>3, Bar1In DEF SlotOK, Asked
<1>5. CASE UNCHANGED updates /\ NoWrite
  BY <1>1, <1>2, <1>5, GotNothing
<1>6. CASE /\ Exists(b) /\ u \in bar.applied
           /\ cached' = answered /\ NotSaved /\ UNCHANGED updates
  <2>1. bar \in Bar
    BY <1>0, <1>3, <1>4, <1>6, ThereIs DEF Shape
  <2>2. less \in Bar /\ less.master = bar.master /\ less.users = bar.users /\ less.applied = bar.applied \ {u}
    BY <2>1 DEF Bar
  <2>3. \A v \in Users : v \in less.applied => v \in bar.applied \/ ~On(v, b)
    BY <2>2
  <2> HIDE DEF less
  <2> QED BY <1>0, <1>1, <1>2, <1>4, <1>6, <2>2, <2>3, WroteApplied
<1>7. CASE /\ Exists(b) /\ u \in bar.applied /\ ~Has(seen, b) /\ asked[i].kind = "agree"
           /\ cached' = [answered EXCEPT ![b] = AddUser(@, u)]
           /\ stored' = [stored EXCEPT ![b] = AddUser(bar, u)]
           /\ Save(asked[i], ops)
           /\ UNCHANGED << faults, spoilt >>
  <2> DEFINE new == AddUser(less, u)  bs == {b}  only == Only(b, new)
  <2>1. WrittenTo(bs, only) /\ new \in Bar
    BY <1>0, <1>1, <1>4, <1>7, AgreeWrites
  <2>2. bar \in Bar
    BY <1>0, <1>3, <1>4, <1>7, ThereIs DEF Shape
  <2>3. /\ less \in Bar /\ less.master = bar.master /\ less.users = bar.users
        /\ less.applied = bar.applied \ {u}
    BY <2>2 DEF Bar
  <2> HIDE DEF less
  <2>4. /\ new.master = bar.master /\ new.applied = bar.applied \ {u}
        /\ \A v \in Users : new.users[v] = IF v = u THEN bar.users[u] + 1 ELSE bar.users[v]
    BY <1>4, <2>3, AddUserBar
  <2>5. bar.master \in Users
    BY <2>2 DEF Bar
  <2>6. OpsOK(ops, "agree", asked[i].tbids)
    <3>1. asked[i].tbids \in SUBSET Tbids
      BY <1>3 DEF SlotOK
    <3> QED BY <1>4, <2>5, <3>1, AddOK, ForOne
  <2> HIDE DEF new
  <2>7. Ends(i, "agree", bs, only, ops)
    BY <1>1, <1>2, <1>4, <1>7, <2>1, <2>6 DEF Ends
  <2>8. bs = {b} /\ only[b] = new
    BY DEF Only
  <2>9. ops[u] = << Add(b, bar.master, 0) >> /\ \A v \in Users \ {u} : ops[v] = Nothing[v]
    BY <1>4 DEF For, Nothing
  <2> HIDE DEF bs, only, ops
  <2>10. ASSUME b \notin spoilt'
         PROVE  /\ new \in Bar
                /\ \A v \in Users :
                     /\ LET d == IF Going(v, b) THEN 1 ELSE 0 IN new.users[v] \in {d, d + 1}
                     /\ v = new.master => OnIn(new, v, Going(v, b))
                     /\ Leads(Due(v, b), ops[v], v, b, DueIn(new, v, Going(v, b)))
                /\ \A t \in Sessions(b)' : Relies(t, b)'
    <3>1. /\ Sound(b) /\ GetTeaBar(b)' = new
          /\ \A v \in Users : Going(v, b)' = Going(v, b) /\ On(v, b)' = OnIn(new, v, Going(v, b))
          /\ \A t \in Sessions(b)' :
               t \in Asked /\ Relies(t, b) /\ {"agree", t.kind} \notin Conflicts
      <4>1. b \in bs /\ only[b] # None
        BY <2>1, <2>8, Numbers
      <4>2. "agree" # "drop" /\ b \in asked[i].tbids /\ Exists(b)
        BY <1>4, <1>7
      <4>3. /\ Sound(b) /\ GetTeaBar(b)' = only[b] /\ Exists(b)'
            /\ \A v \in Users : /\ Going(v, b)' = Going(v, b)
                                /\ On(v, b)' = OnIn(only[b], v, Going(v, b))
                                /\ Due(v, b)' = DueIn(only[b], v, Going(v, b))
            /\ \A t \in Sessions(b)' :
                 /\ t \in Sessions(b) /\ t \in Asked /\ (Exists(b) => Relies(t, b))
                 /\ b \in asked[i].tbids => {"agree", t.kind} \notin Conflicts
        <5> HIDE DEF answered, seen
        <5> QED BY <2>7, <2>10, <4>1, WroteOne
      <4> QED BY <2>8, <4>2, <4>3
    <3>2. ~On(u, b)
      <4>1. asked[i] \in Sessions(b)
        BY <1>2, <1>4, SlotSession
      <4>2. Relies(asked[i], b)
        BY <1>0, <3>1, <1>7, <4>1 DEF Sound
      <4> QED BY <4>2, <1>0, <1>7 DEF Relies
    <3>3. /\ \A v \in Users :
               /\ LET d == IF Going(v, b) THEN 1 ELSE 0 IN new.users[v] \in {d, d + 1}
               /\ v = new.master => OnIn(new, v, Going(v, b))
               /\ v # u => /\ OnIn(new, v, Going(v, b)) = On(v, b)
                           /\ DueIn(new, v, Going(v, b)) = Due(v, b)
          /\ u # new.master /\ Due(u, b) = "none" /\ DueIn(new, u, Going(u, b)) = "zero"
          /\ OnIn(new, u, Going(u, b))
      BY <1>0, <1>4, <1>7, <2>1, <2>2, <2>4, <3>1, <3>2, Joined
    <3>4. ASSUME NEW v \in Users PROVE Leads(Due(v, b), ops[v], v, b, DueIn(new, v, Going(v, b)))
      <4>1. CASE v = u
        <5> DEFINE op == Add(b, bar.master, 0)
        <5>1. Allowed("none", op, u, b) /\ Turned("none", op, u, b) = "zero"
          BY <2>4, <3>3 DEF Allowed, Turned, Add
        <5>2. "none" \in Standing
          BY DEF Standing
        <5> HIDE DEF op
        <5>3. Leads("none", << op >>, u, b, "zero")
          BY <5>1, <5>2, LeadsOne
        <5> QED BY <5>3, <4>1, <2>9, <3>3 DEF op
      <4>2. CASE v # u
        BY <4>2, <2>9, <3>3, NothingLeads, DueStanding
      <4> QED BY <4>1, <4>2
    <3>5. ASSUME NEW t \in Sessions(b)' PROVE Relies(t, b)'
      <4>1. t.kind \notin {"remove", "transfer"} /\ t \in Asked /\ Relies(t, b)
        BY <3>1, <3>5, Clashes
      <4>2. \A v \in Users : (On(v, b) => On(v, b)') /\ (Going(v, b)' => Going(v, b))
        BY <3>1, <3>2, <3>3
      <4>3. \A v \in Users : v \in GetTeaBar(b)'.applied /\ On(v, b)' => v \in bar.applied /\ On(v, b)
        <5>1. \A v \in Users \ {u} : On(v, b)' = On(v, b)
          BY <3>1, <3>3
        <5> QED BY <1>0, <3>1, <2>4, <5>1
      <4>4. GetTeaBar(b)'.master = bar.master
        BY <3>1, <2>4
      <4> QED BY <1>0, <4>1, <4>2, <4>3, <4>4, ReliesMore
    <3> QED BY <2>1, <3>3, <3>4, <3>5
  <2>11. ASSUME NEW c \in asked[i].tbids \ bs, c \notin spoilt, NEW v \in Users
         PROVE  Leads(Due(v, c), ops[v], v, c, Due(v, c))
    <3>1. CASE v = u
      <4>1. SeqLen(ops[v])
        BY <3>1, <2>9 DEF SeqLen
      <4>2. \A k \in DOMAIN ops[v] : Aside(ops[v][k], c)
        BY <3>1, <2>8, <2>9, <2>11 DEF Aside, Add
      <4> QED BY <4>1, <4>2, LeadsStay, DueStanding
    <3>2. CASE v # u
      BY <3>2, <2>9, NothingLeads, DueStanding
    <3> QED BY <3>1, <3>2
  <2>12. \A c \in bs : c = b
    BY <2>8
  <2> QED BY <2>7, <2>8, <2>10, <2>11, <2>12, WroteAll
<1>8. CASE /\ Exists(b)
           /\ faults < MaxFaults /\ faults' = faults + 1 /\ spoilt' = spoilt \cup {b}
           /\ cached' = [cached EXCEPT ![b] = AddUser(bar, u)]
           /\ UNCHANGED << stored, updates >>
  <2> DEFINE new == AddUser(bar, u)  bs == {b}  only == Only(b, new)
  <2>1. bar \in Bar /\ b \in Given
    BY <1>0, <1>3, <1>4, <1>8, ThereIs DEF Shape
  <2>2. new \in Bar
    BY <1>4, <2>1, AddUserBar
  <2> HIDE DEF new
  <2>3. /\ cached' = [cached EXCEPT ![b] = new] /\ stored' = stored
        /\ max_tbid' = max_tbid /\ requests' = requests /\ max_tbid \in Nat
    BY <1>1, <1>8, ShapeBars DEF Rest, new
  <2>4. BarsOK'
    <3>1. cached' \in [Tbids -> Bar \cup {None}]
      BY <1>3, <2>2, <2>3 DEF Shape, BarsOK
    <3>2. \A c \in Tbids : c > max_tbid => c # b
      BY <2>1, <2>3 DEF Given
    <3>3. \A c \in Tbids : c > max_tbid' => cached'[c] = None /\ stored'[c] = None
      BY <1>3, <2>3, <3>2 DEF Shape, BarsOK
    <3> QED BY <1>3, <2>3, <3>1, <3>3 DEF Shape, BarsOK
  <2>5. CountsOK' /\ spoilt' = spoilt \cup {b}
    BY <1>3, <1>4, <1>8, <2>3, TeaBarAssumption DEF Shape, CountsOK
  <2>6. \A c \in Tbids \ {b} : cached'[c] = cached[c] /\ stored'[c] = stored[c]
    BY <1>3, <2>3 DEF Shape, BarsOK
  <2>7. WrittenTo(bs, only)
    BY <2>4, <2>5, <2>6 DEF WrittenTo
  <2>8. Save(asked[i], Nothing) /\ OpsOK(Nothing, asked[i].kind, asked[i].tbids)
    BY <1>3, <1>8, SaveNothing DEF Shape
  <2>9. \A c \in bs : c \in spoilt'
    BY <2>5
  <2>10. bs \subseteq Tbids
    BY <1>4
  <2> HIDE DEF bs, only
  <2>11. Ends(i, asked[i].kind, bs, only, Nothing)
    BY <1>1, <1>2, <2>7, <2>8, <2>10 DEF Ends
  <2>12. \A c \in Tbids, v \in Users : Leads(Due(v, c), Nothing[v], v, c, Due(v, c))
    BY NothingLeads, DueStanding
  <2>13. asked[i].tbids \subseteq Tbids /\ asked[i].kind # "drop"
    BY <1>2, <1>3 DEF SlotOK
  <2> QED BY <2>9, <2>11, <2>12, <2>13, WroteAll
<1> QED
  <2> QED BY <1>0, <1>5, <1>6, <1>7, <1>8, <1>2 DEF AgreeGot

(* The answer to a list keeps IInv.                                        *)
LEMMA ListStep ==
  ASSUME IInv, NEW i \in Slots, ListGot(i)
  PROVE  IInv'
<1>0. PICK u : u = asked[i].by
  OBVIOUS
<1>1. PICK bs : bs = { b \in asked[i].tbids : Exists(b) /\ ~Member(u, b) }
  OBVIOUS
<1>2. PICK bar : bar = [ b \in bs |-> AddUser(GetTeaBar(b), u) ]
  OBVIOUS
<1>3. Turn(i, "list") /\ Rest /\ UNCHANGED updates /\ Saved(bs, bar)
  BY <1>0, <1>1, <1>2 DEF ListGot
<1>4. asked[i] # None /\ asked[i].kind = "list" /\ SlotOK(asked[i], Given) /\ Given \subseteq Tbids /\ Shape
  BY <1>3, ShapeBars DEF Turn, Shape, AskedOK
<1>5. u \in Users /\ asked[i].tbids \subseteq Tbids
  BY <1>0, <1>4 DEF SlotOK, Asked
<1>6. \A b \in bs : b \in Tbids /\ b \in asked[i].tbids /\ Exists(b) /\ ~Member(u, b)
  BY <1>1, <1>5
<1>7. \A b \in bs : bar[b] \in Bar
  <2> SUFFICES ASSUME NEW b \in bs PROVE bar[b] \in Bar
    OBVIOUS
  <2>1. GetTeaBar(b) \in Bar
    BY <1>4, <1>6, ThereIs DEF Shape
  <2> QED BY <2>1, <1>2, <1>5, AddUserBar
<1>8. WrittenTo(bs, bar)
  <2>1. \A b \in bs : Exists(b) /\ bar[b] \in Bar \cup {None}
    BY <1>6, <1>7
  <2>2. bs \in SUBSET Tbids
    BY <1>6
  <2> QED BY <1>3, <2>1, <2>2, SavedWrites
<1>9. Save(asked[i], Nothing) /\ OpsOK(Nothing, "list", asked[i].tbids)
  BY <1>3, <1>4, SaveNothing DEF Shape
<1>10. Ends(i, "list", bs, bar, Nothing)
  <2>1. bs \subseteq Tbids
    BY <1>6
  <2> QED BY <1>3, <1>8, <1>9, <2>1 DEF Ends
(* Who has a brief of a bar of which nothing was spoilt is in it.          *)
<1>11. ASSUME NEW b \in bs, b \notin spoilt PROVE FALSE
  <2>1. Sound(b) /\ asked[i] \in Sessions(b)
    BY <1>4, <1>6, <1>11, SlotSession DEF IInv
  <2>2. On(u, b)
    BY <1>0, <1>4, <1>6, <2>1 DEF Sound, Relies
  <2>3. GetTeaBar(b).users[u] \in Nat
    BY <1>4, <1>5, <1>6, ThereIs DEF Shape, Bar
  <2> QED BY <2>2, <2>3, <1>6 DEF On, Member
<1>12. \A b \in bs : b \in spoilt'
  <2>1. spoilt \subseteq spoilt'
    BY <1>8 DEF WrittenTo
  <2> QED BY <2>1, <1>11
<1>13. \A b \in Tbids, v \in Users : Leads(Due(v, b), Nothing[v], v, b, Due(v, b))
  BY NothingLeads, DueStanding
<1> QED
  BY <1>5, <1>10, <1>12, <1>13, WroteAll

(* A field that deletes the brief.                                         *)
LEMMA DelLeads ==
  ASSUME NEW x \in Standing, NEW c, NEW b, NEW u
  PROVE  Leads(x, << Del(c) >>, u, b, IF c = b THEN "none" ELSE x)
<1>1. Allowed(x, Del(c), u, b) /\ Turned(x, Del(c), u, b) = IF c = b THEN "none" ELSE x
  BY DEF Allowed, Turned, Del
<1> QED BY <1>1, LeadsOne

(* The answer to a removal keeps IInv: count and brief of the removed user *)
(* go together, as nothing that could have changed either ran since his    *)
(* briefs were read.                                                       *)
LEMMA RemoveStep ==
  ASSUME IInv, NEW i \in Slots, RemoveGot(i)
  PROVE  IInv'
<1>0. PICK u, b, bar : u = asked[i].who /\ b = Bar1(asked[i]) /\ bar = GetTeaBar(b)
  OBVIOUS
<1>1. PICK ops : ops = For(u, IF Has(asked[i].seen[u], b) THEN << Del(b) >> ELSE << >>)
  OBVIOUS
<1>2. Turn(i, "remove") /\ Rest
  BY DEF RemoveGot
<1>3. asked[i] # None /\ asked[i].kind = "remove" /\ SlotOK(asked[i], Given) /\ Given \subseteq Tbids /\ Shape
  BY <1>2, ShapeBars DEF Turn, Shape, AskedOK
<1>4. u \in Users /\ b \in asked[i].tbids /\ b \in Tbids /\ asked[i].tbids \in SUBSET Tbids
  BY <1>0, <1>3, Bar1In DEF SlotOK, Asked
<1>5. CASE UNCHANGED updates /\ NoWrite
  BY <1>2, <1>5, GotNothing
<1>6. OpsOK(ops, "remove", asked[i].tbids)
  <2>1. OpOK(Del(b), "remove", asked[i].tbids)
    BY <1>4, DelOK
  <2> QED BY <1>1, <1>4, <2>1, ForOne, ForNone
<1>7. /\ \A v \in Users \ {u} : ops[v] = Nothing[v]
      /\ ops[u] = IF Has(asked[i].seen[u], b) THEN << Del(b) >> ELSE << >>
  BY <1>1, <1>4 DEF For, Nothing
<1>8. ASSUME NEW v \in Users, NEW c \in Tbids, c # b PROVE Leads(Due(v, c), ops[v], v, c, Due(v, c))
  <2>1. CASE v = u /\ Has(asked[i].seen[u], b)
    <3>1. ops[v] = << Del(b) >>
      BY <2>1, <1>7
    <3> QED BY <3>1, <1>8, DelLeads, DueStanding
  <2>2. CASE ~(v = u /\ Has(asked[i].seen[u], b))
    <3>1. ops[v] = Nothing[v]
      BY <2>2, <1>7 DEF Nothing
    <3> QED BY <3>1, NothingLeads, DueStanding
  <2> QED BY <2>1, <2>2
<1>9. ASSUME b \notin spoilt, Exists(b)
      PROVE  /\ Sound(b) /\ u # bar.master /\ ~Going(u, b)
             /\ Has(asked[i].seen[u], b) \/ ~On(u, b)
             /\ bar.users[u] \in {0, 1} /\ (On(u, b) <=> Member(u, b))
  <2>1. Sound(b) /\ asked[i] \in Sessions(b)
    BY <1>3, <1>4, <1>9, SlotSession DEF IInv
  <2>2. u # bar.master /\ ~Going(u, b) /\ (Has(asked[i].seen[u], b) \/ ~On(u, b))
    BY <1>0, <1>3, <1>9, <2>1 DEF Sound, Relies
  <2>3. bar.users[u] \in {0, 1}
    BY <1>0, <1>4, <1>9, <2>1, <2>2 DEF Sound
  <2>4. On(u, b) <=> Member(u, b)
    BY <1>0, <1>9, <2>2 DEF On, Member
  <2> QED BY <2>1, <2>2, <2>3, <2>4
<1>10. CASE Exists(b) /\ ~Member(u, b) /\ NoWrite /\ Save(asked[i], ops)
  <2>1. ASSUME NEW c \in asked[i].tbids \ spoilt, NEW v \in Users
        PROVE  Leads(Due(v, c), ops[v], v, c, Due(v, c))
    <3>1. CASE c # b
      BY <3>1, <1>4, <1>8
    <3>2. CASE c = b /\ v = u /\ Has(asked[i].seen[u], b)
      <4>1. Due(u, b) = "none"
        BY <3>2, <1>9, <1>10, <2>1 DEF Due
      <4>2. "none" \in Standing /\ ops[u] = << Del(b) >>
        BY <3>2, <1>7 DEF Standing
      <4> QED BY <3>2, <4>1, <4>2, DelLeads
    <3>3. CASE c = b /\ ~(v = u /\ Has(asked[i].seen[u], b))
      <4>1. ops[v] = Nothing[v]
        BY <3>3, <1>7 DEF Nothing
      <4> QED BY <4>1, NothingLeads, DueStanding
    <3> QED BY <3>1, <3>2, <3>3
  <2>2. "remove" # "drop"
    OBVIOUS
  <2> QED BY <1>2, <1>6, <1>10, <2>1, <2>2, GotSent
<1>11. CASE /\ Exists(b) /\ Member(u, b) /\ Save(asked[i], ops)
            /\ Saved({b}, Only(b, DeleteUser(bar, u)))
  <2> DEFINE new == DeleteUser(bar, u)  bs == {b}  only == Only(b, new)
  <2>1. bar \in Bar
    BY <1>0, <1>3, <1>4, <1>11, ThereIs DEF Shape
  <2>2. /\ new \in Bar /\ new.master = bar.master /\ new.applied = bar.applied
        /\ \A v \in Users :
             new.users[v] = IF v = u THEN (IF bar.users[u] = 0 THEN 0 ELSE bar.users[u] - 1) ELSE bar.users[v]
    BY <1>4, <2>1, DeleteUserBar
  <2>3. Saved(bs, only)
    BY <1>11
  <2> HIDE DEF new
  <2>4. bs = {b} /\ only[b] = new
    BY DEF Only
  <2> HIDE DEF bs, only
  <2>5. WrittenTo(bs, only)
    <3>1. \A c \in bs : Exists(c) /\ only[c] \in Bar \cup {None}
      BY <1>11, <2>2, <2>4
    <3>2. bs \in SUBSET Tbids
      BY <1>4, <2>4
    <3> QED BY <1>2, <2>3, <3>1, <3>2, SavedWrites
  <2>6. Ends(i, "remove", bs, only, ops)
    BY <1>2, <1>4, <1>6, <1>11, <2>4, <2>5 DEF Ends
  <2>7. ASSUME b \notin spoilt'
        PROVE  /\ new \in Bar
               /\ \A v \in Users :
                    /\ LET d == IF Going(v, b) THEN 1 ELSE 0 IN new.users[v] \in {d, d + 1}
                    /\ v = new.master => OnIn(new, v, Going(v, b))
                    /\ Leads(Due(v, b), ops[v], v, b, DueIn(new, v, Going(v, b)))
               /\ \A t \in Sessions(b)' : Relies(t, b)'
    <3>1. /\ Sound(b) /\ GetTeaBar(b)' = only[b] /\ Exists(b)'
          /\ \A v \in Users : /\ Going(v, b)' = Going(v, b)
                              /\ On(v, b)' = OnIn(only[b], v, Going(v, b))
                              /\ Due(v, b)' = DueIn(only[b], v, Going(v, b))
          /\ \A t \in Sessions(b)' :
               /\ t \in Sessions(b) /\ t \in Asked /\ (Exists(b) => Relies(t, b))
               /\ b \in asked[i].tbids => {"remove", t.kind} \notin Conflicts
      <4>1. b \in bs /\ only[b] # None
        BY <2>2, <2>4, Numbers
      <4> QED BY <2>6, <2>7, <4>1, WroteOne
    <3>2. b \notin spoilt
      BY <2>5, <2>7 DEF WrittenTo
    <3>3. /\ u # bar.master /\ ~Going(u, b) /\ Has(asked[i].seen[u], b) /\ bar.users[u] = 1 /\ On(u, b)
      BY <3>2, <1>9, <1>11, <1>0 DEF Member
    <3>4. new.users[u] = 0 /\ ~OnIn(new, u, Going(u, b)) /\ DueIn(new, u, Going(u, b)) = "none"
      BY <3>3, <2>2, <1>4 DEF OnIn, DueIn
    <3>5. ASSUME NEW v \in Users, v # u
          PROVE  OnIn(new, v, Going(v, b)) = On(v, b) /\ DueIn(new, v, Going(v, b)) = Due(v, b)
      <4>1. new.users[v] = bar.users[v]
        BY <3>5, <2>2
      <4> QED BY <4>1, <2>2, <1>0, <1>11 DEF OnIn, On, DueIn, Due
    <3>6. ASSUME NEW v \in Users
          PROVE  /\ LET d == IF Going(v, b) THEN 1 ELSE 0 IN new.users[v] \in {d, d + 1}
                 /\ v = new.master => OnIn(new, v, Going(v, b))
                 /\ Leads(Due(v, b), ops[v], v, b, DueIn(new, v, Going(v, b)))
      <4>1. CASE v = u
        <5>1. Leads(Due(u, b), << Del(b) >>, u, b, "none")
          BY DelLeads, DueStanding
        <5>2. ops[u] = << Del(b) >>
          BY <3>3, <1>7
        <5>3. LET d == IF Going(u, b) THEN 1 ELSE 0 IN new.users[u] \in {d, d + 1}
          BY <3>3, <3>4
        <5> QED BY <4>1, <5>1, <5>2, <5>3, <3>3, <3>4, <2>2
      <4>2. CASE v # u
        <5>1. LET d == IF Going(v, b) THEN 1 ELSE 0 IN new.users[v] \in {d, d + 1}
          BY <4>2, <2>2, <3>1, <1>0, <1>11 DEF Sound
        <5>2. v = new.master => OnIn(new, v, Going(v, b))
          BY <4>2, <2>2, <3>1, <3>5, <1>0, <1>11 DEF Sound
        <5>3. Leads(Due(v, b), ops[v], v, b, Due(v, b))
          BY <4>2, <1>7, NothingLeads, DueStanding
        <5> QED BY <4>2, <5>1, <5>2, <5>3, <3>5
      <4> QED BY <4>1, <4>2
    <3>7. ASSUME NEW t \in Sessions(b)' PROVE Relies(t, b)'
      <4>1. t \in Asked /\ Relies(t, b) /\ {"remove", t.kind} \notin Conflicts
        BY <3>1, <3>7, <1>4, <1>11
      <4>2. t.kind \notin {"agree", "drop", "list", "transfer"}
        BY <4>1, Clashes
      <4>3. GetTeaBar(b)'.master = GetTeaBar(b).master
        BY <3>1, <2>2, <2>4, <1>0
      <4>4. CASE t.kind # "remove"
        BY <4>1, <4>2, <4>3, <4>4, ReliesFew
      <4>5. CASE t.kind = "remove"
        <5>1. t.who \in Users
          BY <4>1 DEF Asked
        <5>2. t.who # GetTeaBar(b)'.master /\ ~Going(t.who, b)'
          BY <4>1, <4>3, <4>5, <5>1, <3>1 DEF Relies
        <5>3. \A v \in Users : On(v, b)' => On(v, b)
          BY <2>4, <3>1, <3>4, <3>5
        <5>4. Has(t.seen[t.who], b) \/ ~On(t.who, b)'
          BY <4>1, <4>5, <5>1, <5>3 DEF Relies
        <5> QED BY <4>5, <5>2, <5>4 DEF Relies
      <4> QED BY <4>4, <4>5
    <3> QED BY <2>2, <3>6, <3>7
  <2>8. \A c \in asked[i].tbids \ bs : \A v \in Users : Leads(Due(v, c), ops[v], v, c, Due(v, c))
    BY <1>4, <1>8, <2>4
  <2>9. \A c \in bs : c = b
    BY <2>4
  <2> QED BY <2>4, <2>6, <2>7, <2>8, <2>9, WroteAll
<1>12. CASE Exists(b) /\ Member(u, b)
  <2>1. Saved({b}, Only(b, DeleteUser(bar, u)))
    BY <1>0, <1>12 DEF RemoveGot
  <2>2. Save(asked[i], ops)
    BY <1>0, <1>1, <1>12 DEF RemoveGot
  <2> QED BY <1>11, <1>12, <2>1, <2>2
<1>13. CASE Exists(b) /\ ~Member(u, b)
  <2>1. NoWrite
    BY <1>0, <1>13 DEF RemoveGot
  <2>2. Save(asked[i], ops)
    BY <1>0, <1>1, <1>13 DEF RemoveGot
  <2> QED BY <1>10, <1>13, <2>1, <2>2
<1>14. CASE ~Exists(b)
  BY <1>0, <1>5, <1>14 DEF RemoveGot
<1> QED
  BY <1>12, <1>13, <1>14

(* The brief of a bar that is freed is deleted as often as needed.         *)
LEMMA DelsLead ==
  ASSUME NEW n \in Nat, NEW b, NEW u, NEW x \in Standing, n > 0 \/ x = "none"
  PROVE  Leads(x, [k \in 1 .. n |-> Del(b)], u, b, "none")
<1> DEFINE g == [k \in 0 .. n |-> IF k = 0 THEN x ELSE "none"]  ops == [k \in 1 .. n |-> Del(b)]
<1>1. "none" \in Standing
  BY DEF Standing
<1>2. g \in [0 .. n -> Standing] /\ g[0] = x /\ g[n] = "none"
  BY <1>1
<1>3. Len(ops) = n
  <2>1. ops \in [1 .. n -> {Del(b)}]
    OBVIOUS
  <2>2. ops \in Seq({Del(b)})
    BY <2>1 DEF Seq
  <2>3. DOMAIN ops = 1 .. Len(ops) /\ Len(ops) \in Nat
    BY <2>2, LenProperties
  <2> QED BY <2>1, <2>3
<1>4. ASSUME NEW k \in 1 .. n
      PROVE  Allowed(g[k - 1], ops[k], u, b) /\ g[k] = Turned(g[k - 1], ops[k], u, b)
  <2>1. g[k] = "none" /\ ops[k] = Del(b)
    OBVIOUS
  <2> HIDE DEF g, ops
  <2>2. Allowed(g[k - 1], Del(b), u, b) /\ Turned(g[k - 1], Del(b), u, b) = "none"
    BY DEF Allowed, Turned, Del
  <2> QED BY <2>1, <2>2
<1> HIDE DEF g, ops
<1>5. Leads(x, ops, u, b, "none")
  BY <1>2, <1>3, <1>4 DEF Leads
<1> QED
  BY <1>5 DEF ops

(* The purse leads nowhere at any bar.                                     *)
LEMMA PurseLeads ==
  ASSUME NEW n, NEW b, NEW u, NEW x \in Standing
  PROVE  Leads(x, << Purse(n) >>, u, b, x)
<1>1. Allowed(x, Purse(n), u, b) /\ Turned(x, Purse(n), u, b) = x
  BY DEF Allowed, Turned, Purse
<1> QED BY <1>1, LeadsOne

(* The answer to a dissolution keeps IInv: every member's brief of the bar *)
(* goes with it.                                                           *)
LEMMA FreeStep ==
  ASSUME IInv, NEW i \in Slots, FreeGot(i)
  PROVE  IInv'
<1>0. PICK u, b, bar : u = asked[i].by /\ b = Bar1(asked[i]) /\ bar = GetTeaBar(b)
  OBVIOUS
<1>1. PICK brief : brief = asked[i].seen[u][At(asked[i].seen[u], b)]
  OBVIOUS
<1> DEFINE purse(x) == IF x = u /\ brief.chips > 0 THEN << Purse(brief.chips) >> ELSE << >>
           dels(x)  == [ k \in 1 .. bar.users[x] |-> Del(b) ]
<1>2. PICK ops : ops = [ x \in Users |-> purse(x) \o dels(x) ]
  OBVIOUS
<1>3. Turn(i, "free") /\ Rest
  BY DEF FreeGot
<1>4. asked[i] # None /\ asked[i].kind = "free" /\ SlotOK(asked[i], Given) /\ Given \subseteq Tbids /\ Shape
  BY <1>3, ShapeBars DEF Turn, Shape, AskedOK
<1>5. u \in Users /\ b \in asked[i].tbids /\ b \in Tbids /\ asked[i].tbids \in SUBSET Tbids /\ asked[i] \in Asked
  BY <1>0, <1>4, Bar1In DEF SlotOK, Asked
<1>6. CASE UNCHANGED updates /\ NoWrite
  BY <1>3, <1>6, GotNothing
<1>7. CASE /\ Has(asked[i].seen[u], b) /\ Exists(b)
           /\ Saved({b}, Only(b, None)) /\ Save(asked[i], ops)
  <2> DEFINE bs == {b}  only == Only(b, None)
  <2>1. bar \in Bar
    BY <1>0, <1>4, <1>5, <1>7, ThereIs DEF Shape
  <2>2. brief \in Brief
    <3>1. asked[i].seen[u] \in Seq(Brief) /\ SeqLen(asked[i].seen[u])
      BY <1>5, Seen
    <3>2. At(asked[i].seen[u], b) \in DOMAIN asked[i].seen[u]
      BY <3>1, <1>7, AtFound DEF SeqLen
    <3> QED BY <1>1, <3>1, <3>2
  <2>3. ASSUME NEW x \in Users
        PROVE  /\ bar.users[x] \in Nat
               /\ purse(x) \in Seq(Op) /\ \A j \in DOMAIN purse(x) : OpOK(purse(x)[j], "free", asked[i].tbids)
               /\ dels(x) \in Seq(Op) /\ \A j \in DOMAIN dels(x) : OpOK(dels(x)[j], "free", asked[i].tbids)
    <3>1. bar.users[x] \in Nat
      BY <2>1 DEF Bar
    <3>2. OpOK(Del(b), "free", asked[i].tbids)
      BY <1>5, DelOK
    <3>3. Del(b) \in Op
      BY <3>2, OpOKOp
    <3>4. dels(x) \in Seq(Op)
      BY <3>1, <3>3 DEF Seq
    <3>5. \A j \in DOMAIN dels(x) : OpOK(dels(x)[j], "free", asked[i].tbids)
      BY <3>2
    <3>6. CASE x = u /\ brief.chips > 0
      <4>1. brief.chips \in Nat /\ brief.chips \in Int
        BY <2>2 DEF Brief
      <4>2. OpOK(Purse(brief.chips), "free", asked[i].tbids)
        BY <4>1, PurseOK
      <4>3. Purse(brief.chips) \in Op
        BY <4>2, OpOKOp
      <4>4. purse(x) = << Purse(brief.chips) >>
        BY <3>6
      <4> HIDE DEF purse
      <4>5. << Purse(brief.chips) >> \in Seq(Op) /\ DOMAIN << Purse(brief.chips) >> = {1}
            /\ << Purse(brief.chips) >>[1] = Purse(brief.chips)
        BY <4>3
      <4>6. \A j \in DOMAIN purse(x) : OpOK(purse(x)[j], "free", asked[i].tbids)
        BY <4>2, <4>4, <4>5
      <4> QED BY <3>1, <3>4, <3>5, <4>4, <4>5, <4>6
    <3>7. CASE ~(x = u /\ brief.chips > 0)
      <4>1. purse(x) = << >>
        BY <3>7
      <4> HIDE DEF purse
      <4>2. << >> \in Seq(Op) /\ DOMAIN << >> = {}
        OBVIOUS
      <4> QED BY <3>1, <3>4, <3>5, <4>1, <4>2
    <3> QED BY <3>6, <3>7
  <2>4. \A x \in Users : ops[x] = purse(x) \o dels(x)
    BY <1>2
  <2>5. OpsOK(ops, "free", asked[i].tbids)
    <3> HIDE DEF purse, dels
    <3>1. ops \in [Users -> Seq(Op)]
      BY <1>2, <2>3, ConcatProperties
    <3>2. ASSUME NEW x \in Users, NEW j \in DOMAIN ops[x] PROVE OpOK(ops[x][j], "free", asked[i].tbids)
      <4> DEFINE p == purse(x)  d == dels(x)
      <4>1. p \in Seq(Op) /\ d \in Seq(Op)
        BY <2>3
      <4>2. Len(p) \in Nat /\ Len(d) \in Nat /\ DOMAIN p = 1 .. Len(p) /\ DOMAIN d = 1 .. Len(d)
        BY <4>1, LenProperties
      <4>3. /\ p \o d \in Seq(Op) /\ Len(p \o d) = Len(p) + Len(d)
            /\ \A k \in 1 .. Len(p) + Len(d) : (p \o d)[k] = IF k <= Len(p) THEN p[k] ELSE d[k - Len(p)]
        BY <4>1, ConcatProperties
      <4>4. j \in 1 .. Len(p) + Len(d)
        BY <4>3, <3>2, <2>4, LenProperties
      <4>5. CASE j <= Len(p)
        <5>1. j \in DOMAIN p /\ ops[x][j] = p[j]
          BY <4>2, <4>3, <4>4, <4>5, <2>4
        <5> QED BY <5>1, <2>3
      <4>6. CASE ~(j <= Len(p))
        <5>1. j - Len(p) \in DOMAIN d /\ ops[x][j] = d[j - Len(p)]
          BY <4>2, <4>3, <4>4, <4>6, <2>4
        <5> QED BY <5>1, <2>3
      <4> QED BY <4>5, <4>6
    <3> QED BY <3>1, <3>2 DEF OpsOK
  <2>6. bs = {b} /\ only[b] = None
    BY DEF Only
  <2>7. Saved(bs, only)
    BY <1>7
  <2> HIDE DEF bs, only
  <2>8. WrittenTo(bs, only)
    <3>1. \A c \in bs : Exists(c) /\ only[c] \in Bar \cup {None}
      BY <1>7, <2>6
    <3>2. bs \in SUBSET Tbids
      BY <1>5, <2>6
    <3> QED BY <1>3, <2>7, <3>1, <3>2, SavedWrites
  <2> HIDE DEF purse, dels
  <2>9. Ends(i, "free", bs, only, ops)
    BY <1>3, <1>5, <1>7, <2>5, <2>6, <2>8 DEF Ends
  <2>10. /\ Shape' /\ spoilt \subseteq spoilt' /\ briefs' = briefs /\ drops' = drops
         /\ Sent(asked[i], ops) /\ asked[i] # None /\ asked[i].kind = "free" /\ SlotOK(asked[i], Given)
         /\ \A c \in bs \ spoilt' : GetTeaBar(c)' = only[c] /\ Kept(c)'
         /\ \A c \in Tbids \ bs : cached'[c] = cached[c] /\ stored'[c] = stored[c]
         /\ \A j \in Slots : asked'[j] = asked[j] \/ asked'[j] = None
         /\ \A c \in Tbids \ spoilt' : Apart(c)' /\
              \A s \in Sessions(c)' :
                s \in Sessions(c) /\ (c \in asked[i].tbids => {"free", s.kind} \notin Conflicts)
    BY <2>9, Wrote
  <2>11. ASSUME NEW c \in Tbids \ spoilt', c # b PROVE Sound(c)'
    <3>1. Sound(c)
      BY <2>10 DEF IInv
    <3>2. ASSUME NEW v \in Users PROVE Leads(Due(v, c), ops[v], v, c, Due(v, c))
      <4>1. SeqLen(ops[v])
        <5>1. ops[v] \in Seq(Op)
          BY <2>5 DEF OpsOK
        <5> QED BY <5>1, LenProperties DEF SeqLen
      <4>2. Leads(Due(v, c), purse(v), v, c, Due(v, c))
        <5>1. CASE v = u /\ brief.chips > 0
          <6>1. purse(v) = << Purse(brief.chips) >>
            BY <5>1 DEF purse
          <6> QED BY <6>1, PurseLeads, DueStanding
        <5>2. CASE ~(v = u /\ brief.chips > 0)
          <6>1. purse(v) = Nothing[v]
            BY <5>2 DEF purse, Nothing
          <6> QED BY <6>1, NothingLeads, DueStanding
        <5> QED BY <5>1, <5>2
      <4>3. Leads(Due(v, c), dels(v), v, c, Due(v, c))
        <5>1. SeqLen(dels(v))
          BY <2>3, LenProperties DEF SeqLen
        <5>2. \A k \in DOMAIN dels(v) : Aside(dels(v)[k], c)
          BY <2>11 DEF dels, Aside, Del
        <5> QED BY <5>1, <5>2, LeadsStay, DueStanding
      <4>4. purse(v) \in Seq(Op) /\ dels(v) \in Seq(Op)
        BY <2>3
      <4>5. Leads(Due(v, c), purse(v) \o dels(v), v, c, Due(v, c))
        BY <4>2, <4>3, <4>4, LeadsJoin
      <4> QED BY <4>5, <2>4
    <3>3. c \in Tbids \ bs
      BY <2>6, <2>11
    <3> QED BY <1>4, <2>10, <3>1, <3>2, <3>3, SentSteady DEF Shape
  <2>12. ASSUME b \notin spoilt' PROVE Sound(b)'
    <3>1. Sound(b)
      BY <1>5, <2>10, <2>12 DEF IInv
    <3>2. GetTeaBar(b)' = None /\ Kept(b)' /\ Apart(b)'
      <4>1. b \in bs /\ b \in Tbids
        BY <2>6, <1>5
      <4>2. GetTeaBar(b)' = only[b]
        BY <4>1, <2>10, <2>12
      <4> QED BY <4>1, <4>2, <2>6, <2>10, <2>12
    <3>3. ~Exists(b)'
      BY <3>2 DEF Exists
    <3>4. DropsOnce(b)'
      BY <1>4, <2>10, <3>1, SentDrops DEF Sound, Shape
    <3>5. ASSUME NEW v \in Users PROVE Comes(briefs'[v], updates'[v], v, b, Due(v, b)')
      <4>1. Due(v, b)' = "none"
        BY <3>3 DEF Due, On
      <4>2. Leads(Due(v, b), purse(v), v, b, Due(v, b))
        <5>1. CASE v = u /\ brief.chips > 0
          <6>1. purse(v) = << Purse(brief.chips) >>
            BY <5>1 DEF purse
          <6> QED BY <6>1, PurseLeads, DueStanding
        <5>2. CASE ~(v = u /\ brief.chips > 0)
          <6>1. purse(v) = Nothing[v]
            BY <5>2 DEF purse, Nothing
          <6> QED BY <6>1, NothingLeads, DueStanding
        <5> QED BY <5>1, <5>2
      <4>3. Leads(Due(v, b), dels(v), v, b, "none")
        <5>1. bar.users[v] \in Nat
          BY <2>3
        <5>2. bar.users[v] > 0 \/ Due(v, b) = "none"
          BY <1>0, <5>1 DEF Due, On
        <5> QED BY <5>1, <5>2, DelsLead, DueStanding DEF dels
      <4>4. purse(v) \in Seq(Op) /\ dels(v) \in Seq(Op)
        BY <2>3
      <4>5. Leads(Due(v, b), purse(v) \o dels(v), v, b, "none")
        BY <4>2, <4>3, <4>4, LeadsJoin
      <4>6. Leads(Due(v, b), ops[v], v, b, "none")
        BY <4>5, <2>4
      <4>7. Comes(briefs[v], updates[v], v, b, Due(v, b)) /\ "none" \in Standing
        BY <3>1 DEF Sound, Standing
      <4> QED BY <4>1, <4>6, <4>7, <1>4, <2>10, SentComes DEF Shape
    <3> QED BY <3>2, <3>3, <3>4, <3>5 DEF Sound
  <2> QED BY <2>10, <2>11, <2>12 DEF IInv
<1>8. (Has(asked[i].seen[u], b) /\ Exists(b) /\ Saved({b}, Only(b, None)) /\ Save(asked[i], ops))
      \/ (UNCHANGED updates /\ NoWrite)
  BY <1>0, <1>1, <1>2 DEF FreeGot
<1> QED
  BY <1>6, <1>7, <1>8

(* The answer to a creation keeps IInv: the bar has a number nobody had,   *)
(* so no brief of it is anywhere.                                          *)
LEMMA CreateStep ==
  ASSUME IInv, NEW i \in Slots, CreateGot(i)
  PROVE  IInv'
<1>0. PICK u, b : u = asked[i].by /\ b = max_tbid + 1
  OBVIOUS
<1>1. PICK bar : bar = [ master |-> u, users |-> [ x \in Users |-> IF x = u THEN 1 ELSE 0 ], applied |-> {} ]
  OBVIOUS
<1>2. PICK s, ops : s = [asked[i] EXCEPT !.tbids = {b}] /\ ops = For(u, << Add(b, u, 0) >>)
  OBVIOUS
<1>3. Turn(i, "create") /\ UNCHANGED << atUser, drops, requests >>
  BY DEF CreateGot
<1>4. asked[i] # None /\ asked[i].kind = "create" /\ SlotOK(asked[i], Given) /\ Given \subseteq Tbids /\ Shape
      /\ max_tbid \in Nat
  BY <1>3, ShapeBars DEF Turn, Shape, AskedOK
<1>5. u \in Users /\ bar \in Bar
  BY <1>0, <1>1, <1>4 DEF SlotOK, Asked, Bar
<1>6. CASE UNCHANGED << max_tbid, updates >> /\ NoWrite
  <2>1. Rest
    BY <1>3, <1>6 DEF Rest
  <2> QED BY <2>1, <1>3, <1>6, GotNothing
<1>7. CASE /\ b <= MaxTbid /\ max_tbid' = b /\ Saved({b}, Only(b, bar))
           /\ IF stored'[b] = None THEN UNCHANGED updates ELSE Save(s, ops)
  <2>1. b \in Tbids /\ b \notin Given /\ b \in Given' /\ Given \subseteq Given'
    BY <1>0, <1>4, <1>7, Numbers DEF Given
  <2> DEFINE bs == {b}  only == Only(b, bar)
  <2>2. bs = {b} /\ only[b] = bar /\ Saved(bs, only)
    BY <1>7 DEF Only
  <2> HIDE DEF bs, only
  <2>3. /\ BarsOK' /\ CountsOK' /\ spoilt \subseteq spoilt'
        /\ \A c \in bs \ spoilt' : cached'[c] = only[c] /\ stored'[c] = only[c]
        /\ \A c \in bs : cached'[c] = only[c]
        /\ \A c \in Tbids \ bs : cached'[c] = cached[c] /\ stored'[c] = stored[c]
    <3>1. bs \subseteq Tbids /\ \A c \in bs : only[c] \in Bar \cup {None}
      BY <1>5, <2>1, <2>2
    <3>2. max_tbid' \in max_tbid .. MaxTbid
      BY <1>0, <1>4, <1>7, Numbers
    <3>3. \A c \in bs : c > max_tbid' => only[c] = None
      BY <1>0, <1>4, <1>7, <2>2
    <3>4. BarsOK /\ CountsOK /\ requests' = requests /\ Saved(bs, only) /\ max_tbid \in Nat
      BY <1>3, <1>4, <2>2 DEF Shape
    <3>5. bs \subseteq Tbids
      BY <3>1
    <3>6. \A c \in bs : only[c] \in Bar \cup {None}
      BY <3>1
    <3> QED BY <3>2, <3>3, <3>4, <3>5, <3>6, SavedBars
  <2>4. max_tbid' \in Nat /\ max_tbid' >= max_tbid /\ briefs' = briefs /\ drops' = drops
    BY <1>0, <1>3, <1>4, <1>7 DEF atUser
  <2>5. /\ AskedOK' /\ \A j \in Slots : asked'[j] = asked[j] \/ asked'[j] = None
    BY <1>3, <1>4, <2>4, TurnSlots DEF Shape
  <2>6. UserOK' /\ DropsOK' /\ (updates' = updates => UpdatesOK')
    BY <1>3, <1>4, <2>4, RestShape DEF Shape
  <2>7. s.kind = "create" /\ s.tbids = {b}
    BY <1>2, <1>4 DEF SlotOK, Asked
  <2>8. OpsOK(ops, "create", s.tbids)
    <3>1. {b} \in SUBSET Tbids /\ b \in {b}
      BY <2>1
    <3> QED BY <1>2, <1>5, <2>7, <3>1, AddOK, ForOne
  <2>9. CASE Save(s, ops)
    <3>1. UpdatesOK' /\ Sent(s, ops)
      <4>1. s.kind \in Kinds
        BY <2>7 DEF Kinds
      <4>2. UpdatesOK /\ s.tbids \subseteq Tbids /\ s.tbids \subseteq Given' /\ OpsOK(ops, s.kind, s.tbids)
        BY <1>4, <2>1, <2>7, <2>8 DEF Shape
      <4>3. UpdatesOK'
        BY <1>4, <2>4, <2>9, <4>1, <4>2, SavedUpdates
      <4>4. \A v \in Users :
              IF ops[v] = << >> THEN updates'[v] = updates[v]
              ELSE \E m \in Update : /\ m.kind = s.kind /\ m.tbids = s.tbids /\ m.live
                                     /\ m.ops = ops[v] /\ updates'[v] = Append(updates[v], m)
        BY <1>4, <2>4, <2>9, <4>1, <4>2, SavedUpdates
      <4> QED BY <4>3, <4>4 DEF Sent
    <3>2. ASSUME NEW c \in Tbids \ spoilt', c # b PROVE Sound(c)'
      <4>1. Sound(c)
        BY <2>3 DEF IInv
      <4>2. \A v \in Users : Leads(Due(v, c), ops[v], v, c, Due(v, c))
        BY <2>7, <2>8, <3>2, AsideLeads, DueStanding
      <4>3. cached'[c] = cached[c] /\ stored'[c] = stored[c]
        BY <2>2, <2>3, <3>2
      <4>4. s.kind # "drop"
        BY <2>7
      <4> QED BY <1>4, <2>4, <2>5, <3>1, <4>1, <4>2, <4>3, <4>4, SentSteady DEF Shape
    <3>3. ASSUME b \notin spoilt' PROVE Sound(b)'
      <4>1. Sound(b) /\ ~Exists(b)
        BY <1>4, <2>1, <2>3, <3>3, ThereIs DEF IInv, Shape
      <4>2. GetTeaBar(b)' = bar /\ Kept(b)'
        BY <2>2, <2>3, <3>3, Written
      <4>3. Apart(b)'
        BY <2>5, <4>1, ApartLess DEF Sound
      <4>4. ASSUME NEW t \in Sessions(b)' PROVE FALSE
        <5>1. t \in Sessions(b)
          BY <2>5, <4>4, SessionsLess
        <5>2. b \in t.tbids /\ SlotOK(t, Given)
          BY <1>4, <5>1, SessionsAsked DEF Shape
        <5> QED BY <2>1, <5>2 DEF SlotOK
      <4>5. ASSUME NEW v \in Users PROVE ~Going(v, b)
        <5>1. << v, b >> \notin drops
          BY <1>4, <2>1 DEF Shape, DropsOK
        <5>2. \A k \in DOMAIN updates[v] : ~DropOf(updates[v][k], b)
          BY <1>4, <2>1 DEF Shape, UpdatesOK, MessageOK, DropOf
        <5> QED BY <5>1, <5>2 DEF Going
      <4>6. ASSUME NEW v \in Users
            PROVE  /\ LET d == IF Going(v, b) THEN 1 ELSE 0 IN bar.users[v] \in {d, d + 1}
                   /\ v = bar.master => OnIn(bar, v, Going(v, b))
                   /\ Leads(Due(v, b), ops[v], v, b, DueIn(bar, v, Going(v, b)))
        <5>1. bar.users[v] = (IF v = u THEN 1 ELSE 0) /\ bar.master = u
          BY <1>1
        <5>2. Due(v, b) = "none" /\ "none" \in Standing
          BY <4>1 DEF Due, On, Standing
        <5>3. CASE v = u
          <6>1. Allowed("none", Add(b, u, 0), u, b) /\ Turned("none", Add(b, u, 0), u, b) = "own"
            BY DEF Allowed, Turned, Add
          <6>2. Leads("none", << Add(b, u, 0) >>, u, b, "own")
            BY <5>2, <6>1, LeadsOne
          <6>3. ops[v] = << Add(b, u, 0) >>
            BY <1>2, <5>3 DEF For
          <6>4. OnIn(bar, v, Going(v, b)) /\ DueIn(bar, v, Going(v, b)) = "own"
            BY <4>5, <5>1, <5>3 DEF OnIn, DueIn
          <6> QED BY <4>5, <5>1, <5>2, <5>3, <6>2, <6>3, <6>4
        <5>4. CASE v # u
          <6>1. ops[v] = Nothing[v]
            BY <1>2, <5>4 DEF For, Nothing
          <6>2. DueIn(bar, v, Going(v, b)) = "none"
            BY <4>5, <5>1, <5>4 DEF OnIn, DueIn
          <6> QED BY <4>5, <5>1, <5>2, <5>4, <6>1, <6>2, NothingLeads
        <5> QED BY <5>3, <5>4
      <4>7. s.kind # "drop"
        BY <2>7
      <4>8. \A t \in Sessions(b)' : Relies(t, b)'
        BY <4>4
      <4> QED BY <1>4, <1>5, <2>1, <2>4, <3>1, <4>1, <4>2, <4>3, <4>6, <4>7, <4>8, WroteBar DEF Shape
    <3> QED BY <2>3, <2>5, <2>6, <3>1, <3>2, <3>3 DEF IInv, Shape
  <2>10. CASE stored'[b] = None /\ UNCHANGED updates
    <3>1. b \in spoilt'
      BY <1>5, <2>2, <2>3, <2>10, Numbers
    <3>2. ASSUME NEW c \in Tbids \ spoilt' PROVE Sound(c)'
      <4>1. Sound(c)
        BY <2>3 DEF IInv
      <4>2. cached'[c] = cached[c] /\ stored'[c] = stored[c]
        BY <2>2, <2>3, <3>1, <3>2
      <4>3. updates' = updates
        BY <2>10
      <4> QED BY <1>4, <2>4, <2>5, <4>1, <4>2, <4>3, TurnedSteady DEF Shape
    <3> QED BY <2>3, <2>5, <2>6, <2>10, <3>2 DEF IInv, Shape
  <2> QED BY <1>7, <2>9, <2>10
<1>8. \/ UNCHANGED << max_tbid, updates >> /\ NoWrite
      \/ /\ ~(b > MaxTbid) /\ max_tbid' = b /\ Saved({b}, Only(b, bar))
         /\ IF stored'[b] = None THEN UNCHANGED updates ELSE Save(s, ops)
  BY <1>0, <1>1, <1>2 DEF CreateGot
<1>9. ~(b > MaxTbid) => b <= MaxTbid
  BY <1>0, <1>4, Numbers
<1> QED
  BY <1>6, <1>7, <1>8, <1>9

(* Sessions that rely on members who are not there are served while nobody *)
(* joins.                                                                  *)
LEMMA ReliesLess ==
  ASSUME NEW t \in Asked, NEW b, Relies(t, b),
         t.kind \notin {"drop", "list", "remove", "transfer"},
         GetTeaBar(b)'.master = GetTeaBar(b).master, GetTeaBar(b)'.applied = GetTeaBar(b).applied,
         \A u \in Users : On(u, b)' => On(u, b)
  PROVE  Relies(t, b)'
<1>1. t.who \in Users
  BY DEF Asked
<1>2. CASE t.kind # "agree"
  BY <1>2, ReliesFew
<1>3. CASE t.kind = "agree"
  <2>1. t.who \in GetTeaBar(b)'.applied /\ ~Has(t.seen[t.who], b) => ~On(t.who, b)'
    BY <1>1, <1>3 DEF Relies
  <2> QED BY <1>3, <2>1 DEF Relies
<1> QED BY <1>2, <1>3

(* The answer to a drop keeps IInv: the member's brief is going while the  *)
(* bar still counts him, until DropDone.                                   *)
LEMMA DropStep ==
  ASSUME IInv, NEW i \in Slots, DropGot(i)
  PROVE  IInv'
<1>0. PICK u, b, bar : u = asked[i].by /\ b = Bar1(asked[i]) /\ bar = GetTeaBar(b)
  OBVIOUS
<1>1. PICK ops : ops = For(u, << Del(b) >>)
  OBVIOUS
<1>2. Turn(i, "drop") /\ Rest /\ NoWrite
  BY DEF DropGot
<1>3. asked[i] # None /\ asked[i].kind = "drop" /\ SlotOK(asked[i], Given) /\ Given \subseteq Tbids /\ Shape
  BY <1>2, ShapeBars DEF Turn, Shape, AskedOK
<1>4. u \in Users /\ asked[i].tbids = {b} /\ b \in Tbids
  <2>1. \E c : asked[i].tbids = {c}
    BY <1>3 DEF SlotOK
  <2>2. b \in asked[i].tbids
    BY <2>1, <1>0, Bar1In
  <2> QED BY <1>0, <1>3, <2>1, <2>2 DEF SlotOK, Asked
<1>5. CASE UNCHANGED updates
  BY <1>2, <1>5, GotNothing
<1>6. CASE Exists(b) /\ bar.master # u /\ Save(asked[i], ops)
  <2>1. OpsOK(ops, "drop", asked[i].tbids)
    <3>1. OpOK(Del(b), "drop", asked[i].tbids)
      BY <1>4, DelOK
    <3> QED BY <1>1, <1>4, <3>1, ForOne
  <2>2. Ends(i, "drop", {}, Nothing, ops)
    <3>1. WrittenTo({}, Nothing) /\ {} \subseteq Tbids
      BY <1>2, NothingWrites
    <3> QED BY <1>2, <1>6, <2>1, <3>1 DEF Ends
  <2>3. /\ Shape' /\ spoilt \subseteq spoilt' /\ briefs' = briefs /\ drops' = drops
        /\ Sent(asked[i], ops) /\ asked[i] # None /\ asked[i].kind = "drop" /\ SlotOK(asked[i], Given)
        /\ \A c \in {} \ spoilt' : GetTeaBar(c)' = Nothing[c] /\ Kept(c)'
        /\ \A c \in Tbids \ {} : cached'[c] = cached[c] /\ stored'[c] = stored[c]
        /\ \A j \in Slots : asked'[j] = asked[j] \/ asked'[j] = None
        /\ \A c \in Tbids \ spoilt' : Apart(c)' /\
             \A s \in Sessions(c)' :
               s \in Sessions(c) /\ (c \in asked[i].tbids => {"drop", s.kind} \notin Conflicts)
    BY <2>2, Wrote
  <2>4. ASSUME NEW c \in Tbids \ spoilt', c # b PROVE Sound(c)'
    <3>1. Sound(c) /\ c \notin asked[i].tbids
      BY <1>4, <2>3, <2>4 DEF IInv
    <3>2. \A v \in Users : Leads(Due(v, c), ops[v], v, c, Due(v, c))
      BY <2>1, <3>1, AsideLeads, DueStanding
    <3>3. cached'[c] = cached[c] /\ stored'[c] = stored[c]
      BY <2>3
    <3> QED BY <1>3, <2>3, <3>1, <3>2, <3>3, SentSteady DEF Shape
  <2>5. ASSUME b \notin spoilt' PROVE Sound(b)'
    <3>1. Sound(b) /\ asked[i] \in Sessions(b)
      BY <1>3, <1>4, <2>3, <2>5, SlotSession DEF IInv
    <3>2. On(u, b) /\ ~Going(u, b)
      BY <1>0, <1>3, <1>6, <3>1 DEF Sound, Relies
    <3>3. GetTeaBar(b)' = bar /\ Exists(b)' /\ Kept(b)' /\ bar \in Bar
      <4>1. cached'[b] = cached[b] /\ stored'[b] = stored[b]
        BY <1>4, <2>3
      <4> QED BY <1>0, <1>3, <1>4, <1>6, <3>1, <4>1, Unwritten, ThereIs DEF Sound, Shape
    <3>4. /\ \A v \in Users \ {u} : ops[v] = << >>
          /\ ops[u] = << Del(b) >>
      BY <1>1, <1>4 DEF For
    <3>5. \A v \in Users \ {u} : updates'[v] = updates[v]
      BY <2>3, <3>4 DEF Sent
    <3>6. PICK m \in Update : m.kind = "drop" /\ m.tbids = {b} /\ m.live /\ m.ops = ops[u]
                              /\ updates'[u] = Append(updates[u], m)
      <4>1. ops[u] # << >>
        BY <3>4
      <4> QED BY <1>3, <1>4, <2>3, <4>1, SMTT(30) DEF Sent
    <3>7. /\ DOMAIN updates'[u] = 1 .. Len(updates[u]) + 1
          /\ DOMAIN updates[u] = 1 .. Len(updates[u]) /\ Len(updates[u]) \in Nat
          /\ \A k \in 1 .. Len(updates[u]) : updates'[u][k] = updates[u][k]
          /\ updates'[u][Len(updates[u]) + 1] = m
      BY <1>3, <1>4, <3>6, Appended DEF Shape
    <3>8. /\ Going(u, b)'
          /\ \A v \in Users \ {u} : Going(v, b)' = Going(v, b)
      <4>1. Going(u, b)'
        BY <3>6, <3>7 DEF Going, DropOf
      <4>2. \A v \in Users \ {u} : Going(v, b)' = Going(v, b)
        BY <2>3, <3>5 DEF Going
      <4> QED BY <4>1, <4>2
    <3>9. DropsOnce(b)'
      <4>1. ASSUME NEW v \in Users, NEW k \in DOMAIN updates'[v], DropOf(updates'[v][k], b)
            PROVE  /\ updates'[v][k].live /\ << v, b >> \notin drops'
                   /\ \A l \in DOMAIN updates'[v] : DropOf(updates'[v][l], b) => l = k
        <5>1. CASE v # u
          BY <2>3, <3>1, <3>5, <4>1, <5>1 DEF Sound, DropsOnce
        <5>2. CASE v = u
          <6>1. << u, b >> \notin drops /\ \A l \in DOMAIN updates[u] : ~DropOf(updates[u][l], b)
            BY <3>2 DEF Going
          <6>2. \A l \in DOMAIN updates'[u] : DropOf(updates'[u][l], b) => l = Len(updates[u]) + 1
            BY <3>7, <6>1
          <6> QED BY <2>3, <3>6, <3>7, <4>1, <5>2, <6>1, <6>2
        <5> QED BY <5>1, <5>2
      <4> QED BY <4>1 DEF DropsOnce
    <3>10. bar.users[u] = 1 /\ u # bar.master
      BY <1>0, <1>4, <1>6, <3>1, <3>2, <3>3 DEF Sound, On, Bar
    <3>11. /\ ~On(u, b)' /\ Due(u, b)' = "none"
           /\ \A v \in Users \ {u} : On(v, b)' = On(v, b) /\ Due(v, b)' = Due(v, b)
      <4>1. ~On(u, b)'
        BY <3>3, <3>8, <3>10 DEF On
      <4>2. \A v \in Users \ {u} : On(v, b)' = On(v, b)
        BY <1>0, <1>6, <3>3, <3>8 DEF On
      <4>3. Due(u, b)' = "none"
        BY <4>1 DEF Due
      <4>4. \A v \in Users \ {u} : Due(v, b)' = Due(v, b)
        BY <1>0, <3>3, <4>2 DEF Due
      <4> QED BY <4>1, <4>2, <4>3, <4>4
    <3>12. ASSUME NEW v \in Users PROVE Comes(briefs'[v], updates'[v], v, b, Due(v, b)')
      <4>1. Comes(briefs[v], updates[v], v, b, Due(v, b))
        BY <3>1 DEF Sound
      <4>2. CASE v # u
        BY <2>3, <3>5, <3>11, <4>1, <4>2
      <4>3. CASE v = u
        <5>1. Leads(Due(u, b), ops[u], u, b, "none") /\ "none" \in Standing
          BY <3>4, DelLeads, DueStanding DEF Standing
        <5>2. Comes(briefs'[u], updates'[u], u, b, "none")
          BY <1>3, <1>4, <2>3, <4>1, <4>3, <5>1, SentComes DEF Shape
        <5> QED BY <3>11, <4>3, <5>2
      <4> QED BY <4>2, <4>3
    <3>13. ASSUME NEW v \in Users
           PROVE  /\ LET d == IF Going(v, b)' THEN 1 ELSE 0 IN GetTeaBar(b)'.users[v] \in {d, d + 1}
                  /\ v = GetTeaBar(b)'.master => On(v, b)'
      <4>1. CASE v # u
        BY <1>0, <1>6, <3>1, <3>3, <3>8, <3>11, <4>1 DEF Sound
      <4>2. CASE v = u
        BY <3>3, <3>8, <3>10, <4>2
      <4> QED BY <4>1, <4>2
    <3>14. ASSUME NEW t \in Sessions(b)' PROVE Relies(t, b)'
      <4>1. t \in Sessions(b) /\ {"drop", t.kind} \notin Conflicts
        BY <1>4, <2>3, <2>5, <3>14
      <4>2. t \in Asked /\ Relies(t, b)
        BY <1>3, <1>6, <3>1, <4>1, SessionsAsked DEF Sound, Shape
      <4>3. t.kind \notin {"drop", "list", "remove", "transfer"}
        BY <4>1, Clashes
      <4>4. \A v \in Users : On(v, b)' => On(v, b)
        BY <3>11
      <4>5. GetTeaBar(b)'.master = GetTeaBar(b).master /\ GetTeaBar(b)'.applied = GetTeaBar(b).applied
        BY <1>0, <3>3
      <4> QED BY <4>2, <4>3, <4>4, <4>5, ReliesLess
    <3>15. Apart(b)'
      BY <1>4, <2>3, <2>5
    <3> QED BY <3>3, <3>9, <3>12, <3>13, <3>14, <3>15 DEF Sound
  <2> QED BY <2>3, <2>4, <2>5 DEF IInv
<1> QED
  BY <1>0, <1>1, <1>5, <1>6 DEF DropGot

(* The end of a drop keeps IInv: the bar stops counting the member whose   *)
(* brief went.                                                             *)
LEMMA DropDoneStep ==
  ASSUME IInv, NEW u \in Users, NEW b \in Tbids, DropDone(u, b)
  PROVE  IInv'
<1>0. PICK bar, new : bar = GetTeaBar(b) /\ new = DeleteUser(bar, u)
  OBVIOUS
<1>1. /\ << u, b >> \in drops /\ drops' = drops \ {<< u, b >>}
      /\ IF Exists(b) /\ Member(u, b) THEN Saved({b}, Only(b, new)) ELSE NoWrite
      /\ max_tbid' = max_tbid /\ atUser' = atUser /\ asked' = asked /\ updates' = updates
      /\ requests' = requests
  BY <1>0 DEF DropDone
<1>2. Shape /\ max_tbid \in Nat /\ Given' = Given /\ briefs' = briefs
  BY <1>1, ShapeBars DEF Given, atUser
<1>3. UserOK' /\ AskedOK' /\ UpdatesOK' /\ DropsOK'
  BY <1>1, <1>2 DEF Shape, UserOK, AskedOK, UpdatesOK, DropsOK, atUser
<1>4. /\ BarsOK' /\ CountsOK' /\ spoilt \subseteq spoilt'
      /\ \A c \in Tbids \ {b} : cached'[c] = cached[c] /\ stored'[c] = stored[c]
      /\ Exists(b) /\ Member(u, b) =>
           new \in Bar /\ (b \notin spoilt' => cached'[b] = new /\ stored'[b] = new)
      /\ ~(Exists(b) /\ Member(u, b)) => cached'[b] = cached[b] /\ stored'[b] = stored[b]
  <2>1. CASE Exists(b) /\ Member(u, b)
    <3>1. bar \in Bar /\ b \in Given
      BY <1>0, <1>2, <2>1, ThereIs DEF Shape
    <3>2. new \in Bar
      BY <1>0, <3>1, DeleteUserBar
    <3> DEFINE bs == {b}  only == Only(b, new)
    <3>3. bs = {b} /\ only[b] = new /\ Saved(bs, only)
      BY <1>1, <2>1 DEF Only
    <3> HIDE DEF bs, only
    <3>4. bs \subseteq Tbids /\ max_tbid' \in max_tbid .. MaxTbid
      BY <1>1, <1>2, <3>3, Numbers DEF Shape, BarsOK
    <3>5. \A c \in bs : only[c] \in Bar \cup {None}
      BY <3>2, <3>3
    <3>6. \A c \in bs : c > max_tbid' => only[c] = None
      BY <1>1, <3>1, <3>3, <1>2 DEF Given
    <3>7. BarsOK /\ CountsOK /\ requests' = requests
      BY <1>1, <1>2 DEF Shape
    <3>8. /\ BarsOK' /\ CountsOK' /\ spoilt \subseteq spoilt'
          /\ \A c \in bs \ spoilt' : cached'[c] = only[c] /\ stored'[c] = only[c]
          /\ \A c \in bs : cached'[c] = only[c]
          /\ \A c \in Tbids \ bs : cached'[c] = cached[c] /\ stored'[c] = stored[c]
      BY <1>2, <3>3, <3>4, <3>5, <3>6, <3>7, SavedBars
    <3> QED BY <2>1, <3>2, <3>3, <3>8
  <2>2. CASE ~(Exists(b) /\ Member(u, b))
    <3>1. NoWrite
      BY <1>1, <2>2
    <3>2. BarsOK' /\ CountsOK' /\ spoilt' = spoilt
          /\ \A c \in Tbids : cached'[c] = cached[c] /\ stored'[c] = stored[c]
      BY <1>1, <1>2, <3>1, NoWriteBars DEF Shape
    <3> QED BY <2>2, <3>2
  <2> QED BY <2>1, <2>2
<1>5. \A c \in Tbids : Sessions(c)' = Sessions(c) /\ (Apart(c) => Apart(c)')
  BY <1>1 DEF Sessions, Apart
<1>6. \A c \in Tbids : DropsOnce(c) => DropsOnce(c)'
  BY <1>1 DEF DropsOnce
<1>7. \A v \in Users, c \in Tbids : v # u \/ c # b => Going(v, c)' = Going(v, c)
  BY <1>1 DEF Going
<1>8. ASSUME NEW c \in Tbids \ spoilt', c # b PROVE Sound(c)'
  <2>1. Sound(c)
    BY <1>4, <1>8 DEF IInv
  <2>2. GetTeaBar(c)' = GetTeaBar(c) /\ Exists(c)' = Exists(c) /\ Kept(c)'
    BY <1>4, <1>8, <2>1, Unwritten DEF Sound
  <2>3. \A v \in Users : Comes(briefs'[v], updates'[v], v, c, Due(v, c))
    BY <1>1, <1>2, <2>1 DEF Sound
  <2>4. Apart(c)' /\ DropsOnce(c)' /\ Sessions(c)' \subseteq Sessions(c)
    BY <1>5, <1>6, <2>1 DEF Sound
  <2>5. \A v \in Users : Going(v, c)' = Going(v, c)
    BY <1>7, <1>8
  <2> QED BY <1>2, <2>1, <2>2, <2>3, <2>4, <2>5, Steady DEF Shape
<1>9. ASSUME b \notin spoilt' PROVE Sound(b)'
  <2>1. Sound(b) /\ Going(u, b)
    BY <1>1, <1>4, <1>9 DEF IInv, Going
  <2>2. ~Going(u, b)'
    <3>1. \A k \in DOMAIN updates[u] : ~DropOf(updates[u][k], b)
      BY <1>1, <2>1 DEF Sound, DropsOnce
    <3> QED BY <1>1, <3>1 DEF Going
  <2>3. Apart(b)' /\ DropsOnce(b)' /\ Sessions(b)' = Sessions(b)
    BY <1>5, <1>6, <2>1 DEF Sound
  <2>4. \A v \in Users : Comes(briefs'[v], updates'[v], v, b, Due(v, b))
    BY <1>1, <1>2, <2>1 DEF Sound
  <2>5. CASE ~Exists(b)
    <3>1. ~Exists(b)' /\ Kept(b)'
      BY <1>4, <2>1, <2>5, Unwritten DEF Sound
    <3>2. \A v \in Users : Due(v, b)' = Due(v, b)
      BY <2>5, <3>1 DEF Due, On
    <3> QED BY <2>3, <2>4, <3>1, <3>2 DEF Sound
  <2>6. CASE Exists(b)
    <3>1. bar \in Bar
      BY <1>0, <1>2, <2>6, ThereIs DEF Shape
    <3>2. bar.users[u] \in {1, 2} /\ Member(u, b)
      BY <1>0, <2>1, <2>6, <3>1 DEF Sound, Member
    <3>3. GetTeaBar(b)' = new /\ Kept(b)' /\ Exists(b)' /\ new \in Bar
      <4>1. cached'[b] = new /\ stored'[b] = new /\ new \in Bar
        BY <1>4, <1>9, <2>6, <3>2
      <4>2. GetTeaBar(b)' = new /\ Kept(b)'
        BY <4>1, Written
      <4> QED BY <4>1, <4>2, Numbers DEF Exists
    <3>4. /\ new.master = bar.master /\ new.applied = bar.applied
          /\ \A v \in Users : new.users[v] = IF v = u THEN bar.users[u] - 1 ELSE bar.users[v]
      BY <1>0, <3>1, <3>2, DeleteUserBar
    <3>5. \A v \in Users : On(v, b)' = On(v, b)
      <4>1. On(u, b)' = On(u, b)
        BY <1>0, <2>1, <2>2, <2>6, <3>2, <3>3, <3>4 DEF On
      <4>2. \A v \in Users \ {u} : On(v, b)' = On(v, b)
        BY <1>0, <1>7, <2>6, <3>3, <3>4 DEF On
      <4> QED BY <4>1, <4>2
    <3>6. \A v \in Users : Due(v, b)' = Due(v, b)
      BY <1>0, <3>3, <3>4, <3>5 DEF Due
    <3>7. ASSUME NEW v \in Users
          PROVE  /\ LET d == IF Going(v, b)' THEN 1 ELSE 0 IN GetTeaBar(b)'.users[v] \in {d, d + 1}
                 /\ v = GetTeaBar(b)'.master => On(v, b)'
      <4>1. v = GetTeaBar(b)'.master => On(v, b)'
        BY <1>0, <2>1, <2>6, <3>3, <3>4, <3>5 DEF Sound
      <4>2. CASE v = u
        BY <2>2, <3>2, <3>3, <3>4, <4>1, <4>2
      <4>3. CASE v # u
        BY <1>0, <1>7, <2>1, <2>6, <3>3, <3>4, <4>1, <4>3 DEF Sound
      <4> QED BY <4>2, <4>3
    <3>8. ASSUME NEW t \in Sessions(b)' PROVE Relies(t, b)'
      <4>1. t \in Asked /\ Relies(t, b)
        BY <1>2, <2>1, <2>3, <2>6, <3>8, SessionsAsked DEF Sound, Shape
      <4>2. \A v \in Users : On(v, b)' = On(v, b) /\ (Going(v, b)' => Going(v, b))
        BY <1>7, <2>1, <3>5
      <4>3. GetTeaBar(b)'.master = GetTeaBar(b).master
            /\ \A v \in Users : v \in GetTeaBar(b)'.applied => v \in GetTeaBar(b).applied \/ ~On(v, b)
        BY <1>0, <3>3, <3>4
      <4> QED BY <2>6, <3>3, <4>1, <4>2, <4>3, ReliesKept
    <3>9. \A v \in Users : Comes(briefs'[v], updates'[v], v, b, Due(v, b)')
      BY <2>4, <3>6
    <3> QED BY <2>3, <3>3, <3>7, <3>8, <3>9 DEF Sound
  <2> QED BY <2>5, <2>6
<1> QED
  BY <1>3, <1>4, <1>8, <1>9 DEF IInv, Shape

-----------------------------------------------------------------------------
(* Time *)

(* Dropping a bar from the cache keeps IInv: the store has its members and *)
(* its master.                                                             *)
LEMMA EvictStep ==
  ASSUME IInv, NEW b \in Tbids, Evict(b)
  PROVE  IInv'
<1>1. /\ cached[b] # None /\ (\A i \in Slots : asked[i] # None => b \notin asked[i].tbids)
      /\ cached' = [cached EXCEPT ![b] = None]
      /\ max_tbid' = max_tbid /\ stored' = stored /\ atUser' = atUser /\ asked' = asked
      /\ updates' = updates /\ drops' = drops /\ requests' = requests /\ faults' = faults
      /\ spoilt' = spoilt
  BY DEF Evict
<1>2. Shape /\ max_tbid \in Nat /\ Given' = Given /\ briefs' = briefs
  BY <1>1, ShapeBars DEF Given, atUser
<1>3. Shape'
  BY <1>1, <1>2 DEF Shape, BarsOK, UserOK, AskedOK, UpdatesOK, DropsOK, CountsOK, atUser
<1>4. /\ cached'[b] = None /\ \A c \in Tbids \ {b} : cached'[c] = cached[c]
  BY <1>1, <1>2 DEF Shape, BarsOK
<1>5. ASSUME NEW c \in Tbids \ spoilt PROVE Sound(c)'
  <2>1. Sound(c)
    BY <1>5 DEF IInv
  <2>2. Apart(c)' /\ DropsOnce(c)' /\ Sessions(c)' = Sessions(c)
    BY <1>1, <2>1 DEF Sound, Apart, DropsOnce, Sessions
  <2>3. \A v \in Users : Going(v, c)' = Going(v, c)
    BY <1>1 DEF Going
  <2>4. \A v \in Users : Comes(briefs'[v], updates'[v], v, c, Due(v, c))
    BY <1>1, <1>2, <2>1 DEF Sound
  <2>5. CASE c # b
    <3>1. GetTeaBar(c)' = GetTeaBar(c) /\ Exists(c)' = Exists(c) /\ Kept(c)'
      BY <1>1, <1>4, <2>1, <2>5, Unwritten DEF Sound
    <3> QED BY <1>2, <2>1, <2>2, <2>3, <2>4, <3>1, Steady DEF Shape
  <2>6. CASE c = b
    <3>1. /\ Kept(c)' /\ Exists(c)' /\ Exists(c)
          /\ GetTeaBar(c)'.master = GetTeaBar(c).master /\ GetTeaBar(c)'.users = GetTeaBar(c).users
      BY <1>1, <1>4, <2>1, <2>6 DEF Sound, Kept, Exists, GetTeaBar
    <3>2. Sessions(c)' = {}
      BY <1>1, <2>2, <2>6 DEF Sessions
    <3>3. \A v \in Users : On(v, c)' = On(v, c) /\ Due(v, c)' = Due(v, c)
      BY <2>3, <3>1 DEF On, Due
    <3>4. ASSUME NEW v \in Users
          PROVE  /\ LET d == IF Going(v, c)' THEN 1 ELSE 0 IN GetTeaBar(c)'.users[v] \in {d, d + 1}
                 /\ v = GetTeaBar(c)'.master => On(v, c)'
      BY <2>1, <2>3, <3>1, <3>3 DEF Sound
    <3>5. \A v \in Users : Comes(briefs'[v], updates'[v], v, c, Due(v, c)')
      BY <2>4, <3>3
    <3>6. \A t \in Sessions(c)' : Relies(t, c)'
      BY <3>2
    <3> QED BY <2>2, <3>1, <3>4, <3>5, <3>6 DEF Sound
  <2> QED BY <2>5, <2>6
<1> QED
  BY <1>1, <1>3, <1>5 DEF IInv

-----------------------------------------------------------------------------
(* The user server *)

(* A sequence with its elements in B is a sequence over B.                 *)
LEMMA ElementsIn ==
  ASSUME NEW A, NEW B, NEW s \in Seq(A), \A k \in DOMAIN s : s[k] \in B
  PROVE  s \in Seq(B)
<1>1. Len(s) \in Nat /\ DOMAIN s = 1 .. Len(s) /\ s \in [1 .. Len(s) -> A]
  BY LenProperties
<1>2. s \in [1 .. Len(s) -> B]
  BY <1>1
<1> QED BY <1>1, <1>2 DEF Seq

(* What a queue holds after its first message was taken.                   *)
LEMMA TailOf ==
  ASSUME UpdatesOK, NEW u \in Users, updates[u] # << >>,
         updates' = [updates EXCEPT ![u] = Tail(@)]
  PROVE  /\ Head(updates[u]) = updates[u][1] /\ 1 \in DOMAIN updates[u]
         /\ updates'[u] = Tail(updates[u]) /\ Tail(updates[u]) \in Seq(Update)
         /\ \A v \in Users \ {u} : updates'[v] = updates[v]
         /\ \A k \in DOMAIN updates'[u] : k + 1 \in DOMAIN updates[u] /\ updates'[u][k] = updates[u][k + 1]
                                          /\ k \in Nat /\ k >= 1
         /\ \A k \in DOMAIN updates[u] : k # 1 => k - 1 \in DOMAIN updates'[u]
                                                  /\ updates'[u][k - 1] = updates[u][k]
         /\ updates' \in [Users -> Seq(Update)]
<1> DEFINE q == updates[u]
<1>1. q \in Seq(Update) /\ SeqLen(q) /\ q # << >> /\ updates \in [Users -> Seq(Update)]
  BY QueueLen DEF UpdatesOK
<1>2. updates'[u] = Tail(q) /\ \A v \in Users \ {u} : updates'[v] = updates[v]
  BY <1>1
<1>3. updates' = [updates EXCEPT ![u] = Tail(q)]
  BY <1>1
<1> HIDE DEF q
<1>4. /\ Tail(q) \in Seq(Update) /\ Len(Tail(q)) = Len(q) - 1 /\ Head(q) = q[1]
      /\ \A k \in 1 .. Len(q) - 1 : Tail(q)[k] = q[k + 1]
  BY <1>1, HeadTailProperties
<1>5. DOMAIN Tail(q) = 1 .. Len(q) - 1 /\ Len(q) >= 1 /\ Len(q) \in Nat /\ DOMAIN q = 1 .. Len(q)
  BY <1>1, <1>4, LenProperties, EmptySeq DEF SeqLen
<1>6. updates' \in [Users -> Seq(Update)]
  BY <1>1, <1>3, <1>4
<1>7. \A k \in DOMAIN Tail(q) : k + 1 \in DOMAIN q /\ Tail(q)[k] = q[k + 1] /\ k \in Nat /\ k >= 1
  BY <1>4, <1>5
<1>8. \A k \in DOMAIN q : k # 1 => k - 1 \in DOMAIN Tail(q) /\ Tail(q)[k - 1] = q[k]
  <2> SUFFICES ASSUME NEW k \in DOMAIN q, k # 1 PROVE k - 1 \in DOMAIN Tail(q) /\ Tail(q)[k - 1] = q[k]
    OBVIOUS
  <2>1. k - 1 \in 1 .. Len(q) - 1 /\ (k - 1) + 1 = k
    BY <1>5
  <2> QED BY <2>1, <1>4, <1>5
<1>9. 1 \in DOMAIN q
  BY <1>5
<1> QED
  BY <1>2, <1>4, <1>6, <1>7, <1>8, <1>9 DEF q

(* The user server's handling of an update keeps IInv: the briefs show     *)
(* what the message led to, and the rest of the queue leads on from there. *)
LEMMA UpdateStep ==
  ASSUME IInv, NEW u \in Users, UpdateAtUser(u)
  PROVE  IInv'
<1>0. PICK m, w : m = Head(updates[u]) /\ w = [ briefs |-> briefs[u], chips |-> chips[u] ]
  OBVIOUS
<1>1. PICK new : new = AllDone(w, m.ops)
  OBVIOUS
<1>2. /\ updates[u] # << >> /\ updates' = [updates EXCEPT ![u] = Tail(@)]
      /\ \/ /\ Fits(new)
            /\ briefs' = [briefs EXCEPT ![u] = new.briefs] /\ chips' = [chips EXCEPT ![u] = new.chips]
            /\ spent' = IF m.kind = "cost" THEN spent + 1 ELSE spent
            /\ drops' = IF m.kind = "drop" /\ m.live THEN drops \cup {u} \X m.tbids ELSE drops
         \/ ~Fits(new) /\ briefs' = briefs /\ chips' = chips /\ spent' = spent /\ drops' = drops
      /\ max_tbid' = max_tbid /\ cached' = cached /\ stored' = stored
      /\ asked' = asked /\ requests' = requests /\ faults' = faults /\ spoilt' = spoilt
  BY <1>0, <1>1 DEF UpdateAtUser, bars
<1>3. Shape /\ max_tbid \in Nat /\ Given' = Given
  BY <1>2, ShapeBars DEF Given
<1>4. /\ m = updates[u][1] /\ 1 \in DOMAIN updates[u]
      /\ updates'[u] = Tail(updates[u])
      /\ \A v \in Users \ {u} : updates'[v] = updates[v]
      /\ \A k \in DOMAIN updates'[u] : k + 1 \in DOMAIN updates[u] /\ updates'[u][k] = updates[u][k + 1]
                                       /\ k \in Nat /\ k >= 1
      /\ \A k \in DOMAIN updates[u] : k # 1 => k - 1 \in DOMAIN updates'[u]
                                               /\ updates'[u][k - 1] = updates[u][k]
      /\ updates' \in [Users -> Seq(Update)]
  BY <1>0, <1>2, <1>3, TailOf DEF Shape
<1>5. MessageOK(m, Given)
  BY <1>3, <1>4 DEF Shape, UpdatesOK
<1>6. OpsTyped(m.ops, Given) /\ SeqLen(m.ops)
  BY <1>5, OpsTypedOK
<1>7. w \in Loose(Given) /\ Fits(w)
  <2>1. /\ briefs[u] \in Seq(Brief) /\ chips[u] \in Nat
        /\ \A k \in DOMAIN briefs[u] : briefs[u][k].tbid \in Given
    BY <1>3 DEF Shape, UserOK
  <2>2. \A k \in DOMAIN briefs[u] : briefs[u][k] \in Brief
    BY <2>1, LenProperties
  <2>3. \A k \in DOMAIN briefs[u] : briefs[u][k] \in LooseBrief(Given)
    BY <2>1, <2>2 DEF Brief, LooseBrief
  <2>4. briefs[u] \in Seq(LooseBrief(Given))
    BY <2>1, <2>3, ElementsIn
  <2>5. \A k \in DOMAIN briefs[u] : briefs[u][k].chips >= 0
    BY <2>2 DEF Brief
  <2> QED BY <1>0, <2>1, <2>4, <2>5 DEF Loose, Fits
<1>8. /\ new \in Loose(Given)
      /\ Fits(new) => \A v, b, x, y : Shows(w.briefs, v, b, x) /\ Leads(x, m.ops, v, b, y)
                                        => Shows(new.briefs, v, b, y)
  BY <1>1, <1>6, <1>7, MessageDone
(* A message that is refused takes chips.                                  *)
<1>9. ASSUME ~Fits(new)
      PROVE  m.kind \in {"put", "cost"} /\ \A k \in DOMAIN m.ops : m.ops[k].field \in {"bar", "purse"}
  <2>1. m.kind \in {"put", "cost"}
    <3>1. PICK k \in DOMAIN m.ops : ~(m.ops[k].field # "bar" /\ (m.ops[k].field = "purse" => m.ops[k].n \in Nat))
      BY <1>1, <1>6, <1>7, <1>9, MessageFits
    <3>2. OpOK(m.ops[k], m.kind, m.tbids)
      BY <1>5 DEF MessageOK
    <3> QED BY <3>1, <3>2 DEF OpOK
  <2>2. \A k \in DOMAIN m.ops : OpOK(m.ops[k], m.kind, m.tbids)
    BY <1>5 DEF MessageOK
  <2> QED BY <2>1, <2>2 DEF OpOK
<1>10. UserOK'
  <2>1. CASE ~Fits(new)
    BY <1>2, <1>3, <2>1 DEF Shape, UserOK
  <2>2. CASE Fits(new)
    <3>1. new.briefs \in Seq(LooseBrief(Given)) /\ new.chips \in Int
      BY <1>8 DEF Loose
    <3>2. ASSUME NEW k \in DOMAIN new.briefs PROVE new.briefs[k] \in Brief /\ new.briefs[k].tbid \in Given
      <4>1. new.briefs[k] \in LooseBrief(Given)
        BY <3>1, <3>2, LenProperties
      <4>2. new.briefs[k].chips >= 0 /\ Given \subseteq Tbids
        BY <2>2, <3>2, ShapeBars DEF Fits
      <4> QED BY <4>1, <4>2 DEF LooseBrief, Brief
    <3>3. new.briefs \in Seq(Brief)
      BY <3>1, <3>2, ElementsIn
    <3>4. new.chips \in Nat
      BY <2>2, <3>1 DEF Fits
    <3>9. /\ briefs' = [briefs EXCEPT ![u] = new.briefs] /\ chips' = [chips EXCEPT ![u] = new.chips]
          /\ spent' = IF m.kind = "cost" THEN spent + 1 ELSE spent
      BY <1>2, <2>2
    <3>10. briefs \in [Users -> Seq(Brief)] /\ chips \in [Users -> Nat] /\ spent \in Nat
      BY <1>3 DEF Shape, UserOK
    <3>11. briefs' \in [Users -> Seq(Brief)]
      BY <3>3, <3>9, <3>10
    <3>12. chips' \in [Users -> Nat]
      BY <3>4, <3>9, <3>10
    <3>13. spent' \in Nat
      BY <3>9, <3>10
    <3>5. briefs' \in [Users -> Seq(Brief)] /\ chips' \in [Users -> Nat] /\ spent' \in Nat
      BY <3>11, <3>12, <3>13
    <3>6. ASSUME NEW v \in Users, NEW k \in DOMAIN briefs'[v] PROVE briefs'[v][k].tbid \in Given
      <4>1. CASE v = u
        <5>1. briefs'[v] = new.briefs
          BY <1>2, <1>3, <2>2, <4>1 DEF Shape, UserOK
        <5> QED BY <3>2, <3>6, <5>1
      <4>2. CASE v # u
        <5>1. briefs'[v] = briefs[v]
          BY <1>2, <1>3, <2>2, <4>2 DEF Shape, UserOK
        <5> QED BY <1>3, <3>6, <5>1 DEF Shape, UserOK
      <4> QED BY <4>1, <4>2
    <3> QED BY <1>3, <3>5, <3>6 DEF UserOK
  <2> QED BY <2>1, <2>2
<1>11. UpdatesOK'
  <2>1. ASSUME NEW v \in Users, NEW k \in DOMAIN updates'[v] PROVE MessageOK(updates'[v][k], Given)
    <3>1. CASE v = u
      BY <1>3, <1>4, <2>1, <3>1 DEF Shape, UpdatesOK
    <3>2. CASE v # u
      BY <1>3, <1>4, <2>1, <3>2 DEF Shape, UpdatesOK
    <3> QED BY <3>1, <3>2
  <2> QED BY <1>3, <1>4, <2>1 DEF UpdatesOK
<1>12. /\ drops \subseteq drops' /\ drops' \subseteq drops \cup ({u} \X m.tbids)
       /\ \A b : (<< u, b >> \in drops' /\ << u, b >> \notin drops) => DropOf(m, b)
       /\ \A b : DropOf(m, b) /\ m.live => << u, b >> \in drops'
  <2>1. CASE Fits(new)
    BY <1>2, <2>1 DEF DropOf
  <2>2. CASE ~Fits(new)
    BY <1>2, <1>9, <2>2 DEF DropOf
  <2> QED BY <2>1, <2>2
<1>13. Shape'
  <2>1. BarsOK' /\ AskedOK' /\ CountsOK'
    BY <1>2, <1>3 DEF Shape, BarsOK, AskedOK, CountsOK
  <2>2. m.tbids \subseteq Given
    BY <1>5 DEF MessageOK
  <2>3. DropsOK'
    BY <1>3, <1>12, <2>2 DEF Shape, DropsOK
  <2> QED BY <1>10, <1>11, <2>1, <2>3 DEF Shape
<1>14. ASSUME NEW b \in Tbids \ spoilt PROVE Sound(b)'
  <2>1. Sound(b)
    BY <1>14 DEF IInv
  <2>2. Kept(b)' /\ GetTeaBar(b)' = GetTeaBar(b) /\ Exists(b)' = Exists(b)
    BY <1>2, <2>1, Unwritten DEF Sound
  <2>3. Apart(b)' /\ Sessions(b)' \subseteq Sessions(b)
    BY <1>2, <2>1 DEF Sound, Apart, Sessions
  <2>4. DropOf(m, b) => m.live
    BY <1>4, <2>1 DEF Sound, DropsOnce
  <2>5. \A v \in Users \ {u} : << v, b >> \in drops' <=> << v, b >> \in drops
    BY <1>12
  <2>6. ASSUME NEW v \in Users PROVE Going(v, b)' = Going(v, b)
    <3>1. CASE v # u
      BY <1>4, <2>5, <3>1 DEF Going
    <3>2. CASE v = u
      <4>1. ASSUME Going(u, b) PROVE Going(u, b)'
        <5>1. CASE << u, b >> \in drops
          BY <1>12, <5>1 DEF Going
        <5>2. ASSUME NEW k \in DOMAIN updates[u], DropOf(updates[u][k], b) PROVE Going(u, b)'
          <6>1. CASE k = 1
            BY <1>4, <1>12, <2>4, <5>2, <6>1 DEF Going
          <6>2. CASE k # 1
            <7>1. k - 1 \in DOMAIN updates'[u] /\ updates'[u][k - 1] = updates[u][k]
              BY <1>4, <6>2
            <7> QED BY <5>2, <7>1 DEF Going
          <6> QED BY <6>1, <6>2
        <5> QED BY <4>1, <5>1, <5>2 DEF Going
      <4>2. ASSUME Going(u, b)' PROVE Going(u, b)
        <5>1. CASE << u, b >> \in drops'
          BY <1>4, <1>12, <5>1 DEF Going
        <5>2. ASSUME NEW k \in DOMAIN updates'[u], DropOf(updates'[u][k], b) PROVE Going(u, b)
          BY <1>4, <5>2 DEF Going
        <5> QED BY <4>2, <5>1, <5>2 DEF Going
      <4>3. Going(u, b)' \in BOOLEAN /\ Going(u, b) \in BOOLEAN
        BY DEF Going
      <4> QED BY <3>2, <4>1, <4>2, <4>3
    <3> QED BY <3>1, <3>2
  <2>7. DropsOnce(b)'
    <3>1. ASSUME NEW v \in Users, NEW k \in DOMAIN updates'[v], DropOf(updates'[v][k], b)
          PROVE  /\ updates'[v][k].live /\ << v, b >> \notin drops'
                 /\ \A l \in DOMAIN updates'[v] : DropOf(updates'[v][l], b) => l = k
      <4>1. CASE v # u
        BY <1>4, <2>1, <2>5, <3>1, <4>1 DEF Sound, DropsOnce
      <4>2. CASE v = u
        <5>1. k + 1 \in DOMAIN updates[u] /\ updates'[u][k] = updates[u][k + 1] /\ k \in Nat /\ k + 1 # 1
          BY <1>4, <3>1, <4>2
        <5>2. /\ updates[u][k + 1].live /\ << u, b >> \notin drops
              /\ \A l \in DOMAIN updates[u] : DropOf(updates[u][l], b) => l = k + 1
          BY <2>1, <3>1, <4>2, <5>1 DEF Sound, DropsOnce
        <5>3. ~DropOf(m, b)
          BY <1>4, <5>1, <5>2
        <5>4. << u, b >> \notin drops'
          BY <1>12, <5>2, <5>3
        <5>5. ASSUME NEW l \in DOMAIN updates'[u], DropOf(updates'[u][l], b) PROVE l = k
          <6>1. l + 1 \in DOMAIN updates[u] /\ updates'[u][l] = updates[u][l + 1] /\ l \in Nat
            BY <1>4, <5>5
          <6>2. l + 1 = k + 1
            BY <5>2, <5>5, <6>1
          <6> QED BY <5>1, <6>1, <6>2
        <5> QED BY <4>2, <5>1, <5>2, <5>4, <5>5
      <4> QED BY <4>1, <4>2
    <3> QED BY <3>1 DEF DropsOnce
  <2>8. ASSUME NEW v \in Users PROVE Comes(briefs'[v], updates'[v], v, b, Due(v, b))
    <3>1. Comes(briefs[v], updates[v], v, b, Due(v, b))
      BY <2>1 DEF Sound
    <3>2. CASE v # u
      <4>1. briefs'[v] = briefs[v] /\ updates'[v] = updates[v]
        BY <1>2, <1>3, <1>4, <3>2 DEF Shape, UserOK
      <4> QED BY <3>1, <4>1
    <3>3. CASE v = u
      <4>1. updates[u] \in Seq(Update) /\ updates[u] # << >>
        BY <1>2, <1>3, QueueLen DEF Shape
      <4>2. PICK x, z \in Standing :
              /\ Shows(briefs[u], u, b, x) /\ Leads(x, m.ops, u, b, z)
              /\ \A t : Shows(t, u, b, z) => Comes(t, Tail(updates[u]), u, b, Due(u, b))
        BY <1>0, <3>1, <3>3, <4>1, ComesDone
      <4>3. Shows(briefs'[u], u, b, z)
        <5>1. CASE Fits(new)
          <6>1. briefs'[u] = new.briefs /\ w.briefs = briefs[u]
            BY <1>0, <1>2, <1>3, <5>1 DEF Shape, UserOK
          <6> QED BY <1>8, <4>2, <5>1, <6>1
        <5>2. CASE ~Fits(new)
          <6>1. x = z
            BY <1>6, <1>9, <4>2, <5>2, LeadsSteady
          <6> QED BY <1>2, <4>2, <5>2, <6>1
        <5> QED BY <5>1, <5>2
      <4> QED BY <1>4, <3>3, <4>2, <4>3
    <3> QED BY <3>2, <3>3
  <2> QED BY <1>3, <2>1, <2>2, <2>3, <2>6, <2>7, <2>8, Steady DEF Shape
<1> QED
  BY <1>2, <1>13, <1>14 DEF IInv

-----------------------------------------------------------------------------
(* Faults *)

(* Nobody waits for the updates any more: what they do is the same.        *)
LEMMA StillComes ==
  ASSUME UpdatesOK, NEW u \in Users, NEW b \in Tbids, NEW y, Comes(briefs[u], updates[u], u, b, y),
         DOMAIN updates'[u] = DOMAIN updates[u], updates'[u] \in Seq(Update),
         \A k \in DOMAIN updates[u] : updates'[u][k].ops = updates[u][k].ops, briefs' = briefs
  PROVE  Comes(briefs'[u], updates'[u], u, b, y)
<1>0. PICK q, r : q = updates[u] /\ r = updates'[u]
  OBVIOUS
<1>1. q \in Seq(Update) /\ SeqLen(q)
  BY <1>0, QueueLen
<1>2. SeqLen(r)
  BY <1>0, LenProperties DEF SeqLen
<1>3. Len(q) = Len(r)
  BY <1>0, <1>1, <1>2 DEF SeqLen
<1>4. \A k \in DOMAIN q : q[k].ops = r[k].ops
  BY <1>0
<1>5. Comes(briefs[u], q, u, b, y)
  BY <1>0
<1>6. Comes(briefs[u], r, u, b, y)
  BY <1>1, <1>2, <1>3, <1>4, <1>5, ComesSame
<1> QED BY <1>0, <1>6

(* A brief that is going is one of Dropping.                               *)
LEMMA DroppingGoing ==
  ASSUME NEW u \in Users, NEW b, Going(u, b)
  PROVE  b \in Dropping
<1>1. << "drop", b >> \in Working /\ << "drop", b >>[1] = "drop" /\ << "drop", b >>[2] = b
  BY WorkingDrop
<1> QED BY <1>1 DEF Dropping

(* A restart keeps IInv: where a drop was on its way its bar is spoilt,    *)
(* and everything else the bars rely on is in the store and in the queues. *)
LEMMA RestartStep ==
  ASSUME IInv, Restart
  PROVE  IInv'
<1>1. /\ faults < MaxFaults /\ faults' = faults + 1
      /\ cached' = [ b \in Tbids |-> None ]
      /\ asked' = [ i \in Slots |->
                      IF asked[i] # None /\ asked[i].kind = "cost" THEN asked[i] ELSE None ]
      /\ updates' = [ u \in Users |->
           [ k \in DOMAIN updates[u] |-> [updates[u][k] EXCEPT !.live = FALSE] ]]
      /\ drops' = {} /\ spoilt' = spoilt \cup Dropping
      /\ max_tbid' = max_tbid /\ stored' = stored /\ requests' = requests
      /\ briefs' = briefs /\ atUser' = atUser
  BY DEF Restart, atUser
<1>2. Shape /\ Given' = Given /\ UpdatesOK
  BY <1>1, ShapeBars DEF Given, Shape
<1>3. ASSUME NEW u \in Users
      PROVE  /\ DOMAIN updates'[u] = DOMAIN updates[u] /\ updates'[u] \in Seq(Update)
             /\ \A k \in DOMAIN updates[u] :
                  /\ updates'[u][k].ops = updates[u][k].ops
                  /\ updates'[u][k].kind = updates[u][k].kind
                  /\ updates'[u][k].tbids = updates[u][k].tbids
                  /\ MessageOK(updates'[u][k], Given)
  <2>0. PICK q : q = updates[u]
    OBVIOUS
  <2>1. q \in Seq(Update) /\ SeqLen(q)
    BY <1>2, <2>0, QueueLen
  <2>2. updates'[u] = [ k \in DOMAIN q |-> [q[k] EXCEPT !.live = FALSE] ]
    BY <1>1, <2>0
  <2>3. ASSUME NEW k \in DOMAIN q
        PROVE  /\ [q[k] EXCEPT !.live = FALSE] \in Update
               /\ [q[k] EXCEPT !.live = FALSE].ops = q[k].ops
               /\ [q[k] EXCEPT !.live = FALSE].kind = q[k].kind
               /\ [q[k] EXCEPT !.live = FALSE].tbids = q[k].tbids
    <3>1. q[k] \in Update
      BY <2>1, <2>3, LenProperties
    <3> QED BY <3>1 DEF Update
  <2>4. ASSUME NEW k \in DOMAIN q PROVE MessageOK([q[k] EXCEPT !.live = FALSE], Given)
    <3>1. MessageOK(q[k], Given)
      BY <1>2, <2>0, <2>4 DEF UpdatesOK
    <3> QED BY <2>3, <2>4, <3>1 DEF MessageOK
  <2>5. updates'[u] \in [1 .. Len(q) -> Update]
    BY <2>1, <2>2, <2>3 DEF SeqLen
  <2>6. updates'[u] \in Seq(Update)
    BY <2>1, <2>5 DEF SeqLen, Seq
  <2> QED BY <2>0, <2>2, <2>3, <2>4, <2>6
<1>4. Shape'
  <2>1. BarsOK' /\ UserOK'
    BY <1>1, <1>2 DEF Shape, BarsOK, UserOK, atUser
  <2>2. AskedOK'
    BY <1>1, <1>2 DEF Shape, AskedOK
  <2>3. updates' \in [Users -> Seq(Update)]
    <3>1. DOMAIN updates' = Users /\ updates' = [ u \in Users |-> updates'[u] ]
      BY <1>1
    <3>2. \A u \in Users : updates'[u] \in Seq(Update)
      BY <1>3
    <3> QED BY <3>1, <3>2
  <2>4. UpdatesOK'
    BY <1>2, <1>3, <2>3 DEF UpdatesOK
  <2>5. DropsOK'
    BY <1>1 DEF DropsOK
  <2>6. spoilt' \subseteq Tbids
    <3> SUFFICES ASSUME NEW w \in Working PROVE w[2] \in Tbids
      BY <1>1, <1>2 DEF Shape, CountsOK, Dropping
    <3>1. ASSUME NEW i \in { j \in Slots : asked[j] # None }, NEW x \in {asked[i].kind} \X asked[i].tbids
          PROVE  x[2] \in Tbids
      BY <1>2, <3>1, ShapeBars DEF Shape, AskedOK, SlotOK
    <3>2. ASSUME NEW u \in Users, NEW k \in DOMAIN updates[u],
                 NEW x \in {updates[u][k].kind} \X updates[u][k].tbids
          PROVE  x[2] \in Tbids
      BY <1>2, <3>2, ShapeBars DEF UpdatesOK, MessageOK
    <3>3. ASSUME NEW x \in {"drop"} \X { d[2] : d \in drops } PROVE x[2] \in Tbids
      BY <1>2, <3>3, ShapeBars DEF Shape, DropsOK
    <3> QED BY <3>1, <3>2, <3>3 DEF Working
  <2>7. CountsOK'
    BY <1>1, <1>2, <2>6, TeaBarAssumption DEF Shape, CountsOK
  <2> QED BY <2>1, <2>2, <2>4, <2>5, <2>7 DEF Shape
<1>5. \A i \in Slots : asked'[i] = asked[i] \/ asked'[i] = None
  BY <1>1
<1>6. ASSUME NEW b \in Tbids \ spoilt' PROVE Sound(b)'
  <2>1. Sound(b) /\ b \notin Dropping
    BY <1>1, <1>6 DEF IInv
  <2>2. \A u \in Users : ~Going(u, b)
    BY <2>1, DroppingGoing
  <2>3. Apart(b)'
    BY <1>5, <2>1, ApartLess DEF Sound
  <2>4. \A u \in Users : \A k \in DOMAIN updates'[u] : ~DropOf(updates'[u][k], b)
    BY <1>3, <2>2 DEF Going, DropOf
  <2>5. DropsOnce(b)' /\ \A u \in Users : ~Going(u, b)'
    BY <1>1, <2>4 DEF DropsOnce, Going
  <2>6. \A u \in Users : Going(u, b)' = Going(u, b)
    BY <2>2, <2>5 DEF Going
  <2>7. GetTeaBar(b)' = stored[b] /\ Kept(b)'
    BY <1>1 DEF GetTeaBar, Kept
  <2>8. /\ Exists(b)' = Exists(b)
        /\ Exists(b) => /\ GetTeaBar(b)'.master = GetTeaBar(b).master
                        /\ GetTeaBar(b)'.users = GetTeaBar(b).users
    BY <2>1, <2>7 DEF Sound, Kept, Exists, GetTeaBar
  <2>9. \A u \in Users : On(u, b)' = On(u, b)
    BY <2>6, <2>8 DEF On
  <2>10. \A u \in Users : Due(u, b)' = Due(u, b)
    BY <2>8, <2>9 DEF Due, On
  <2>11. ASSUME NEW u \in Users PROVE Comes(briefs'[u], updates'[u], u, b, Due(u, b)')
    <3>1. Comes(briefs[u], updates[u], u, b, Due(u, b))
      BY <2>1 DEF Sound
    <3>2. Comes(briefs'[u], updates'[u], u, b, Due(u, b))
      <4>1. PICK y : y = Due(u, b)
        OBVIOUS
      <4>2. /\ DOMAIN updates'[u] = DOMAIN updates[u] /\ updates'[u] \in Seq(Update)
            /\ \A k \in DOMAIN updates[u] : updates'[u][k].ops = updates[u][k].ops
        BY <1>3
      <4>3. b \in Tbids /\ UpdatesOK /\ briefs' = briefs
        BY <1>1, <1>2
      <4>4. Comes(briefs[u], updates[u], u, b, y)
        BY <3>1, <4>1
      <4>5. Comes(briefs'[u], updates'[u], u, b, y)
        BY <4>2, <4>3, <4>4, StillComes
      <4> QED BY <4>1, <4>5
    <3> QED BY <2>10, <3>2
  <2>12. ASSUME Exists(b)', NEW u \in Users
         PROVE  /\ LET d == IF Going(u, b)' THEN 1 ELSE 0 IN GetTeaBar(b)'.users[u] \in {d, d + 1}
                /\ u = GetTeaBar(b)'.master => On(u, b)'
    BY <2>1, <2>6, <2>8, <2>9, <2>12 DEF Sound
  <2>13. ASSUME Exists(b)', NEW t \in Sessions(b)' PROVE Relies(t, b)'
    <3>1. t.kind = "cost" /\ t \in Sessions(b)
      <4>1. PICK i \in Slots : asked'[i] # None /\ b \in asked'[i].tbids /\ t = asked'[i]
        BY <2>13 DEF Sessions
      <4>2. asked'[i] = asked[i] /\ asked[i] # None /\ asked[i].kind = "cost"
        BY <1>1, <4>1
      <4> QED BY <4>1, <4>2 DEF Sessions
    <3>2. Relies(t, b)
      BY <2>1, <2>8, <2>13, <3>1 DEF Sound
    <3>3. GetTeaBar(b)'.master = GetTeaBar(b).master
      BY <2>8, <2>13
    <3> QED BY <3>1, <3>2, <3>3, ReliesFew
  <2> QED BY <2>3, <2>5, <2>7, <2>11, <2>12, <2>13 DEF Sound
<1> QED
  BY <1>4, <1>6 DEF IInv

(* A timeout of the sessions keeps IInv.                                   *)
LEMMA TimeoutStep ==
  ASSUME IInv, SessionTimeout
  PROVE  IInv'
<1>1. /\ faults < MaxFaults /\ faults' = faults + 1
      /\ max_tbid' = max_tbid /\ cached' = cached /\ stored' = stored
      /\ briefs' = briefs /\ atUser' = atUser /\ drops' = drops /\ requests' = requests
  BY DEF SessionTimeout, bars, atUser
<1>2. Shape /\ Given' = Given /\ UpdatesOK
  BY <1>1, ShapeBars DEF Given, Shape
<1>3. BarsOK' /\ UserOK' /\ DropsOK'
  BY <1>1, <1>2 DEF Shape, BarsOK, UserOK, DropsOK, atUser
<1>4. CASE /\ \E i \in Slots : asked[i] # None /\ asked' = [asked EXCEPT ![i] = None]
           /\ updates' = updates /\ spoilt' = spoilt
  <2>1. PICK i \in Slots : asked' = [asked EXCEPT ![i] = None]
    BY <1>4
  <2>2. \A j \in Slots : asked'[j] = asked[j] \/ asked'[j] = None
    BY <1>2, <2>1 DEF Shape, AskedOK
  <2>3. asked' \in [Slots -> Asked \cup {None}]
    BY <1>2, <2>1 DEF Shape, AskedOK
  <2>4. AskedOK'
    BY <1>2, <2>2, <2>3 DEF Shape, AskedOK
  <2>5. UpdatesOK' /\ CountsOK'
    BY <1>1, <1>2, <1>4, TeaBarAssumption DEF Shape, UpdatesOK, CountsOK
  <2>6. ASSUME NEW b \in Tbids \ spoilt PROVE Sound(b)'
    <3>1. Sound(b)
      BY DEF IInv
    <3> QED BY <1>1, <1>2, <1>4, <2>2, <3>1, TurnedSteady DEF Shape
  <2> QED BY <1>3, <1>4, <2>4, <2>5, <2>6 DEF IInv, Shape
<1>5. ASSUME NEW u \in Users, NEW k \in DOMAIN updates[u],
             updates' = [updates EXCEPT ![u][k].live = FALSE],
             spoilt' = spoilt \cup IF updates[u][k].kind = "drop" THEN updates[u][k].tbids ELSE {},
             asked' = asked
      PROVE  IInv'
  <2>0. PICK q, m : q = updates[u] /\ m = q[k]
    OBVIOUS
  <2>1. q \in Seq(Update) /\ SeqLen(q) /\ m \in Update /\ MessageOK(m, Given) /\ k \in DOMAIN q
    <3>1. q \in Seq(Update) /\ SeqLen(q)
      BY <1>2, <2>0, QueueLen
    <3>2. m \in Update
      BY <1>5, <2>0, <3>1, LenProperties
    <3> QED BY <1>2, <1>5, <2>0, <3>1, <3>2 DEF UpdatesOK
  <2>2. PICK n : n = [m EXCEPT !.live = FALSE]
    OBVIOUS
  <2>3. n \in Update /\ n.ops = m.ops /\ n.kind = m.kind /\ n.tbids = m.tbids
    BY <2>1, <2>2 DEF Update
  <2>4. updates' = [updates EXCEPT ![u] = [q EXCEPT ![k] = n]]
    BY <1>5, <2>0, <2>2
  <2>5. updates'[u] = [q EXCEPT ![k] = n] /\ \A v \in Users \ {u} : updates'[v] = updates[v]
    BY <1>2, <2>4 DEF UpdatesOK
  <2>6. /\ DOMAIN updates'[u] = DOMAIN q /\ updates'[u][k] = n
        /\ \A l \in DOMAIN q : l # k => updates'[u][l] = q[l]
    BY <2>1, <2>5
  <2>7. updates'[u] \in Seq(Update)
    <3>1. q \in [1 .. Len(q) -> Update]
      BY <2>1, LenProperties
    <3>2. updates'[u] \in [1 .. Len(q) -> Update]
      BY <2>3, <2>5, <3>1
    <3> QED BY <2>1, <3>2 DEF SeqLen, Seq
  <2>8. \A v \in Users :
          /\ DOMAIN updates'[v] = DOMAIN updates[v] /\ updates'[v] \in Seq(Update)
          /\ \A l \in DOMAIN updates[v] :
               /\ updates'[v][l].ops = updates[v][l].ops
               /\ updates'[v][l].kind = updates[v][l].kind
               /\ updates'[v][l].tbids = updates[v][l].tbids
               /\ MessageOK(updates'[v][l], Given)
    <3> SUFFICES ASSUME NEW v \in Users
                 PROVE  /\ DOMAIN updates'[v] = DOMAIN updates[v] /\ updates'[v] \in Seq(Update)
                        /\ \A l \in DOMAIN updates[v] :
                             /\ updates'[v][l].ops = updates[v][l].ops
                             /\ updates'[v][l].kind = updates[v][l].kind
                             /\ updates'[v][l].tbids = updates[v][l].tbids
                             /\ MessageOK(updates'[v][l], Given)
      OBVIOUS
    <3>1. CASE v # u
      BY <1>2, <2>5, <3>1 DEF UpdatesOK
    <3>2. CASE v = u
      <4>1. \A l \in DOMAIN q : MessageOK(q[l], Given)
        BY <1>2, <2>0 DEF UpdatesOK
      <4>2. MessageOK(n, Given)
        BY <2>1, <2>3 DEF MessageOK
      <4>3. \A l \in DOMAIN q : /\ updates'[u][l].ops = q[l].ops /\ updates'[u][l].kind = q[l].kind
                                /\ updates'[u][l].tbids = q[l].tbids /\ MessageOK(updates'[u][l], Given)
        BY <2>0, <2>3, <2>6, <4>1, <4>2
      <4> QED BY <2>0, <2>6, <2>7, <3>2, <4>3
    <3> QED BY <3>1, <3>2
  <2>9. UpdatesOK'
    <3>1. updates' \in [Users -> Seq(Update)]
      <4>1. updates \in [Users -> Seq(Update)] /\ [q EXCEPT ![k] = n] \in Seq(Update)
        BY <1>2, <2>5, <2>7 DEF UpdatesOK
      <4> QED BY <2>4, <4>1
    <3> QED BY <1>2, <2>8, <3>1 DEF UpdatesOK
  <2>10. Shape'
    <3>1. AskedOK'
      BY <1>2, <1>5 DEF Shape, AskedOK
    <3>2. m.tbids \subseteq Tbids
      BY <2>1, ShapeBars DEF MessageOK
    <3>3. spoilt' \subseteq Tbids
      BY <1>2, <1>5, <2>0, <3>2 DEF Shape, CountsOK
    <3>4. CountsOK'
      BY <1>1, <1>2, <3>3, TeaBarAssumption DEF Shape, CountsOK
    <3> QED BY <1>3, <2>9, <3>1, <3>4 DEF Shape
  <2>11. ASSUME NEW b \in Tbids \ spoilt' PROVE Sound(b)'
    <3>1. Sound(b) /\ ~DropOf(m, b)
      BY <1>5, <2>0, <2>11 DEF IInv, DropOf
    <3>2. GetTeaBar(b)' = GetTeaBar(b) /\ Exists(b)' = Exists(b) /\ Kept(b)'
      BY <1>1, <3>1, Unwritten DEF Sound
    <3>3. Apart(b)' /\ Sessions(b)' \subseteq Sessions(b)
      BY <1>5, <3>1 DEF Sound, Apart, Sessions
    <3>4. \A v \in Users : \A l \in DOMAIN updates[v] :
            DropOf(updates'[v][l], b) = DropOf(updates[v][l], b)
      BY <2>8 DEF DropOf
    <3>5. \A v \in Users : Going(v, b)' = Going(v, b)
      BY <1>1, <2>8, <3>4 DEF Going
    <3>6. DropsOnce(b)'
      <4>1. ASSUME NEW v \in Users, NEW l \in DOMAIN updates'[v], DropOf(updates'[v][l], b)
            PROVE  /\ updates'[v][l].live /\ << v, b >> \notin drops'
                   /\ \A j \in DOMAIN updates'[v] : DropOf(updates'[v][j], b) => j = l
        <5>1. l \in DOMAIN updates[v] /\ DropOf(updates[v][l], b)
          BY <2>8, <3>4, <4>1
        <5>2. updates'[v][l] = updates[v][l]
          <6>1. CASE v = u
            <7>1. l # k
              BY <2>0, <3>1, <5>1, <6>1
            <7> QED BY <2>0, <2>6, <5>1, <6>1, <7>1
          <6>2. CASE v # u
            BY <2>5, <6>2
          <6> QED BY <6>1, <6>2
        <5>3. /\ updates[v][l].live /\ << v, b >> \notin drops
              /\ \A j \in DOMAIN updates[v] : DropOf(updates[v][j], b) => j = l
          BY <3>1, <5>1 DEF Sound, DropsOnce
        <5> QED BY <1>1, <2>8, <3>4, <5>2, <5>3
      <4> QED BY <4>1 DEF DropsOnce
    <3>7. ASSUME NEW v \in Users PROVE Comes(briefs'[v], updates'[v], v, b, Due(v, b))
      <4>1. Comes(briefs[v], updates[v], v, b, Due(v, b))
        BY <3>1 DEF Sound
      <4>2. PICK y : y = Due(v, b)
        OBVIOUS
      <4> QED BY <1>1, <1>2, <2>8, <4>1, <4>2, StillComes
    <3> QED BY <1>2, <3>1, <3>2, <3>3, <3>5, <3>6, <3>7, Steady DEF Shape
  <2> QED BY <2>10, <2>11 DEF IInv
<1> QED
  BY <1>4, <1>5 DEF SessionTimeout

-----------------------------------------------------------------------------
(* Requests *)

(* A bar that is left alone, and with it what sessions rely on.            *)
LEMMA LeftAlone ==
  ASSUME NEW b, cached' = cached, stored' = stored, updates' = updates, drops' = drops
  PROVE  /\ GetTeaBar(b)' = GetTeaBar(b) /\ Exists(b)' = Exists(b)
         /\ Kept(b)' = Kept(b) /\ DropsOnce(b)' = DropsOnce(b)
         /\ \A u \in Users : /\ Going(u, b)' = Going(u, b) /\ On(u, b)' = On(u, b)
                             /\ Due(u, b)' = Due(u, b)
<1>1. GetTeaBar(b)' = GetTeaBar(b) /\ Exists(b)' = Exists(b)
  BY DEF GetTeaBar, Exists
<1>2. Kept(b)' = Kept(b) /\ DropsOnce(b)' = DropsOnce(b)
  BY DEF Kept, DropsOnce
<1>3. \A u \in Users : Going(u, b)' = Going(u, b)
  BY DEF Going
<1>4. \A u \in Users : On(u, b)' = On(u, b)
  BY <1>1, <1>3 DEF On
<1>5. \A u \in Users : Due(u, b)' = Due(u, b)
  BY <1>1, <1>4 DEF Due
<1> QED BY <1>1, <1>2, <1>3, <1>4, <1>5

(* A user whose updates are done has what he is to have.                   *)
LEMMA ShowsNow ==
  ASSUME NEW b \in Tbids, Sound(b), NEW u \in Users, updates[u] = << >>
  PROVE  Shows(briefs[u], u, b, Due(u, b))
<1>1. Comes(briefs[u], << >>, u, b, Due(u, b))
  BY DEF Sound
<1> QED BY <1>1, ComesEmpty

(* A session that has just asked relies on what it is about to read.       *)
LEMMA AskRelies ==
  ASSUME NEW s, NEW b \in Tbids, Sound(b), s.by \in Users, s.who \in Users,
         updates[s.by] = << >>, updates[s.who] = << >>,
         s.seen[s.by] = briefs[s.by], s.seen[s.who] = briefs[s.who],
         \A w \in Working : w[2] = b => {s.kind, w[1]} \notin Conflicts,
         s.kind \in {"drop", "list"} => Has(briefs[s.by], b),
         s.kind = "remove" => s.who # GetTeaBar(b).master,
         s.kind = "put" => s.by = GetTeaBar(b).master
  PROVE  Relies(s, b)
<1>1. /\ Shows(s.seen[s.by], s.by, b, Due(s.by, b))
      /\ Shows(s.seen[s.who], s.who, b, Due(s.who, b))
  BY ShowsNow
<1>2. /\ Has(s.seen[s.by], b) <=> On(s.by, b)
      /\ \A k \in DOMAIN s.seen[s.by] :
           s.seen[s.by][k].tbid = b /\ (s.seen[s.by][k].chips > 0 \/ s.seen[s.by][k].master = s.by)
             => Exists(b) /\ GetTeaBar(b).master = s.by
  BY <1>1, ShowsDue
<1>3. Has(s.seen[s.who], b) <=> On(s.who, b)
  BY <1>1, ShowsDue
<1>4. ASSUME s.kind \in {"drop", "remove", "transfer"}, NEW u \in Users PROVE ~Going(u, b)
  <2>1. {s.kind, "drop"} \in Conflicts
    BY <1>4, Clashes
  <2>2. ASSUME Going(u, b) PROVE FALSE
    <3>1. << "drop", b >> \in Working /\ << "drop", b >>[1] = "drop" /\ << "drop", b >>[2] = b
      BY <2>2, WorkingDrop
    <3> QED BY <2>1, <3>1
  <2> QED BY <2>2
<1>5. s.kind = "agree" => (s.who \in GetTeaBar(b).applied /\ ~Has(s.seen[s.who], b) => ~On(s.who, b))
  BY <1>3
<1>6. s.kind = "drop" => On(s.by, b) /\ ~Going(s.by, b)
  BY <1>2, <1>4
<1>7. s.kind = "list" => On(s.by, b)
  BY <1>2
<1>8. s.kind = "remove" => /\ s.who # GetTeaBar(b).master /\ ~Going(s.who, b)
                           /\ Has(s.seen[s.who], b) \/ ~On(s.who, b)
  BY <1>3, <1>4
<1>9. s.kind = "transfer" =>
        \A u \in {s.by, s.who} : ~Going(u, b) /\ Shows(s.seen[u], u, b, Due(u, b))
  BY <1>1, <1>4
<1>10. s.kind = "cost" =>
        \A k \in DOMAIN s.seen[s.by] :
          s.seen[s.by][k].tbid = b /\ s.seen[s.by][k].chips > 0 => s.by = GetTeaBar(b).master
  BY <1>2
<1> QED BY <1>5, <1>6, <1>7, <1>8, <1>9, <1>10 DEF Relies

(* What a request asks for, and what was checked before.                   *)
MayAsk(kind, by, who, tbids, n) ==
  /\ kind \in Kinds /\ who \in Users /\ tbids \in SUBSET Given /\ n \in {-1, 0, 1}
  /\ kind \notin {"create", "list", "transfer"} => \E b : tbids = {b}
  /\ kind = "transfer" => by # who /\ \A k \in DOMAIN briefs[by] : briefs[by][k].tbid \in tbids
  /\ kind \in {"drop", "list", "cost"} => \A b \in tbids : Has(briefs[by], b)
  /\ kind = "remove" => \A b \in tbids : who # GetTeaBar(b).master
  /\ kind = "put" => \A b \in tbids : Exists(b) /\ by = GetTeaBar(b).master

(* A request that comes to wait keeps IInv: what it relies on is true of   *)
(* the briefs and the bar as it asks, and it asks only where no            *)
(* conflicting session waits.                                              *)
LEMMA AskStep ==
  ASSUME IInv, NEW kind, NEW by \in Users, NEW who, NEW tbids, NEW n,
         MayAsk(kind, by, who, tbids, n), Ask(kind, by, who, tbids, n)
  PROVE  IInv'
<1> USE DEF MayAsk
<1>0. PICK clash : clash = { b \in tbids : \E w \in Working : w[2] = b /\ {kind, w[1]} \in Conflicts }
  OBVIOUS
<1>00. PICK seen, purse : /\ seen = [ u \in Users |-> IF u \in {by, who} THEN briefs[u] ELSE << >> ]
                          /\ purse = IF kind = "put" THEN chips[by] ELSE 0
  OBVIOUS
<1>01. PICK s : s = [ kind |-> kind, by |-> by, who |-> who, tbids |-> tbids, n |-> n,
                      seen |-> seen, purse |-> purse ]
  OBVIOUS
<1>1. /\ requests < MaxRequests /\ requests' = requests + 1
      /\ updates[by] = << >> /\ updates[who] = << >>
      /\ spoilt' = spoilt \cup clash
      /\ max_tbid' = max_tbid /\ cached' = cached /\ stored' = stored
      /\ briefs' = briefs /\ atUser' = atUser /\ updates' = updates /\ drops' = drops /\ faults' = faults
  BY <1>0 DEF Ask, bars, atUser
<1>2. PICK i \in Slots : asked[i] = None /\ asked' = [asked EXCEPT ![i] = s]
  BY <1>00, <1>01 DEF Ask
<1>3. Shape /\ Given' = Given /\ Given \subseteq Tbids
  BY <1>1, ShapeBars DEF Given
<1>4. s \in Asked /\ SlotOK(s, Given)
  <2>1. seen \in [Users -> Seq(Brief)]
    <3>1. \A u \in Users : briefs[u] \in Seq(Brief) /\ << >> \in Seq(Brief)
      BY <1>3 DEF Shape, UserOK
    <3> QED BY <1>00, <3>1
  <2>2. purse \in Nat
    BY <1>00, <1>3 DEF Shape, UserOK
  <2>3. tbids \in SUBSET Tbids
    BY <1>3
  <2>4. s \in Asked
    BY <1>01, <2>1, <2>2, <2>3 DEF Asked
  <2>5. seen[by] = briefs[by]
    BY <1>00
  <2>6. SlotOK(s, Given)
    BY <1>01, <2>4, <2>5 DEF SlotOK
  <2> QED BY <2>4, <2>6
<1>5. asked'[i] = s /\ \A j \in Slots : j # i => asked'[j] = asked[j]
  BY <1>2, <1>3 DEF Shape, AskedOK
<1>6. Shape'
  <2>1. BarsOK' /\ UserOK' /\ UpdatesOK' /\ DropsOK'
    BY <1>1, <1>3 DEF Shape, BarsOK, UserOK, UpdatesOK, DropsOK, atUser
  <2>2. asked' \in [Slots -> Asked \cup {None}]
    BY <1>2, <1>3, <1>4 DEF Shape, AskedOK
  <2>3. AskedOK'
    BY <1>3, <1>4, <1>5, <2>2 DEF Shape, AskedOK
  <2>4. clash \subseteq Tbids
    BY <1>0, <1>3
  <2>5. CountsOK'
    BY <1>1, <1>3, <2>4, TeaBarAssumption DEF Shape, CountsOK
  <2> QED BY <2>1, <2>3, <2>5 DEF Shape
<1>7. ASSUME NEW b \in Tbids \ spoilt' PROVE Sound(b)'
  <2>1. Sound(b)
    BY <1>1, <1>7 DEF IInv
  <2>2. b \in tbids => \A w \in Working : w[2] = b => {kind, w[1]} \notin Conflicts
    BY <1>0, <1>1, <1>7
  <2>3. /\ GetTeaBar(b)' = GetTeaBar(b) /\ Exists(b)' = Exists(b)
        /\ Kept(b)' = Kept(b) /\ DropsOnce(b)' = DropsOnce(b)
        /\ \A u \in Users : /\ Going(u, b)' = Going(u, b) /\ On(u, b)' = On(u, b)
                            /\ Due(u, b)' = Due(u, b)
    BY <1>1, LeftAlone
  <2>4. Apart(b)'
    <3>1. ASSUME b \in tbids, NEW j \in Slots, asked[j] # None, b \in asked[j].tbids
          PROVE  {kind, asked[j].kind} \notin Conflicts
      <4>1. << asked[j].kind, b >> \in Working
            /\ << asked[j].kind, b >>[1] = asked[j].kind /\ << asked[j].kind, b >>[2] = b
        BY <3>1, WorkingSlot
      <4> QED BY <2>2, <3>1, <4>1
    <3>2. ASSUME NEW j \in Slots, NEW k \in Slots, j # k, asked'[j] # None, asked'[k] # None,
                 b \in asked'[j].tbids, b \in asked'[k].tbids
          PROVE  {asked'[j].kind, asked'[k].kind} \notin Conflicts
      <4>1. CASE j # i /\ k # i
        BY <1>5, <2>1, <3>2, <4>1 DEF Sound, Apart
      <4>2. CASE j = i
        <5>1. asked'[j] = s /\ asked'[k] = asked[k] /\ s.kind = kind /\ s.tbids = tbids
          BY <1>01, <1>5, <3>2, <4>2
        <5> QED BY <3>1, <3>2, <5>1
      <4>3. CASE k = i
        <5>1. asked'[k] = s /\ asked'[j] = asked[j] /\ s.kind = kind /\ s.tbids = tbids
          BY <1>01, <1>5, <3>2, <4>3
        <5>2. {asked[j].kind, kind} = {kind, asked[j].kind}
          OBVIOUS
        <5> QED BY <3>1, <3>2, <5>1, <5>2
      <4> QED BY <4>1, <4>2, <4>3
    <3> QED BY <3>2 DEF Apart
  <2>5. ASSUME NEW u \in Users PROVE Comes(briefs'[u], updates'[u], u, b, Due(u, b)')
    <3>1. Comes(briefs[u], updates[u], u, b, Due(u, b))
      BY <2>1 DEF Sound
    <3> QED BY <1>1, <2>3, <3>1
  <2>6. ASSUME Exists(b)', NEW u \in Users
        PROVE  /\ LET d == IF Going(u, b)' THEN 1 ELSE 0 IN GetTeaBar(b)'.users[u] \in {d, d + 1}
               /\ u = GetTeaBar(b)'.master => On(u, b)'
    BY <2>1, <2>3, <2>6 DEF Sound
  <2>7. ASSUME Exists(b)', NEW t \in Sessions(b)' PROVE Relies(t, b)'
    <3>1. t \in Asked /\ Relies(t, b)
      <4>1. PICK j \in Slots : asked'[j] # None /\ b \in asked'[j].tbids /\ t = asked'[j]
        BY <2>7 DEF Sessions
      <4>2. CASE j = i
        <5>1. /\ t = s /\ b \in tbids /\ s.by = by /\ s.who = who /\ s.kind = kind
              /\ s.seen[by] = briefs[by] /\ s.seen[who] = briefs[who]
          BY <1>00, <1>01, <1>5, <4>1, <4>2
        <5>2. \A w \in Working : w[2] = b => {s.kind, w[1]} \notin Conflicts
          BY <2>2, <5>1
        <5>3. /\ s.kind \in {"drop", "list"} => Has(briefs[s.by], b)
              /\ s.kind = "remove" => s.who # GetTeaBar(b).master
              /\ s.kind = "put" => s.by = GetTeaBar(b).master
          BY <5>1
        <5>4. s.by \in Users /\ s.who \in Users /\ updates[s.by] = << >> /\ updates[s.who] = << >>
              /\ s.seen[s.by] = briefs[s.by] /\ s.seen[s.who] = briefs[s.who]
          BY <1>1, <5>1
        <5>5. Relies(s, b)
          BY <2>1, <5>2, <5>3, <5>4, AskRelies
        <5> QED BY <1>4, <5>1, <5>5
      <4>3. CASE j # i
        <5>1. t \in Sessions(b)
          BY <1>5, <4>1, <4>3 DEF Sessions
        <5> QED BY <1>3, <2>1, <2>3, <2>7, <5>1, SessionsAsked DEF Sound, Shape
      <4> QED BY <4>2, <4>3
    <3>2. \A v \in Users : v \in GetTeaBar(b)'.applied => v \in GetTeaBar(b).applied \/ ~On(v, b)
      BY <2>3
    <3>3. Exists(b) /\ GetTeaBar(b)'.master = GetTeaBar(b).master
          /\ \A v \in Users : On(v, b)' = On(v, b) /\ (Going(v, b)' => Going(v, b))
      BY <2>3, <2>7
    <3> QED BY <2>7, <3>1, <3>2, <3>3, ReliesKept
  <2>8. Kept(b)' /\ DropsOnce(b)'
    BY <2>1, <2>3 DEF Sound
  <2> QED BY <2>4, <2>5, <2>6, <2>7, <2>8 DEF Sound
<1> QED
  BY <1>6, <1>7 DEF IInv

(* The briefs of a user are about bars that were given.                    *)
LEMMA BriefsGiven ==
  ASSUME IInv, NEW u \in Users
  PROVE  /\ TbidsOf(briefs[u]) \subseteq Given
         /\ \A b \in TbidsOf(briefs[u]) : Has(briefs[u], b)
         /\ \A b : Has(briefs[u], b) => b \in Given
         /\ \A k \in DOMAIN briefs[u] : briefs[u][k].tbid \in TbidsOf(briefs[u])
<1>1. \A k \in DOMAIN briefs[u] : briefs[u][k].tbid \in Given
  BY ShapeBars DEF Shape, UserOK
<1> QED BY <1>1 DEF TbidsOf, Has

(* A user makes a request.                                                 *)
Requests(u) ==
  \/ RequestCreate(u) \/ RequestList(u)
  \/ \E v \in Users : RequestTransfer(u, v)
  \/ \E b \in Tbids :
       \/ RequestApply(u, b) \/ RequestDrop(u, b) \/ RequestFree(u, b)
       \/ RequestCost(u, b) \/ \E n \in {-1, 1} : RequestPut(u, b, n)
       \/ \E v \in Users : \/ RequestRemove(u, v, b)
                           \/ \E yes \in BOOLEAN : RequestAgree(u, v, b, yes)

(* Every request asks for something it may.                                *)
LEMMA RequestAsks ==
  ASSUME IInv, NEW u \in Users, Requests(u)
  PROVE  \E kind, who, tbids, n : MayAsk(kind, u, who, tbids, n) /\ Ask(kind, u, who, tbids, n)
<1>0. BarsOK /\ {} \in SUBSET Given /\ 0 \in {-1, 0, 1}
  BY ShapeBars DEF Shape
<1>1. CASE RequestCreate(u)
  <2>1. Ask("create", u, u, {}, 0)
    BY <1>1 DEF RequestCreate
  <2>2. MayAsk("create", u, u, {}, 0)
    BY <1>0 DEF MayAsk, Kinds
  <2> QED BY <2>1, <2>2
<1>2. CASE RequestList(u)
  <2>1. Ask("list", u, u, TbidsOf(briefs[u]), 0)
    BY <1>2 DEF RequestList
  <2>2. MayAsk("list", u, u, TbidsOf(briefs[u]), 0)
    BY <1>0, BriefsGiven DEF MayAsk, Kinds
  <2> QED BY <2>1, <2>2
<1>3. ASSUME NEW v \in Users, RequestTransfer(u, v)
      PROVE  \E kind, who, tbids, n : MayAsk(kind, u, who, tbids, n) /\ Ask(kind, u, who, tbids, n)
  <2>1. Ask("transfer", u, v, TbidsOf(briefs[u]), 0) /\ u # v
    BY <1>3 DEF RequestTransfer
  <2>2. MayAsk("transfer", u, v, TbidsOf(briefs[u]), 0)
    BY <1>0, <2>1, BriefsGiven DEF MayAsk, Kinds
  <2> QED BY <2>1, <2>2
<1>4. ASSUME NEW b \in Tbids,
             \/ RequestApply(u, b) \/ RequestDrop(u, b) \/ RequestFree(u, b) \/ RequestCost(u, b)
      PROVE  \E kind, who, tbids, n : MayAsk(kind, u, who, tbids, n) /\ Ask(kind, u, who, tbids, n)
  <2>1. PICK kind \in {"apply", "drop", "free", "cost"} :
          Ask(kind, u, u, {b}, 0) /\ (IF kind = "apply" THEN Exists(b) ELSE Has(briefs[u], b))
    BY <1>4 DEF RequestApply, RequestDrop, RequestFree, RequestCost
  <2>2. b \in Given
    BY <1>0, <2>1, ThereIs, BriefsGiven
  <2>3. MayAsk(kind, u, u, {b}, 0)
    BY <1>0, <2>1, <2>2 DEF MayAsk, Kinds
  <2> QED BY <2>1, <2>3
<1>5. ASSUME NEW b \in Tbids, NEW v \in Users,
             \/ \E n \in {-1, 1} : RequestPut(u, b, n)
             \/ RequestRemove(u, v, b) \/ \E yes \in BOOLEAN : RequestAgree(u, v, b, yes)
      PROVE  \E kind, who, tbids, n : MayAsk(kind, u, who, tbids, n) /\ Ask(kind, u, who, tbids, n)
  <2>1. Exists(b) /\ GetTeaBar(b).master = u
    BY <1>5 DEF RequestPut, RequestRemove, RequestAgree
  <2>2. b \in Given
    BY <1>0, <2>1, ThereIs
  <2>3. CASE \E n \in {-1, 1} : RequestPut(u, b, n)
    <3>1. PICK n \in {-1, 0, 1} : Ask("put", u, u, {b}, n)
      BY <2>3 DEF RequestPut
    <3>2. MayAsk("put", u, u, {b}, n)
      BY <2>1, <2>2 DEF MayAsk, Kinds
    <3> QED BY <3>1, <3>2
  <2>4. CASE RequestRemove(u, v, b)
    <3>1. Ask("remove", u, v, {b}, 0) /\ v # u
      BY <2>4 DEF RequestRemove
    <3>2. MayAsk("remove", u, v, {b}, 0)
      BY <1>0, <2>1, <2>2, <3>1 DEF MayAsk, Kinds
    <3> QED BY <3>1, <3>2
  <2>5. CASE \E yes \in BOOLEAN : RequestAgree(u, v, b, yes)
    <3>1. PICK kind \in {"agree", "refuse"} : Ask(kind, u, v, {b}, 0)
      BY <2>5 DEF RequestAgree
    <3>2. MayAsk(kind, u, v, {b}, 0)
      BY <1>0, <2>2 DEF MayAsk, Kinds
    <3> QED BY <3>1, <3>2
  <2> QED BY <1>5, <2>3, <2>4, <2>5
<1> QED
  BY <1>1, <1>2, <1>3, <1>4, <1>5 DEF Requests

(* Every request keeps IInv.                                               *)
LEMMA RequestStep ==
  ASSUME IInv, NEW u \in Users, Requests(u)
  PROVE  IInv'
<1>1. PICK kind, who, tbids, n : MayAsk(kind, u, who, tbids, n) /\ Ask(kind, u, who, tbids, n)
  BY RequestAsks
<1> QED
  BY <1>1, AskStep

-----------------------------------------------------------------------------
(* A transfer *)

(* Parts that lead on, one after the other, lead where the last one does.  *)
LEMMA FlatLeads ==
  ASSUME NEW T, NEW F \in Seq(Seq(T)), NEW u, NEW b, NEW g \in [0 .. Len(F) -> Standing],
         \A k \in 1 .. Len(F) : Leads(g[k - 1], F[k], u, b, g[k])
  PROVE  Leads(g[0], FlattenSeq(F), u, b, g[Len(F)])
<1>1. Len(F) \in Nat /\ \A k \in 1 .. Len(F) : F[k] \in Seq(T)
  BY LenProperties
<1>2. PICK f \in [0 .. Len(F) -> Seq(T)] :
        /\ f[0] = << >> /\ f[Len(F)] = FlattenSeq(F)
        /\ \A k \in 1 .. Len(F) : f[k] = f[k - 1] \o F[k]
  BY Flattened
<1> DEFINE S == { k \in 0 .. Len(F) : Leads(g[0], f[k], u, b, g[k]) }
<1>3. 0 \in S
  <2>1. SeqLen(f[0]) /\ DOMAIN f[0] = {}
    BY <1>2 DEF SeqLen
  <2>2. g[0] \in Standing
    BY <1>1
  <2>3. Leads(g[0], f[0], u, b, g[0])
    BY <2>1, <2>2, LeadsStay
  <2> QED BY <1>1, <2>3
<1>4. ASSUME NEW k \in 0 .. Len(F), k < Len(F), k \in S PROVE k + 1 \in S
  <2>1. k + 1 \in 1 .. Len(F) /\ k + 1 \in 0 .. Len(F) /\ (k + 1) - 1 = k
    BY <1>1, <1>4
  <2>2. f[k + 1] = f[k] \o F[k + 1] /\ Leads(g[k], F[k + 1], u, b, g[k + 1])
    BY <1>2, <2>1
  <2>3. f[k] \in Seq(T) /\ F[k + 1] \in Seq(T) /\ Leads(g[0], f[k], u, b, g[k])
    BY <1>1, <1>2, <1>4, <2>1
  <2>4. Leads(g[0], f[k] \o F[k + 1], u, b, g[k + 1])
    BY <2>2, <2>3, LeadsJoin
  <2> QED BY <2>1, <2>2, <2>4
<1>5. \A k \in 0 .. Len(F) : k \in S
  <2> HIDE DEF S
  <2> QED BY <1>1, <1>3, <1>4, UpTo
<1>6. Len(F) \in S
  BY <1>1, <1>5
<1> QED BY <1>2, <1>6

(* One part leads somewhere and the others stay where they are.            *)
LEMMA OneLeads ==
  ASSUME NEW T, NEW F \in Seq(Seq(T)), NEW u, NEW b, NEW x \in Standing, NEW y \in Standing,
         NEW at \in 1 .. Len(F), Leads(x, F[at], u, b, y),
         \A k \in 1 .. Len(F) : k # at => \A z \in Standing : Leads(z, F[k], u, b, z)
  PROVE  Leads(x, FlattenSeq(F), u, b, y)
<1> DEFINE g == [k \in 0 .. Len(F) |-> IF k < at THEN x ELSE y]
<1>1. Len(F) \in Nat
  BY LenProperties
<1>2. g \in [0 .. Len(F) -> Standing] /\ g[0] = x /\ g[Len(F)] = y
  BY <1>1
<1>3. ASSUME NEW k \in 1 .. Len(F) PROVE Leads(g[k - 1], F[k], u, b, g[k])
  <2>1. k - 1 \in 0 .. Len(F) /\ k \in 0 .. Len(F)
    BY <1>1
  <2>2. CASE k = at
    <3>1. g[k - 1] = x /\ g[k] = y
      BY <1>1, <2>1, <2>2
    <3> QED BY <2>2, <3>1
  <2>3. CASE k # at
    <3>1. g[k - 1] = g[k] /\ g[k] \in Standing
      BY <1>1, <2>1, <2>3
    <3> QED BY <2>3, <3>1
  <2> QED BY <2>2, <2>3
<1> HIDE DEF g
<1>4. Leads(g[0], FlattenSeq(F), u, b, g[Len(F)])
  BY <1>2, <1>3, FlatLeads
<1> QED BY <1>2, <1>4

(* Lists of fields none of which lead elsewhere lead nowhere when joined.  *)
LEMMA NoneLeads ==
  ASSUME NEW T, NEW F \in Seq(Seq(T)), NEW u, NEW b, NEW x \in Standing,
         \A k \in 1 .. Len(F) : Leads(x, F[k], u, b, x)
  PROVE  Leads(x, FlattenSeq(F), u, b, x)
<1> DEFINE g == [k \in 0 .. Len(F) |-> x]
<1>1. Len(F) \in Nat
  BY LenProperties
<1>2. g \in [0 .. Len(F) -> Standing] /\ g[0] = x /\ g[Len(F)] = x
  BY <1>1
<1>3. ASSUME NEW k \in 1 .. Len(F) PROVE Leads(g[k - 1], F[k], u, b, g[k])
  <2>1. g[k - 1] = x /\ g[k] = x
    BY <1>1
  <2> QED BY <2>1
<1> HIDE DEF g
<1>4. Leads(g[0], FlattenSeq(F), u, b, g[Len(F)])
  BY <1>2, <1>3, FlatLeads
<1> QED BY <1>2, <1>4

(* The joined lists are over what the lists are over.                      *)
LEMMA FlatIn ==
  ASSUME NEW T, NEW F \in Seq(Seq(T))
  PROVE  FlattenSeq(F) \in Seq(T)
<1>1. Len(F) \in Nat
  BY LenProperties
<1>2. PICK f \in [0 .. Len(F) -> Seq(T)] : f[Len(F)] = FlattenSeq(F)
  BY Flattened
<1> QED BY <1>1, <1>2

(* What NewMaster does to the counts, the master and the applications.     *)
LEMMA NewMasterBar ==
  ASSUME NEW b, GetTeaBar(b) \in Bar, NEW n \in Users
  PROVE  /\ NewMaster(b, n) \in Bar
         /\ NewMaster(b, n).master = n /\ NewMaster(b, n).applied = GetTeaBar(b).applied
         /\ \A v \in Users : NewMaster(b, n).users[v] =
              IF v = n /\ ~Member(n, b) THEN GetTeaBar(b).users[v] + 1 ELSE GetTeaBar(b).users[v]
<1>0. PICK bar : bar = GetTeaBar(b)
  OBVIOUS
<1>1. PICK new : new = [bar EXCEPT !.master = n]
  OBVIOUS
<1>2. new \in Bar /\ new.master = n /\ new.applied = bar.applied /\ new.users = bar.users
  BY <1>0, <1>1 DEF Bar
<1>3. NewMaster(b, n) = IF Member(n, b) THEN new ELSE AddUser(new, n)
  BY <1>0, <1>1 DEF NewMaster
<1>4. CASE Member(n, b)
  BY <1>0, <1>2, <1>3, <1>4
<1>5. CASE ~Member(n, b)
  <2>1. /\ AddUser(new, n) \in Bar
        /\ AddUser(new, n).master = new.master /\ AddUser(new, n).applied = new.applied
        /\ \A v \in Users : AddUser(new, n).users[v] = IF v = n THEN new.users[n] + 1 ELSE new.users[v]
    BY <1>2, AddUserBar
  <2> QED BY <1>0, <1>2, <1>3, <1>5, <2>1
<1> QED BY <1>4, <1>5

(* What each of the two masters gets of a brief.                           *)
LEMMA ToOldLeads ==
  ASSUME NEW brief \in Brief, NEW n \in Users, NEW tbids \in SUBSET Tbids, brief.tbid \in tbids
  PROVE  /\ ToOldMaster(brief, n) \in Seq({ op \in Op : OpOK(op, "transfer", tbids) })
         /\ \A u \in Users \ {n} : Leads("own", ToOldMaster(brief, n), u, brief.tbid, "zero")
         /\ \A c, u : c # brief.tbid =>
              \A z \in Standing : Leads(z, ToOldMaster(brief, n), u, c, z)
<1> DEFINE T == { op \in Op : OpOK(op, "transfer", tbids) }
<1>0. PICK b, d, a : b = brief.tbid /\ d = Del(b) /\ a = Add(b, n, 0)
  OBVIOUS
<1>1. ToOldMaster(brief, n) = << d, a >>
  BY <1>0 DEF ToOldMaster
<1>2. d \in T /\ a \in T
  <2>1. OpOK(d, "transfer", tbids) /\ OpOK(a, "transfer", tbids)
    BY <1>0, DelOK, AddOK
  <2> QED BY <2>1, OpOKOp
<1>3. << d, a >> \in Seq(T) /\ << d >> \in Seq(T) /\ << a >> \in Seq(T) /\ << d, a >> = << d >> \o << a >>
  <2> HIDE DEF T
  <2>1. << d, a >> \in Seq(T)
    BY <1>2
  <2>2. << d >> \in Seq(T) /\ << a >> \in Seq(T)
    BY <1>2
  <2>3. << d, a >> = << d >> \o << a >>
    <3>1. PICK p, r : p = << d >> /\ r = << a >>
      OBVIOUS
    <3>2. /\ p \o r \in Seq(T) /\ Len(p \o r) = Len(p) + Len(r)
          /\ \A k \in 1 .. Len(p) + Len(r) : (p \o r)[k] = IF k <= Len(p) THEN p[k] ELSE r[k - Len(p)]
      BY <2>2, <3>1, ConcatProperties
    <3>3. Len(p) = 1 /\ Len(r) = 1 /\ p[1] = d /\ r[1] = a
      BY <3>1
    <3>4. Len(p \o r) = 2 /\ (p \o r)[1] = d /\ (p \o r)[2] = a
      BY <3>2, <3>3
    <3>5. PICK t : t = << d, a >>
      OBVIOUS
    <3>6. t \in Seq(T) /\ Len(t) = 2 /\ t[1] = d /\ t[2] = a
      BY <2>1, <3>5
    <3>7. \A k \in 1 .. Len(t) : t[k] = (p \o r)[k]
      BY <3>4, <3>6
    <3>8. t = p \o r
      BY <3>2, <3>4, <3>6, <3>7, SeqEqual
    <3> QED BY <3>1, <3>5, <3>8
  <2> QED BY <2>1, <2>2, <2>3
<1>4. ASSUME NEW u \in Users \ {n} PROVE Leads("own", << d, a >>, u, b, "zero")
  <2>1. /\ Allowed("own", d, u, b) /\ Turned("own", d, u, b) = "none"
        /\ Allowed("none", a, u, b) /\ Turned("none", a, u, b) = "zero"
        /\ "own" \in Standing /\ "none" \in Standing
    BY <1>0 DEF Allowed, Turned, Add, Del, Standing
  <2>2. Leads("own", << d >>, u, b, "none") /\ Leads("none", << a >>, u, b, "zero")
    BY <2>1, LeadsOne
  <2> HIDE DEF T
  <2> QED BY <1>3, <2>2, LeadsJoin
<1>5. ASSUME NEW c, c # b, NEW u, NEW z \in Standing PROVE Leads(z, << d, a >>, u, c, z)
  <2>1. SeqLen(<< d, a >>)
    BY DEF SeqLen
  <2>2. Aside(d, c) /\ Aside(a, c)
    BY <1>0, <1>5 DEF Aside, Add, Del
  <2>3. \A k \in DOMAIN << d, a >> : Aside(<< d, a >>[k], c)
    BY <2>2
  <2> QED BY <2>1, <2>3, LeadsStay
<1> QED BY <1>0, <1>1, <1>3, <1>4, <1>5

(* What the new master gets of a brief leads him to own it, whether or not *)
(* he had a brief of the bar, and leads nobody elsewhere at other bars.    *)
LEMMA ToNewLeads ==
  ASSUME NEW brief \in Brief, NEW n \in Users, NEW tbids \in SUBSET Tbids, brief.tbid \in tbids, NEW seen
  PROVE  /\ ToNewMaster(brief, n, seen) \in Seq({ op \in Op : OpOK(op, "transfer", tbids) })
         /\ \A x \in Standing : (x = "none" <=> ~Has(seen, brief.tbid)) =>
              Leads(x, ToNewMaster(brief, n, seen), n, brief.tbid, "own")
         /\ \A c, u : c # brief.tbid =>
              \A z \in Standing : Leads(z, ToNewMaster(brief, n, seen), u, c, z)
<1> DEFINE T == { op \in Op : OpOK(op, "transfer", tbids) }
<1>0. PICK b, d, a : b = brief.tbid /\ d = Del(b) /\ a = Add(b, n, brief.chips)
  OBVIOUS
<1>1. ToNewMaster(brief, n, seen) = (IF Has(seen, b) THEN << d >> ELSE << >>) \o << a >>
  BY <1>0 DEF ToNewMaster
<1>2. d \in T /\ a \in T
  <2>1. brief.chips \in Nat
    BY DEF Brief
  <2>2. OpOK(d, "transfer", tbids) /\ OpOK(a, "transfer", tbids)
    BY <1>0, <2>1, DelOK, AddOK
  <2> QED BY <2>2, OpOKOp
<1>3. PICK p, r : p = (IF Has(seen, b) THEN << d >> ELSE << >>) /\ r = << a >>
  OBVIOUS
<1>4. p \in Seq(T) /\ r \in Seq(T) /\ p \o r \in Seq(T)
  <2> HIDE DEF T
  <2>1. << d >> \in Seq(T) /\ << >> \in Seq(T) /\ << a >> \in Seq(T)
    BY <1>2
  <2>2. p \in Seq(T) /\ r \in Seq(T)
    BY <1>3, <2>1
  <2> QED BY <2>2, ConcatProperties
<1>5. ASSUME NEW x \in Standing, x = "none" <=> ~Has(seen, b) PROVE Leads(x, p \o r, n, b, "own")
  <2>1. Leads("none", << a >>, n, b, "own")
    <3>1. Allowed("none", a, n, b) /\ Turned("none", a, n, b) = "own" /\ "none" \in Standing
      BY <1>0 DEF Allowed, Turned, Add, Standing
    <3> QED BY <3>1, LeadsOne
  <2>2. Leads(x, p, n, b, "none")
    <3>1. CASE Has(seen, b)
      <4>1. Allowed(x, d, n, b) /\ Turned(x, d, n, b) = "none"
        BY <1>0 DEF Allowed, Turned, Del
      <4>2. Leads(x, << d >>, n, b, "none")
        BY <4>1, LeadsOne
      <4> QED BY <1>3, <3>1, <4>2
    <3>2. CASE ~Has(seen, b)
      <4>1. SeqLen(p) /\ DOMAIN p = {} /\ x = "none"
        BY <1>3, <1>5, <3>2 DEF SeqLen
      <4> QED BY <4>1, LeadsStay
    <3> QED BY <3>1, <3>2
  <2> HIDE DEF T
  <2> QED BY <1>3, <1>4, <2>1, <2>2, LeadsJoin
<1>6. ASSUME NEW c, c # b, NEW u, NEW z \in Standing PROVE Leads(z, p \o r, u, c, z)
  <2>1. Aside(d, c) /\ Aside(a, c)
    BY <1>0, <1>6 DEF Aside, Add, Del
  <2>2. Leads(z, r, u, c, z)
    <3>1. SeqLen(r) /\ \A k \in DOMAIN r : Aside(r[k], c)
      BY <1>3, <2>1 DEF SeqLen
    <3> QED BY <3>1, LeadsStay
  <2>3. Leads(z, p, u, c, z)
    <3>1. CASE Has(seen, b)
      <4>1. SeqLen(p) /\ \A k \in DOMAIN p : Aside(p[k], c)
        BY <1>3, <2>1, <3>1 DEF SeqLen
      <4> QED BY <4>1, LeadsStay
    <3>2. CASE ~Has(seen, b)
      <4>1. SeqLen(p) /\ DOMAIN p = {}
        BY <1>3, <3>2 DEF SeqLen
      <4> QED BY <4>1, LeadsStay
    <3> QED BY <3>1, <3>2
  <2> HIDE DEF T
  <2> QED BY <1>4, <2>2, <2>3, LeadsJoin
<1> QED BY <1>0, <1>1, <1>3, <1>4, <1>5, <1>6

(* The answer to a transfer keeps IInv: the briefs seen are those that are *)
(* due at every bar of the old master, so that each bar has the new master *)
(* for the old one and both briefs follow.                                 *)
LEMMA TransferStep ==
  ASSUME IInv, NEW i \in Slots, TransferGot(i)
  PROVE  IInv'
<1>0. PICK o, n : o = asked[i].by /\ n = asked[i].who
  OBVIOUS
<1>1. PICK so, sn : so = asked[i].seen[o] /\ sn = asked[i].seen[n]
  OBVIOUS
<1>2. PICK given : given = { k \in DOMAIN so : so[k].master = o /\ Exists(so[k].tbid) }
  OBVIOUS
<1>3. PICK to : to = { so[k].tbid : k \in given }
  OBVIOUS
<1>4. PICK bar : bar = [ b \in to |-> NewMaster(b, n) ]
  OBVIOUS
<1>5. PICK F : F = [ x \in Users |-> [ k \in DOMAIN so |->
                 IF k \in given THEN (IF x = n THEN ToNewMaster(so[k], n, sn)
                                      ELSE IF x = o THEN ToOldMaster(so[k], n) ELSE << >>)
                 ELSE << >> ]]
  OBVIOUS
<1>6. PICK ops : ops = [ x \in Users |-> FlattenSeq(F[x]) ]
  OBVIOUS
<1>7. Turn(i, "transfer") /\ Rest /\ Saved(to, bar) /\ Save(asked[i], ops)
  <2>1. ops = [ x \in Users |-> FlattenSeq([ k \in DOMAIN so |->
                 IF k \in given THEN (IF x = n THEN ToNewMaster(so[k], n, sn)
                                      ELSE IF x = o THEN ToOldMaster(so[k], n) ELSE << >>)
                 ELSE << >> ]) ]
    BY <1>5, <1>6
  <2>2. Turn(i, "transfer") /\ Rest
    BY DEF TransferGot
  <2>3. Saved(to, bar)
    BY <1>0, <1>1, <1>2, <1>3, <1>4 DEF TransferGot, TransferSaved
  <2>4. Save(asked[i], ops)
    BY <1>0, <1>1, <1>2, <2>1 DEF TransferGot
  <2> QED BY <2>2, <2>3, <2>4
<1>8. asked[i] # None /\ asked[i].kind = "transfer" /\ SlotOK(asked[i], Given) /\ Given \subseteq Tbids /\ Shape
  BY <1>7, ShapeBars DEF Turn, Shape, AskedOK
<1>9. /\ o \in Users /\ n \in Users /\ o # n /\ asked[i].tbids \in SUBSET Tbids /\ asked[i] \in Asked
      /\ \A k \in DOMAIN so : so[k].tbid \in asked[i].tbids
  BY <1>0, <1>1, <1>8 DEF SlotOK, Asked
<1>10. so \in Seq(Brief) /\ SeqLen(so) /\ \A k \in DOMAIN so : so[k] \in Brief
  <2>1. so \in Seq(Brief) /\ SeqLen(so)
    BY <1>1, <1>9, Seen
  <2> QED BY <2>1, LenProperties
<1>11. /\ given \subseteq DOMAIN so /\ \A k \in given : so[k].master = o /\ Exists(so[k].tbid)
  BY <1>2
<1>12. /\ to \subseteq asked[i].tbids /\ to \in SUBSET Tbids
       /\ \A b \in to : /\ Exists(b) /\ GetTeaBar(b) \in Bar /\ bar[b] = NewMaster(b, n)
                        /\ bar[b] \in Bar /\ \E k \in given : so[k].tbid = b
  <2>1. /\ to \subseteq asked[i].tbids /\ to \in SUBSET Tbids
        /\ \A b \in to : Exists(b) /\ \E k \in given : so[k].tbid = b
    BY <1>3, <1>9, <1>11
  <2>2. ASSUME NEW b \in to PROVE GetTeaBar(b) \in Bar /\ bar[b] = NewMaster(b, n) /\ bar[b] \in Bar
    <3>1. GetTeaBar(b) \in Bar
      BY <1>8, <2>1, ThereIs DEF Shape
    <3>2. NewMaster(b, n) \in Bar
      BY <1>9, <3>1, NewMasterBar
    <3> QED BY <1>4, <3>1, <3>2
  <2> QED BY <2>1, <2>2
(* The parts of the messages, and where they lead.                         *)
<1> DEFINE T == { op \in Op : OpOK(op, "transfer", asked[i].tbids) }
<1>13. ASSUME NEW k \in DOMAIN so, NEW x \in Users
       PROVE  /\ F[x][k] \in Seq(T)
              /\ \A c : (k \in given => c # so[k].tbid) => \A z \in Standing : Leads(z, F[x][k], x, c, z)
              /\ k \in given => F[n][k] = ToNewMaster(so[k], n, sn) /\ F[o][k] = ToOldMaster(so[k], n)
              /\ x \notin {o, n} => F[x][k] = << >>
  <2>1. F[x][k] = IF k \in given THEN (IF x = n THEN ToNewMaster(so[k], n, sn)
                                       ELSE IF x = o THEN ToOldMaster(so[k], n) ELSE << >>)
                  ELSE << >>
    BY <1>5
  <2>2. k \in given => F[n][k] = ToNewMaster(so[k], n, sn) /\ F[o][k] = ToOldMaster(so[k], n)
    BY <1>5, <1>9
  <2>3. so[k] \in Brief /\ so[k].tbid \in asked[i].tbids
    BY <1>9, <1>10
  <2>4. /\ ToOldMaster(so[k], n) \in Seq(T)
        /\ \A c, u : c # so[k].tbid => \A z \in Standing : Leads(z, ToOldMaster(so[k], n), u, c, z)
    BY <1>9, <2>3, ToOldLeads
  <2>5. /\ ToNewMaster(so[k], n, sn) \in Seq(T)
        /\ \A c, u : c # so[k].tbid => \A z \in Standing : Leads(z, ToNewMaster(so[k], n, sn), u, c, z)
    BY <1>9, <2>3, ToNewLeads
  <2> HIDE DEF T
  <2>6. << >> \in Seq(T) /\ \A c : \A z \in Standing : Leads(z, << >>, x, c, z)
    <3>1. SeqLen(<< >>) /\ DOMAIN << >> = {}
      BY DEF SeqLen
    <3>2. \A c : \A z \in Standing : Leads(z, << >>, x, c, z)
      BY <3>1, LeadsStay
    <3> QED BY <3>2, EmptySeq
  <2>7. F[x][k] \in Seq(T)
    BY <2>1, <2>4, <2>5, <2>6
  <2>8. ASSUME NEW c, k \in given => c # so[k].tbid, NEW z \in Standing PROVE Leads(z, F[x][k], x, c, z)
    BY <2>1, <2>4, <2>5, <2>6, <2>8
  <2>9. x \notin {o, n} => F[x][k] = << >>
    BY <2>1
  <2> QED BY <2>2, <2>7, <2>8, <2>9
<1>14. ASSUME NEW x \in Users
       PROVE  F[x] \in Seq(Seq(T)) /\ Len(F[x]) = Len(so) /\ ops[x] = FlattenSeq(F[x]) /\ ops[x] \in Seq(T)
  <2>1. DOMAIN so = 1 .. Len(so) /\ Len(so) \in Nat
    BY <1>10 DEF SeqLen
  <2>2. F[x] = [ k \in DOMAIN so |-> F[x][k] ]
    BY <1>5
  <2>3. \A k \in 1 .. Len(so) : F[x][k] \in Seq(T)
    BY <1>13, <2>1
  <2> HIDE DEF T
  <2>4. F[x] \in [1 .. Len(so) -> Seq(T)]
    BY <2>1, <2>2, <2>3
  <2>5. F[x] \in Seq(Seq(T))
    BY <2>1, <2>4 DEF Seq
  <2>6. Len(F[x]) = Len(so)
    BY <2>1, <2>4, <2>5, LenProperties
  <2>7. FlattenSeq(F[x]) \in Seq(T)
    BY <2>5, FlatIn
  <2>8. ops[x] = FlattenSeq(F[x])
    BY <1>6
  <2> QED BY <2>5, <2>6, <2>7, <2>8
<1>15. OpsOK(ops, "transfer", asked[i].tbids)
  <2>1. \A x \in Users : ops[x] \in Seq(Op) /\ \A j \in DOMAIN ops[x] : OpOK(ops[x][j], "transfer", asked[i].tbids)
    <3> SUFFICES ASSUME NEW x \in Users
                 PROVE  ops[x] \in Seq(Op) /\ \A j \in DOMAIN ops[x] : OpOK(ops[x][j], "transfer", asked[i].tbids)
      OBVIOUS
    <3>1. ops[x] \in Seq(T)
      BY <1>14
    <3>2. \A j \in DOMAIN ops[x] : ops[x][j] \in T
      <4> HIDE DEF T
      <4> QED BY <3>1, LenProperties
    <3>3. \A j \in DOMAIN ops[x] : ops[x][j] \in Op /\ OpOK(ops[x][j], "transfer", asked[i].tbids)
      BY <3>2
    <3>4. ops[x] \in Seq(Op)
      <4> HIDE DEF T
      <4> QED BY <3>1, <3>3, ElementsIn
    <3> QED BY <3>3, <3>4
  <2>2. ops = [ x \in Users |-> ops[x] ]
    BY <1>6
  <2>3. ops \in [Users -> Seq(Op)]
    BY <2>1, <2>2
  <2> QED BY <2>1, <2>3 DEF OpsOK
<1>16. Ends(i, "transfer", to, bar, ops)
  <2>1. \A b \in to : Exists(b) /\ bar[b] \in Bar \cup {None}
    BY <1>12
  <2>2. WrittenTo(to, bar)
    BY <1>7, <1>12, <2>1, SavedWrites
  <2> QED BY <1>7, <1>12, <1>15, <2>2 DEF Ends
(* A bar that is not given stays as it is.                                 *)
<1>17. ASSUME NEW b \in asked[i].tbids \ to, b \notin spoilt, NEW u \in Users
       PROVE  Leads(Due(u, b), ops[u], u, b, Due(u, b))
  <2>1. \A k \in given : b # so[k].tbid
    BY <1>3, <1>17
  <2>2. PICK x : x = Due(u, b)
    OBVIOUS
  <2>3. x \in Standing
    BY <2>2, DueStanding
  <2>4. \A k \in 1 .. Len(F[u]) : Leads(x, F[u][k], u, b, x)
    BY <1>10, <1>13, <1>14, <2>1, <2>3 DEF SeqLen
  <2>5. F[u] \in Seq(Seq(T))
    BY <1>14
  <2> HIDE DEF T
  <2>6. Leads(x, FlattenSeq(F[u]), u, b, x)
    BY <2>3, <2>4, <2>5, NoneLeads
  <2> QED BY <1>14, <2>2, <2>6
(* A bar that is given goes from one master to the other.                  *)
<1>18. ASSUME NEW b \in to, b \notin spoilt'
       PROVE  /\ bar[b] \in Bar
              /\ \A u \in Users :
                   /\ LET d == IF Going(u, b) THEN 1 ELSE 0 IN bar[b].users[u] \in {d, d + 1}
                   /\ u = bar[b].master => OnIn(bar[b], u, Going(u, b))
                   /\ Leads(Due(u, b), ops[u], u, b, DueIn(bar[b], u, Going(u, b)))
              /\ \A t \in Sessions(b)' : Relies(t, b)'
  <2>0. PICK new, old : new = bar[b] /\ old = GetTeaBar(b)
    OBVIOUS
  <2>1. /\ Sound(b) /\ GetTeaBar(b)' = new /\ Exists(b)'
        /\ \A v \in Users : /\ Going(v, b)' = Going(v, b)
                            /\ On(v, b)' = OnIn(new, v, Going(v, b))
                            /\ Due(v, b)' = DueIn(new, v, Going(v, b))
        /\ \A t \in Sessions(b)' :
             /\ t \in Sessions(b) /\ t \in Asked /\ (Exists(b) => Relies(t, b))
             /\ b \in asked[i].tbids => {"transfer", t.kind} \notin Conflicts
    <3>1. bar[b] # None
      BY <1>12, Numbers
    <3>2. /\ Sound(b) /\ GetTeaBar(b)' = bar[b] /\ Exists(b)'
          /\ \A v \in Users : /\ Going(v, b)' = Going(v, b)
                              /\ On(v, b)' = OnIn(bar[b], v, Going(v, b))
                              /\ Due(v, b)' = DueIn(bar[b], v, Going(v, b))
          /\ \A t \in Sessions(b)' :
               /\ t \in Sessions(b) /\ t \in Asked /\ (Exists(b) => Relies(t, b))
               /\ b \in asked[i].tbids => {"transfer", t.kind} \notin Conflicts
      BY <1>16, <1>18, <3>1, WroteOne
    <3> QED BY <2>0, <3>2
  <2>2. Exists(b) /\ b \in asked[i].tbids /\ old \in Bar /\ new \in Bar /\ new = NewMaster(b, n)
    BY <1>12, <2>0
  <2>3. PICK at \in given : so[at].tbid = b
    BY <1>12
  <2>4. /\ ~Going(o, b) /\ ~Going(n, b)
        /\ Shows(so, o, b, Due(o, b)) /\ Shows(sn, n, b, Due(n, b))
    <3>1. asked[i] \in Sessions(b)
      BY <1>8, <2>2, SlotSession
    <3>2. Relies(asked[i], b)
      BY <2>1, <2>2, <3>1 DEF Sound
    <3> QED BY <1>0, <1>1, <1>8, <3>2 DEF Relies
  <2>5. Due(o, b) = "own" /\ On(o, b) /\ old.master = o
    <3>1. at \in DOMAIN so /\ so[at].master = o
      BY <1>11, <2>3
    <3>2. old.master = o
      BY <2>0, <2>3, <2>4, <3>1, ShowsDue
    <3>3. Has(so, b)
      BY <2>3, <3>1 DEF Has
    <3>4. On(o, b)
      BY <2>4, <3>3, ShowsDue
    <3> QED BY <2>0, <3>2, <3>4 DEF Due
  <2>6. \A k \in DOMAIN so : so[k].tbid = b => k = at
    BY <1>11, <2>3, <2>4 DEF Shows, Once
  <2>7. /\ new.master = n /\ new.applied = old.applied
        /\ \A v \in Users : new.users[v] = IF v = n /\ ~Member(n, b) THEN old.users[v] + 1 ELSE old.users[v]
    BY <1>9, <2>0, <2>2, NewMasterBar
  <2>8. \A v \in Users : old.users[v] \in Nat
    BY <2>2 DEF Bar
  <2>9. old.users[n] \in {0, 1} /\ (Member(n, b) <=> On(n, b))
    <3>1. old.users[n] \in {0, 1}
      BY <1>9, <2>0, <2>1, <2>2, <2>4 DEF Sound
    <3> QED BY <2>0, <2>2, <2>4, <3>1 DEF On, Member
  <2>10. new.users[n] = 1 /\ \A v \in Users \ {n} : new.users[v] = old.users[v]
    BY <1>9, <2>0, <2>7, <2>9 DEF Member
  <2>11. OnIn(new, n, Going(n, b)) /\ DueIn(new, n, Going(n, b)) = "own"
    BY <2>4, <2>7, <2>10 DEF OnIn, DueIn
  <2>12. \A v \in Users \ {n} : OnIn(new, v, Going(v, b)) = On(v, b)
    BY <2>0, <2>2, <2>10 DEF OnIn, On
  <2>13. DueIn(new, o, Going(o, b)) = "zero"
    BY <1>9, <2>5, <2>7, <2>12 DEF DueIn
  <2>14. \A v \in Users \ {o, n} : DueIn(new, v, Going(v, b)) = Due(v, b)
    BY <2>0, <2>5, <2>7, <2>12 DEF DueIn, Due
  <2>15. ASSUME NEW v \in Users
         PROVE  /\ LET d == IF Going(v, b) THEN 1 ELSE 0 IN new.users[v] \in {d, d + 1}
                /\ v = new.master => OnIn(new, v, Going(v, b))
    <3>1. CASE v = n
      BY <2>4, <2>10, <2>11, <3>1
    <3>2. CASE v # n
      BY <2>0, <2>1, <2>2, <2>7, <2>10, <3>2 DEF Sound
    <3> QED BY <3>1, <3>2
  <2>16. ASSUME NEW v \in Users PROVE Leads(Due(v, b), ops[v], v, b, DueIn(new, v, Going(v, b)))
    <3>1. F[v] \in Seq(Seq(T)) /\ ops[v] = FlattenSeq(F[v]) /\ at \in 1 .. Len(F[v]) /\ at \in DOMAIN so
          /\ Len(F[v]) = Len(so) /\ DOMAIN so = 1 .. Len(so)
      BY <1>10, <1>11, <1>14, <2>3 DEF SeqLen
    <3>2. \A k \in 1 .. Len(F[v]) : k # at => \A z \in Standing : Leads(z, F[v][k], v, b, z)
      BY <1>13, <2>6, <3>1
    <3>3. PICK x, y : x = Due(v, b) /\ y = DueIn(new, v, Going(v, b))
      OBVIOUS
    <3>4. x \in Standing /\ y \in Standing
      BY <3>3, DueStanding DEF DueIn, Standing
    <3>5. Leads(x, F[v][at], v, b, y)
      <4>1. so[at] \in Brief /\ so[at].tbid \in asked[i].tbids
        BY <1>9, <1>10, <3>1
      <4>2. CASE v = o
        <5>1. x = "own" /\ y = "zero" /\ F[v][at] = ToOldMaster(so[at], n)
          BY <1>13, <2>5, <2>13, <3>1, <3>3, <4>2
        <5>2. Leads("own", ToOldMaster(so[at], n), v, b, "zero")
          BY <1>9, <2>3, <4>1, <4>2, ToOldLeads
        <5> QED BY <5>1, <5>2
      <4>3. CASE v = n
        <5>1. y = "own" /\ F[v][at] = ToNewMaster(so[at], n, sn)
          BY <1>13, <2>11, <3>1, <3>3, <4>3
        <5>2. x = "none" <=> ~Has(sn, so[at].tbid)
          BY <2>3, <2>4, <3>3, <4>3 DEF Shows
        <5>3. Leads(x, ToNewMaster(so[at], n, sn), n, so[at].tbid, "own")
          BY <1>9, <3>4, <4>1, <5>2, ToNewLeads
        <5> QED BY <2>3, <4>3, <5>1, <5>3
      <4>4. CASE v \notin {o, n}
        <5>1. x = y /\ F[v][at] = << >>
          BY <1>13, <2>14, <3>1, <3>3, <4>4
        <5>2. SeqLen(<< >>) /\ DOMAIN << >> = {}
          BY DEF SeqLen
        <5>3. Leads(x, << >>, v, b, x)
          BY <3>4, <5>2, LeadsStay
        <5> QED BY <5>1, <5>3
      <4> QED BY <4>2, <4>3, <4>4
    <3> HIDE DEF T
    <3>6. Leads(x, FlattenSeq(F[v]), v, b, y)
      BY <3>1, <3>2, <3>4, <3>5, OneLeads
    <3> QED BY <3>1, <3>3, <3>6
  <2>17. ASSUME NEW t \in Sessions(b)' PROVE Relies(t, b)'
    <3>1. t \in Asked /\ Relies(t, b) /\ {"transfer", t.kind} \notin Conflicts
      BY <2>1, <2>2, <2>17
    <3>2. t.kind \notin {"agree", "drop", "remove", "transfer", "put", "cost"}
      BY <3>1, Clashes
    <3>3. t.kind = "list" => On(t.by, b)'
      <4>1. \A v \in Users : On(v, b) => On(v, b)'
        BY <2>1, <2>11, <2>12
      <4>2. t.by \in Users
        BY <3>1 DEF Asked
      <4> QED BY <3>1, <4>1, <4>2 DEF Relies
    <3> QED BY <3>2, <3>3 DEF Relies
  <2> QED BY <2>0, <2>2, <2>15, <2>16, <2>17
<1> QED
  BY <1>16, <1>17, <1>18, WroteAll

-----------------------------------------------------------------------------
(* Theorems *)

(* Nothing is due before the first bar.                                    *)
LEMMA InitIInv == Init => IInv
<1> SUFFICES ASSUME Init PROVE IInv
  OBVIOUS
<1>1. /\ max_tbid = 0
      /\ cached = [ b \in Tbids |-> None ] /\ stored = [ b \in Tbids |-> None ]
      /\ briefs = [ u \in Users |-> << >> ] /\ chips = [ u \in Users |-> StartChips ]
      /\ asked = [ i \in Slots |-> None ] /\ updates = [ u \in Users |-> << >> ]
      /\ drops = {} /\ spent = 0 /\ requests = 0 /\ faults = 0 /\ spoilt = {}
  BY DEF Init
<1>2. BarsOK
  BY <1>1, Numbers DEF BarsOK
<1>3. UserOK
  BY <1>1, TeaBarAssumption DEF UserOK
<1>4. AskedOK
  BY <1>1 DEF AskedOK
<1>5. UpdatesOK
  BY <1>1 DEF UpdatesOK
<1>6. DropsOK /\ CountsOK
  BY <1>1, TeaBarAssumption DEF DropsOK, CountsOK
<1>7. ASSUME NEW b \in Tbids PROVE Sound(b)
  <2>1. ~Exists(b) /\ Kept(b)
    BY <1>1 DEF Exists, GetTeaBar, Kept
  <2>2. Apart(b) /\ DropsOnce(b)
    BY <1>1 DEF Apart, DropsOnce
  <2>3. ASSUME NEW u \in Users PROVE Comes(briefs[u], updates[u], u, b, Due(u, b))
    <3>1. Due(u, b) = "none"
      BY <2>1 DEF Due, On
    <3>2. Shows(<< >>, u, b, "none")
      BY DEF Shows, Once, Has, Standing
    <3>3. Comes(<< >>, << >>, u, b, "none")
      BY <3>2, ComesEmpty
    <3> QED BY <1>1, <3>1, <3>3
  <2> QED BY <2>1, <2>2, <2>3 DEF Sound
<1> QED BY <1>2, <1>3, <1>4, <1>5, <1>6, <1>7 DEF IInv, Shape

(* Nothing happens and everything stays.                                   *)
LEMMA StutterStep ==
  ASSUME IInv, UNCHANGED vars
  PROVE  IInv'
<1>1. /\ max_tbid' = max_tbid /\ cached' = cached /\ stored' = stored
      /\ briefs' = briefs /\ chips' = chips /\ spent' = spent
      /\ asked' = asked /\ updates' = updates /\ drops' = drops
      /\ requests' = requests /\ faults' = faults /\ spoilt' = spoilt
  BY DEF vars, bars, atUser
<1>2. Shape /\ Given' = Given
  BY <1>1, ShapeBars DEF Given
<1>3. Shape'
  BY <1>1, <1>2 DEF Shape, BarsOK, UserOK, AskedOK, UpdatesOK, DropsOK, CountsOK
<1>4. ASSUME NEW b \in Tbids \ spoilt PROVE Sound(b)'
  <2>1. Sound(b)
    BY DEF IInv
  <2> QED BY <1>1, <1>2, <2>1, TurnedSteady DEF Shape
<1> QED BY <1>1, <1>3, <1>4 DEF IInv

(* Every step keeps IInv.                                                  *)
LEMMA NextStep ==
  ASSUME IInv, Next
  PROVE  IInv'
<1>1. ASSUME NEW u \in Users, Requests(u) PROVE IInv'
  BY <1>1, RequestStep
<1>2. ASSUME NEW u \in Users, UpdateAtUser(u) PROVE IInv'
  BY <1>2, UpdateStep
<1>3. ASSUME NEW u \in Users, NEW b \in Tbids, DropDone(u, b) PROVE IInv'
  BY <1>3, DropDoneStep
<1>4. ASSUME NEW i \in Slots,
             \/ CreateGot(i) \/ ApplyGot(i) \/ AgreeGot(i) \/ DropGot(i) \/ ListGot(i) \/ PutGot(i)
             \/ RemoveGot(i) \/ FreeGot(i) \/ TransferGot(i) \/ CostGot(i)
      PROVE  IInv'
  BY <1>4, CreateStep, ApplyStep, AgreeStep, DropStep, ListStep, PutStep, RemoveStep, FreeStep,
     TransferStep, CostStep
<1>5. ASSUME NEW b \in Tbids, Evict(b) PROVE IInv'
  BY <1>5, EvictStep
<1> QED
  BY <1>1, <1>2, <1>3, <1>4, <1>5, RestartStep, TimeoutStep DEF Next, Requests

(* Whatever requests meet, in whatever order their answers and updates     *)
(* come, through restarts, failed saves and timeouts: the messages on      *)
(* their way lead every user's briefs to what the bars keep of him (IInv). *)
THEOREM Invariance == Spec => []IInv
<1>1. ASSUME IInv, [Next]_vars PROVE IInv'
  BY <1>1, NextStep, StutterStep
<1> QED
  BY InitIInv, <1>1, PTL DEF Spec

(* At rest every user has what he is to have.                              *)
LEMMA ShowsAtRest ==
  ASSUME IInv, NEW b \in Tbids \ spoilt, AtRest(b), NEW u \in Users
  PROVE  /\ Sound(b) /\ ~Going(u, b) /\ Shows(briefs[u], u, b, Due(u, b))
         /\ Exists(b) => GetTeaBar(b).users[u] = IF On(u, b) THEN 1 ELSE 0
<1>1. Sound(b) /\ Shape /\ UpdatesOK
  BY ShapeBars DEF IInv, Shape
<1>2. ~Going(u, b)
  <2>1. ASSUME Going(u, b) PROVE FALSE
    <3>1. << "drop", b >> \in Working /\ << "drop", b >>[2] = b
      BY <2>1, WorkingDrop
    <3> QED BY <3>1 DEF AtRest
  <2> QED BY <2>1
<1>3. ASSUME NEW k \in DOMAIN updates[u]
      PROVE  SeqLen(updates[u][k].ops) /\ \A j \in DOMAIN updates[u][k].ops : Aside(updates[u][k].ops[j], b)
  <2>1. b \notin updates[u][k].tbids
    <3>1. ASSUME b \in updates[u][k].tbids PROVE FALSE
      <4>1. << updates[u][k].kind, b >> \in Working /\ << updates[u][k].kind, b >>[2] = b
        BY <3>1, WorkingMessage
      <4> QED BY <4>1 DEF AtRest
    <3> QED BY <3>1
  <2>2. MessageOK(updates[u][k], Given)
    BY <1>1 DEF UpdatesOK
  <2>3. SeqLen(updates[u][k].ops)
    BY <2>2, OpsTypedOK
  <2> QED BY <2>1, <2>2, <2>3 DEF MessageOK, OpOK, Aside
<1>4. Shows(briefs[u], u, b, Due(u, b))
  <2>1. SeqLen(updates[u])
    BY <1>1, QueueLen
  <2>2. Comes(briefs[u], updates[u], u, b, Due(u, b))
    BY <1>1 DEF Sound
  <2> QED BY <1>3, <2>1, <2>2, ComesQuiet
<1>5. Exists(b) => GetTeaBar(b).users[u] = IF On(u, b) THEN 1 ELSE 0
  <2> SUFFICES ASSUME Exists(b) PROVE GetTeaBar(b).users[u] = IF On(u, b) THEN 1 ELSE 0
    OBVIOUS
  <2>1. GetTeaBar(b).users[u] \in {0, 1}
    BY <1>1, <1>2 DEF Sound
  <2> QED BY <1>2, <2>1 DEF On
<1> QED BY <1>1, <1>2, <1>4, <1>5

(* TeaBar's variables have their types.                                    *)
THEOREM Types == Spec => []TypeOK
<1>1. IInv => TypeOK
  <2> SUFFICES ASSUME IInv PROVE TypeOK
    OBVIOUS
  <2>1. Shape /\ Given \subseteq Tbids
    BY ShapeBars
  <2> QED BY <2>1 DEF Shape, BarsOK, UserOK, AskedOK, UpdatesOK, DropsOK, CountsOK, TypeOK
<1> QED
  BY <1>1, Invariance, PTL

(* Once the messages on their way are dealt with, a bar of which nothing   *)
(* was spoilt and its members agree: whoever it counts has one brief of    *)
(* it, with the master the bar has, and nobody else has one.               *)
THEOREM Agreement == Spec => []MembersAgree
<1>1. IInv => MembersAgree
  <2> SUFFICES ASSUME IInv, NEW b \in Tbids \ spoilt, AtRest(b), NEW u \in Users, NEW K,
                      K = { k \in DOMAIN briefs[u] : briefs[u][k].tbid = b }
               PROVE  /\ Cardinality(K) <= 1
                      /\ Cardinality(K) = IF Exists(b) THEN GetTeaBar(b).users[u] ELSE 0
    BY DEF MembersAgree
  <2>1. /\ Shows(briefs[u], u, b, Due(u, b))
        /\ Exists(b) => GetTeaBar(b).users[u] = IF On(u, b) THEN 1 ELSE 0
    BY ShowsAtRest
  <2>2. (Has(briefs[u], b) <=> On(u, b)) /\ Once(briefs[u], b)
    BY <2>1, ShowsDue DEF Shows
  <2>3. CASE On(u, b)
    <3>1. PICK k : k \in K
      BY <2>2, <2>3 DEF Has
    <3>2. K = {k}
      BY <2>2, <3>1 DEF Once
    <3>3. Cardinality(K) = 1
      BY <3>2, FS_Singleton
    <3> QED BY <2>1, <2>3, <3>3 DEF On
  <2>4. CASE ~On(u, b)
    <3>1. K = {}
      BY <2>2, <2>4 DEF Has
    <3>2. Cardinality(K) = 0
      BY <3>1, FS_EmptySet
    <3> QED BY <2>1, <2>4, <3>2
  <2> QED BY <2>3, <2>4
<1> QED
  BY <1>1, Invariance, PTL

(* At a bar where nothing is under way, only its master's brief has chips, *)
(* and names him: no transfer, agreement or put leaves chips with a member *)
(* or with one who was master before.                                      *)
THEOREM ChipsAtMaster == Spec => []MasterHoldsTheChips
<1>1. IInv => MasterHoldsTheChips
  <2> SUFFICES ASSUME IInv, NEW b \in Tbids \ spoilt, AtRest(b), Exists(b), NEW u \in Users,
                      NEW k \in DOMAIN briefs[u], briefs[u][k].tbid = b
               PROVE  IF u = GetTeaBar(b).master THEN briefs[u][k].master = u ELSE briefs[u][k].chips = 0
    BY DEF MasterHoldsTheChips
  <2>1. Sound(b) /\ Shows(briefs[u], u, b, Due(u, b))
    BY ShowsAtRest
  <2>2. On(u, b)
    BY <2>1, ShowsDue DEF Has
  <2>3. Due(u, b) = IF u = GetTeaBar(b).master THEN "own" ELSE "zero"
    BY <2>2 DEF Due
  <2> QED BY <2>1, <2>3 DEF Shows
<1> QED
  BY <1>1, Invariance, PTL

(* What a restart reads back from the store has the members and the master *)
(* of the cache.                                                           *)
THEOREM Survival == Spec => []SurvivesRestart
<1>1. IInv => SurvivesRestart
  BY DEF IInv, Sound, Kept, SurvivesRestart
<1> QED
  BY <1>1, Invariance, PTL

-----------------------------------------------------------------------------
(* Sums *)

(* A property of sets that adding an element keeps holds of a finite set   *)
(* when it holds of the empty one; P is the set of the sets that have it.  *)
LEMMA Grow ==
  ASSUME NEW D, IsFiniteSet(D), NEW P, {} \in P,
         \A S \in SUBSET D : \A x \in D \ S : S \in P => S \cup {x} \in P
  PROVE  D \in P
<1> DEFINE N == { n \in Nat : \A S \in SUBSET D : Cardinality(S) = n => S \in P }
<1>1. 0 \in N
  <2> SUFFICES ASSUME NEW S \in SUBSET D, Cardinality(S) = 0 PROVE S \in P
    OBVIOUS
  <2>1. IsFiniteSet(S)
    BY FS_Subset
  <2>2. S = {}
    BY <2>1, FS_EmptySet
  <2> QED BY <2>2
<1>2. ASSUME NEW n \in Nat, n \in N PROVE n + 1 \in N
  <2> SUFFICES ASSUME NEW S \in SUBSET D, Cardinality(S) = n + 1 PROVE S \in P
    OBVIOUS
  <2>1. IsFiniteSet(S)
    BY FS_Subset
  <2>2. S # {}
    BY <2>1, FS_EmptySet
  <2>3. PICK x \in S : TRUE
    BY <2>2
  <2>4. Cardinality(S \ {x}) = n
    <3>1. Cardinality(S \ {x}) = Cardinality(S) - 1
      BY <2>1, <2>3, FS_RemoveElement
    <3> QED BY <3>1
  <2>5. S \ {x} \in SUBSET D /\ x \in D \ (S \ {x}) /\ (S \ {x}) \cup {x} = S
    BY <2>3
  <2>6. S \ {x} \in P
    BY <1>2, <2>4, <2>5
  <2> QED BY <2>5, <2>6
<1> HIDE DEF N
<1>3. \A n \in Nat : n \in N
  BY <1>1, <1>2, Always
<1>4. Cardinality(D) \in Nat
  BY FS_CardinalityType
<1> QED
  BY <1>3, <1>4 DEF N

Chosen(s) == CHOOSE x \in s : TRUE
Ahead(f, g, s) == IF s = {} THEN 0 ELSE f[Chosen(s)] + g[s \ {Chosen(s)}]
IsSum(g, f, S) == g = [ s \in SUBSET S |-> Ahead(f, g, s) ]

(* The recursive function by which a sum is defined exists.                *)
LEMMA SumExists ==
  ASSUME NEW S, IsFiniteSet(S), NEW f
  PROVE  \E g : IsSum(g, f, S)
<1> DEFINE Few(n) == { s \in SUBSET S : Cardinality(s) <= n }
           N == { n \in Nat : \E g : g = [ s \in Few(n) |-> Ahead(f, g, s) ] }
<1>1. ASSUME NEW s \in SUBSET S, s # {}
      PROVE  /\ Chosen(s) \in s /\ s \ {Chosen(s)} \in SUBSET S
             /\ Cardinality(s) \in Nat /\ Cardinality(s \ {Chosen(s)}) = Cardinality(s) - 1
  <2>1. IsFiniteSet(s)
    BY FS_Subset
  <2>2. Chosen(s) \in s
    BY <1>1 DEF Chosen
  <2> QED BY <2>1, <2>2, FS_RemoveElement, FS_CardinalityType
<1>2. 0 \in N
  <2> DEFINE g == [ s \in Few(0) |-> 0 ]
  <2>1. ASSUME NEW s \in Few(0) PROVE Ahead(f, g, s) = 0
    <3>1. s = {}
      <4>1. IsFiniteSet(s)
        BY FS_Subset
      <4>2. Cardinality(s) = 0
        BY <4>1, FS_CardinalityType
      <4> QED BY <4>1, <4>2, FS_EmptySet
    <3> QED BY <3>1 DEF Ahead
  <2>2. g = [ s \in Few(0) |-> Ahead(f, g, s) ]
    <3>1. [ s \in Few(0) |-> Ahead(f, g, s) ] = [ s \in Few(0) |-> 0 ]
      <4> HIDE DEF g, Few
      <4> QED BY <2>1
    <3> QED BY <3>1
  <2> HIDE DEF g
  <2> QED BY <2>2
<1>3. ASSUME NEW n \in Nat, n \in N PROVE n + 1 \in N
  <2>1. PICK g : g = [ s \in Few(n) |-> Ahead(f, g, s) ]
    BY <1>3
  <2> DEFINE h == [ s \in Few(n + 1) |-> Ahead(f, g, s) ]
  <2>2. ASSUME NEW s \in Few(n) PROVE h[s] = g[s]
    <3>1. Cardinality(s) \in Nat
      BY FS_Subset, FS_CardinalityType
    <3>2. s \in Few(n + 1)
      BY <3>1
    <3>3. h[s] = Ahead(f, g, s)
      <4> HIDE DEF Few
      <4> QED BY <3>2
    <3>4. g[s] = Ahead(f, g, s)
      <4> HIDE DEF Few
      <4> QED BY <2>1
    <3> QED BY <3>3, <3>4
  <2>3. ASSUME NEW s \in Few(n + 1) PROVE Ahead(f, h, s) = Ahead(f, g, s)
    <3>1. CASE s = {}
      BY <3>1 DEF Ahead
    <3>2. CASE s # {}
      <4>1. s \ {Chosen(s)} \in Few(n)
        BY <1>1, <3>2
      <4>2. h[s \ {Chosen(s)}] = g[s \ {Chosen(s)}]
        BY <4>1, <2>2
      <4> HIDE DEF h, Few
      <4> QED BY <4>2, <3>2 DEF Ahead
    <3> QED BY <3>1, <3>2
  <2>4. h = [ s \in Few(n + 1) |-> Ahead(f, h, s) ]
    <3>1. [ s \in Few(n + 1) |-> Ahead(f, h, s) ] = [ s \in Few(n + 1) |-> Ahead(f, g, s) ]
      <4> HIDE DEF h, Few
      <4> QED BY <2>3
    <3> QED BY <3>1
  <2> HIDE DEF h
  <2> QED BY <2>4
<1>4. Cardinality(S) \in Nat
  BY FS_CardinalityType
<1>5. Cardinality(S) \in N
  <2> HIDE DEF N
  <2> QED BY <1>2, <1>3, <1>4, Always
<1>6. Few(Cardinality(S)) = SUBSET S
  BY FS_Subset
<1>7. PICK g : g = [ s \in Few(Cardinality(S)) |-> Ahead(f, g, s) ]
  BY <1>5
<1> HIDE DEF Few
<1> QED
  BY <1>6, <1>7 DEF IsSum

(* It is the same for every set it is defined over.                        *)
LEMMA SumUnique ==
  ASSUME NEW S, IsFiniteSet(S), NEW T \in SUBSET S, NEW f, NEW g, NEW h,
         IsSum(g, f, S), IsSum(h, f, T)
  PROVE  g[T] = h[T]
<1> DEFINE N == { n \in Nat : \A s \in SUBSET T : Cardinality(s) = n => g[s] = h[s] }
<1>1. ASSUME NEW s \in SUBSET T
      PROVE  g[s] = Ahead(f, g, s) /\ h[s] = Ahead(f, h, s) /\ IsFiniteSet(s)
  <2>1. s \in SUBSET S
    OBVIOUS
  <2>2. g[s] = Ahead(f, g, s)
    BY <2>1 DEF IsSum
  <2>3. h[s] = Ahead(f, h, s)
    BY DEF IsSum
  <2> QED BY <2>1, <2>2, <2>3, FS_Subset
<1>2. 0 \in N
  <2> SUFFICES ASSUME NEW s \in SUBSET T, Cardinality(s) = 0 PROVE g[s] = h[s]
    OBVIOUS
  <2>1. s = {}
    BY <1>1, FS_EmptySet
  <2> QED BY <2>1, <1>1 DEF Ahead
<1>3. ASSUME NEW n \in Nat, n \in N PROVE n + 1 \in N
  <2> SUFFICES ASSUME NEW s \in SUBSET T, Cardinality(s) = n + 1 PROVE g[s] = h[s]
    OBVIOUS
  <2>1. s # {}
    BY <1>1, FS_EmptySet
  <2> DEFINE x == Chosen(s)
  <2>2. x \in s
    BY <2>1 DEF Chosen
  <2>3. Cardinality(s \ {x}) = n
    <3>1. Cardinality(s \ {x}) = Cardinality(s) - 1
      BY <1>1, <2>2, FS_RemoveElement
    <3> QED BY <3>1
  <2>4. g[s \ {x}] = h[s \ {x}]
    BY <1>3, <2>3
  <2> QED BY <1>1, <2>1, <2>4 DEF Ahead
<1>4. Cardinality(T) \in Nat
  BY FS_Subset, FS_CardinalityType
<1>5. Cardinality(T) \in N
  <2> HIDE DEF N
  <2> QED BY <1>2, <1>3, <1>4, Always
<1> QED
  BY <1>5

Total(f, S) == SumFunctionOnSet(f, S)

(* The sum is what that function takes of the whole set.                   *)
LEMMA SumTaken ==
  ASSUME NEW S, IsFiniteSet(S), NEW f
  PROVE  \E g : IsSum(g, f, S) /\ Total(f, S) = g[S]
<1> DEFINE iter == CHOOSE g : IsSum(g, f, S)
<1>1. IsSum(iter, f, S)
  BY SumExists
<1>2. Total(f, S) = iter[S]
  BY DEF Total, SumFunctionOnSet, FoldFunctionOnSet, MapThenFoldSet, IsSum, Ahead, Chosen
<1> QED
  BY <1>1, <1>2

(* The sum takes one element after the other.                              *)
LEMMA SumAhead ==
  ASSUME NEW S, IsFiniteSet(S), NEW f
  PROVE  Total(f, S) = IF S = {} THEN 0 ELSE f[Chosen(S)] + Total(f, S \ {Chosen(S)})
<1>1. PICK g : IsSum(g, f, S) /\ Total(f, S) = g[S]
  BY SumTaken
<1>2. g[S] = Ahead(f, g, S)
  BY <1>1 DEF IsSum
<1>3. CASE S = {}
  BY <1>1, <1>2, <1>3 DEF Ahead
<1>4. CASE S # {}
  <2> DEFINE T == S \ {Chosen(S)}
  <2>1. T \in SUBSET S /\ IsFiniteSet(T)
    BY FS_Subset
  <2>2. PICK h : IsSum(h, f, T) /\ Total(f, T) = h[T]
    BY <2>1, SumTaken
  <2>3. g[T] = h[T]
    BY <1>1, <2>1, <2>2, SumUnique
  <2> QED BY <1>1, <1>2, <1>4, <2>2, <2>3 DEF Ahead
<1> QED
  BY <1>3, <1>4

(* Sums of integers are integers.                                          *)
LEMMA SumInt ==
  ASSUME NEW D, IsFiniteSet(D), NEW f, \A x \in D : f[x] \in Int
  PROVE  Total(f, D) \in Int
<1> DEFINE N == { n \in Nat : \A S \in SUBSET D : Cardinality(S) = n => Total(f, S) \in Int }
<1>1. 0 \in N
  <2> SUFFICES ASSUME NEW S \in SUBSET D, Cardinality(S) = 0 PROVE Total(f, S) \in Int
    OBVIOUS
  <2>1. IsFiniteSet(S) /\ S = {}
    BY FS_Subset, FS_EmptySet
  <2>2. Total(f, S) = 0
    BY <2>1, SumAhead
  <2> QED BY <2>2
<1>2. ASSUME NEW n \in Nat, n \in N PROVE n + 1 \in N
  <2> SUFFICES ASSUME NEW S \in SUBSET D, Cardinality(S) = n + 1 PROVE Total(f, S) \in Int
    OBVIOUS
  <2>1. IsFiniteSet(S)
    BY FS_Subset
  <2>2. S # {}
    BY <2>1, FS_EmptySet
  <2> DEFINE c == Chosen(S)
  <2>3. c \in S
    BY <2>2 DEF Chosen
  <2>4. Total(f, S) = f[c] + Total(f, S \ {c})
    BY <2>1, <2>2, SumAhead
  <2> HIDE DEF c
  <2>5. Cardinality(S \ {c}) = n
    <3>1. Cardinality(S \ {c}) = Cardinality(S) - 1
      BY <2>1, <2>3, FS_RemoveElement
    <3> QED BY <3>1
  <2>6. Total(f, S \ {c}) \in Int /\ f[c] \in Int
    BY <1>2, <2>3, <2>5
  <2> QED BY <2>4, <2>6
<1> HIDE DEF N
<1>3. Cardinality(D) \in Nat
  BY FS_CardinalityType
<1>4. Cardinality(D) \in N
  BY <1>1, <1>2, <1>3, Always
<1> QED
  BY <1>4 DEF N

(* Any element of the set may be taken first.                              *)
LEMMA SumOut ==
  ASSUME NEW D, IsFiniteSet(D), NEW f, \A x \in D : f[x] \in Int, NEW x \in D
  PROVE  Total(f, D) = f[x] + Total(f, D \ {x})
<1> DEFINE N == { n \in Nat : \A S \in SUBSET D : Cardinality(S) = n =>
                                \A y \in S : Total(f, S) = f[y] + Total(f, S \ {y}) }
<1>1. 0 \in N
  <2> SUFFICES ASSUME NEW S \in SUBSET D, Cardinality(S) = 0, NEW y \in S PROVE FALSE
    OBVIOUS
  <2> QED BY FS_Subset, FS_EmptySet
<1>2. ASSUME NEW n \in Nat, n \in N PROVE n + 1 \in N
  <2> SUFFICES ASSUME NEW S \in SUBSET D, Cardinality(S) = n + 1, NEW y \in S
               PROVE  Total(f, S) = f[y] + Total(f, S \ {y})
    OBVIOUS
  <2>1. IsFiniteSet(S)
    BY FS_Subset
  <2> DEFINE c == Chosen(S)
  <2>3. c \in S
    BY DEF Chosen
  <2>4. Total(f, S) = f[c] + Total(f, S \ {c})
    BY <2>1, SumAhead
  <2> HIDE DEF c
  <2>5. ASSUME NEW z \in S
        PROVE  S \ {z} \in SUBSET D /\ Cardinality(S \ {z}) = n
    <3>1. Cardinality(S \ {z}) = Cardinality(S) - 1
      BY <2>1, FS_RemoveElement
    <3> QED BY <3>1
  <2>6. CASE y = c
    BY <2>4, <2>6
  <2>7. CASE y # c
    <3> DEFINE T == (S \ {c}) \ {y}
    <3>1. Total(f, S \ {c}) = f[y] + Total(f, T)
      BY <1>2, <2>3, <2>5, <2>7
    <3>2. Total(f, S \ {y}) = f[c] + Total(f, (S \ {y}) \ {c})
      BY <1>2, <2>3, <2>5, <2>7
    <3>3. (S \ {y}) \ {c} = T
      OBVIOUS
    <3>4. Total(f, T) \in Int
      <4>1. IsFiniteSet(T) /\ \A z \in T : f[z] \in Int
        BY <2>1, FS_RemoveElement
      <4> HIDE DEF T
      <4> QED BY <4>1, SumInt
    <3>5. f[y] \in Int /\ f[c] \in Int
      BY <2>3
    <3>6. Total(f, S \ {y}) = f[c] + Total(f, T)
      BY <3>2, <3>3
    <3> HIDE DEF T, N
    <3> DEFINE a == Total(f, S)  d == Total(f, S \ {c})  e == Total(f, S \ {y})  t == Total(f, T)
               p == f[c]  q == f[y]
    <3>7. a = p + d /\ d = q + t /\ e = p + t /\ t \in Int /\ p \in Int /\ q \in Int
      BY <2>4, <3>1, <3>4, <3>5, <3>6
    <3> HIDE DEF a, d, e, t, p, q
    <3>8. a = q + e
      BY <3>7
    <3> QED BY <3>8 DEF a, d, e, t, p, q
  <2> QED BY <2>6, <2>7
<1> HIDE DEF N
<1>3. Cardinality(D) \in Nat
  BY FS_CardinalityType
<1>4. Cardinality(D) \in N
  BY <1>1, <1>2, <1>3, Always
<1> QED
  BY <1>4 DEF N

(* One more element.                                                       *)
LEMMA SumMore ==
  ASSUME NEW S, IsFiniteSet(S), NEW x, x \notin S, NEW f, \A y \in S \cup {x} : f[y] \in Int
  PROVE  Total(f, S \cup {x}) = f[x] + Total(f, S)
<1>1. IsFiniteSet(S \cup {x})
  BY FS_AddElement
<1>2. (S \cup {x}) \ {x} = S
  OBVIOUS
<1> QED
  BY <1>1, <1>2, SumOut

(* Sums of functions that agree.                                           *)
LEMMA SumSame ==
  ASSUME NEW D, IsFiniteSet(D), NEW f, NEW g, \A x \in D : f[x] \in Int /\ g[x] = f[x]
  PROVE  Total(g, D) = Total(f, D)
<1> DEFINE P == { S \in SUBSET D : Total(g, S) = Total(f, S) }
<1>1. {} \in P
  BY FS_EmptySet, SumAhead
<1>2. ASSUME NEW S \in SUBSET D, NEW x \in D \ S, S \in P PROVE S \cup {x} \in P
  <2>1. IsFiniteSet(S)
    BY FS_Subset
  <2>2. Total(f, S \cup {x}) = f[x] + Total(f, S) /\ Total(g, S \cup {x}) = g[x] + Total(g, S)
    BY <2>1, SumMore
  <2> QED BY <1>2, <2>2
<1> HIDE DEF P
<1>3. D \in P
  BY <1>1, <1>2, Grow
<1> QED
  BY <1>3 DEF P

(* A sum of sums.                                                          *)
LEMMA SumPlus ==
  ASSUME NEW D, IsFiniteSet(D), NEW f, NEW g, NEW h,
         \A x \in D : f[x] \in Int /\ g[x] \in Int /\ h[x] = f[x] + g[x]
  PROVE  Total(h, D) = Total(f, D) + Total(g, D)
<1> DEFINE P == { S \in SUBSET D : Total(h, S) = Total(f, S) + Total(g, S) }
<1>1. {} \in P
  <2>1. Total(h, {}) = 0 /\ Total(f, {}) = 0 /\ Total(g, {}) = 0
    BY FS_EmptySet, SumAhead
  <2> QED BY <2>1
<1>2. ASSUME NEW S \in SUBSET D, NEW x \in D \ S, S \in P PROVE S \cup {x} \in P
  <2>1. IsFiniteSet(S)
    BY FS_Subset
  <2>0. \A y \in S \cup {x} : f[y] \in Int /\ g[y] \in Int /\ h[y] \in Int
    OBVIOUS
  <2> HIDE DEF P
  <2>2. /\ Total(f, S \cup {x}) = f[x] + Total(f, S) /\ Total(g, S \cup {x}) = g[x] + Total(g, S)
        /\ Total(h, S \cup {x}) = h[x] + Total(h, S)
    BY <2>0, <2>1, SumMore
  <2>3. Total(f, S) \in Int /\ Total(g, S) \in Int
    BY <2>1, SumInt
  <2>4. Total(h, S) = Total(f, S) + Total(g, S) /\ f[x] \in Int /\ g[x] \in Int /\ h[x] = f[x] + g[x]
    BY <1>2 DEF P
  <2>5. Total(h, S \cup {x}) = Total(f, S \cup {x}) + Total(g, S \cup {x})
    BY <2>2, <2>3, <2>4
  <2> QED BY <2>5 DEF P
<1> HIDE DEF P
<1>3. D \in P
  BY <1>1, <1>2, Grow
<1> QED
  BY <1>3 DEF P

(* The sum of a constant.                                                  *)
LEMMA SumConstant ==
  ASSUME NEW D, IsFiniteSet(D), NEW c \in Int, NEW f, \A x \in D : f[x] = c
  PROVE  Total(f, D) = c * Cardinality(D)
<1> DEFINE P == { S \in SUBSET D : Total(f, S) = c * Cardinality(S) }
<1>1. {} \in P
  BY FS_EmptySet, SumAhead
<1>2. ASSUME NEW S \in SUBSET D, NEW x \in D \ S, S \in P PROVE S \cup {x} \in P
  <2>1. IsFiniteSet(S)
    BY FS_Subset
  <2>0. \A y \in S \cup {x} : f[y] \in Int
    OBVIOUS
  <2> HIDE DEF P
  <2>2. Total(f, S \cup {x}) = c + Total(f, S)
    BY <2>0, <2>1, SumMore
  <2>3. Cardinality(S \cup {x}) = Cardinality(S) + 1 /\ Cardinality(S) \in Nat
    BY <2>1, FS_AddElement, FS_CardinalityType
  <2>4. c * (Cardinality(S) + 1) = c + c * Cardinality(S)
    BY <2>3
  <2> QED BY <1>2, <2>2, <2>3, <2>4 DEF P
<1> HIDE DEF P
<1>3. D \in P
  BY <1>1, <1>2, Grow
<1> QED
  BY <1>3 DEF P

(* A sum of which one element is not zero.                                 *)
LEMMA SumOne ==
  ASSUME NEW D, IsFiniteSet(D), NEW x \in D, NEW f, f[x] \in Int, \A y \in D \ {x} : f[y] = 0
  PROVE  Total(f, D) = f[x]
<1>1. \A y \in D : f[y] \in Int
  OBVIOUS
<1>2. IsFiniteSet(D \ {x})
  BY FS_RemoveElement
<1>3. Total(f, D \ {x}) = 0 * Cardinality(D \ {x})
  BY <1>2, SumConstant
<1>4. 0 * Cardinality(D \ {x}) = 0
  BY <1>2, FS_CardinalityType
<1> QED
  BY <1>1, <1>3, <1>4, SumOut

(* A sum in which one element changes.                                     *)
LEMMA SumChange ==
  ASSUME NEW D, IsFiniteSet(D), NEW x \in D, NEW f, NEW g,
         \A y \in D : f[y] \in Int /\ g[y] \in Int, \A y \in D \ {x} : g[y] = f[y]
  PROVE  Total(g, D) = Total(f, D) + (g[x] - f[x])
<1>1. IsFiniteSet(D \ {x})
  BY FS_RemoveElement
<1>2. Total(g, D \ {x}) = Total(f, D \ {x}) /\ Total(f, D \ {x}) \in Int
  BY <1>1, SumSame, SumInt
<1>3. Total(g, D) = g[x] + Total(g, D \ {x}) /\ Total(f, D) = f[x] + Total(f, D \ {x})
  BY SumOut
<1> QED
  BY <1>2, <1>3

(* The order of a double sum does not matter.                              *)
LEMMA SumSwap ==
  ASSUME NEW D, IsFiniteSet(D), NEW E, IsFiniteSet(E),
         NEW F \in [D -> [E -> Int]]
  PROVE  Total([ x \in D |-> Total(F[x], E) ], D)
           = Total([ y \in E |-> Total([ x \in D |-> F[x][y] ], D) ], E)
<1> DEFINE row == [ x \in D |-> Total(F[x], E) ]
           col(S) == [ y \in E |-> Total([ x \in D |-> F[x][y] ], S) ]
           P == { S \in SUBSET D : Total(row, S) = Total(col(S), E) }
<1>1. {} \in P
  <2>1. Total(row, {}) = 0
    BY FS_EmptySet, SumAhead
  <2>2. \A y \in E : col({})[y] = 0
    BY FS_EmptySet, SumAhead
  <2>3. Total(col({}), E) = 0 * Cardinality(E)
    <3> HIDE DEF col
    <3> QED BY <2>2, SumConstant
  <2>4. 0 * Cardinality(E) = 0
    BY FS_CardinalityType
  <2> QED BY <2>1, <2>3, <2>4
<1>2. ASSUME NEW S \in SUBSET D, NEW z \in D \ S, S \in P PROVE S \cup {z} \in P
  <2>1. IsFiniteSet(S)
    BY FS_Subset
  <2>2. \A x \in D : row[x] \in Int
    BY SumInt
  <2>3. Total(row, S \cup {z}) = row[z] + Total(row, S)
    <3> HIDE DEF row
    <3> QED BY <2>1, <2>2, SumMore
  <2>4. ASSUME NEW y \in E
        PROVE  /\ col(S \cup {z})[y] = F[z][y] + col(S)[y]
               /\ col(S)[y] \in Int /\ F[z][y] \in Int
    <3> DEFINE c == [ x \in D |-> F[x][y] ]
    <3>1. \A x \in D : c[x] \in Int
      OBVIOUS
    <3>2. c[z] = F[z][y]
      OBVIOUS
    <3>3. col(S \cup {z})[y] = Total(c, S \cup {z}) /\ col(S)[y] = Total(c, S)
      OBVIOUS
    <3> HIDE DEF c, col
    <3>4. Total(c, S \cup {z}) = c[z] + Total(c, S) /\ Total(c, S) \in Int
      BY <2>1, <3>1, SumMore, SumInt
    <3> QED BY <3>1, <3>2, <3>3, <3>4
  <2>5. Total(col(S \cup {z}), E) = Total(F[z], E) + Total(col(S), E)
    <3> HIDE DEF col
    <3> QED BY <2>4, SumPlus, ZenonT(60)
  <2>6. row[z] = Total(F[z], E)
    OBVIOUS
  <2>7. Total(row, S) = Total(col(S), E)
    BY <1>2
  <2> HIDE DEF row, col
  <2>8. Total(row, S \cup {z}) = Total(col(S \cup {z}), E)
    BY <2>3, <2>5, <2>6, <2>7
  <2> QED BY <2>8
<1>3. D \in P
  <2> HIDE DEF P
  <2> QED BY <1>1, <1>2, Grow
<1> QED
  BY <1>3
-----------------------------------------------------------------------------
(* The ledger *)

(* What a user has, and how many costs of his were granted, after an       *)
(* update; after all that are on their way.                                *)
Took(v, m) ==
  LET w == AllDone(v.wallet, m.ops) IN
  IF Fits(w) THEN [ wallet |-> w, spent |-> v.spent + (IF m.kind = "cost" THEN 1 ELSE 0) ] ELSE v
Final(v, q) ==
  LET after[k \in 0 .. Len(q)] == IF k = 0 THEN v ELSE Took(after[k - 1], q[k]) IN after[Len(q)]
Now(u) == [ wallet |-> [ briefs |-> briefs[u], chips |-> chips[u] ], spent |-> 0 ]
End    == [ u \in Users |-> Final(Now(u), updates[u]) ]

(* The briefs of a bar, and the chips of one.                              *)
Of(s, b) == { s[k] : k \in { j \in DOMAIN s : s[j].tbid = b } }
In(s, b) == IF Of(s, b) = {} THEN 0 ELSE (CHOOSE x \in Of(s, b) : TRUE).chips

(* The chips of a bar: what its master will have of it.                    *)
Held(b) == IF Exists(b) THEN In(End[GetTeaBar(b).master].wallet.briefs, b) ELSE 0

(* What users will have and will have spent, and what the bars will hold,  *)
(* is what there was.                                                      *)
Purses  == [ u \in Users |-> End[u].wallet.chips + End[u].spent ]
Tills   == [ b \in Tbids |-> Held(b) ]
Balance == spent + SumFunction(Purses) + SumFunction(Tills) = StartChips * Cardinality(Users)

(* Who frees or transfers a bar saw the chips it holds, and a bar that     *)
(* chips are put into or taken from is there.                              *)
SeenRight(s, b) ==
  /\ s.kind \in {"free", "transfer"} /\ Exists(b) =>
       \A k \in DOMAIN s.seen[s.by] :
         s.seen[s.by][k].tbid = b /\ s.seen[s.by][k].master = s.by
           => s.seen[s.by][k].chips = Held(b)
  /\ s.kind \in {"put", "cost"} => Exists(b)

AllSeen == \A i \in Slots : asked[i] # None => \A b \in asked[i].tbids : SeenRight(asked[i], b)

(* Every message is about a bar.                                           *)
Named == \A u \in Users : \A k \in DOMAIN updates[u] : updates[u][k].tbids # {}

Books  == Balance /\ AllSeen /\ Named
Ledger == spoilt = {} => Books

-----------------------------------------------------------------------------
(* What the messages of a queue come to *)

IsEnd(f, v, q, n) == f = [ k \in 0 .. n |-> IF k = 0 THEN v ELSE Took(f[k - 1], q[k]) ]

(* The recursive function over the messages of a queue exists.             *)
LEMMA EndExists ==
  ASSUME NEW v, NEW q, NEW n \in Nat
  PROVE  \E f : IsEnd(f, v, q, n)
<1> DEFINE S == { m \in Nat : \E f : IsEnd(f, v, q, m) }
<1>1. 0 \in S
  <2> DEFINE f == [ k \in 0 .. 0 |-> v ]
  <2>1. f = [ k \in 0 .. 0 |-> IF k = 0 THEN v ELSE Took(f[k - 1], q[k]) ]
    OBVIOUS
  <2> HIDE DEF f
  <2>2. IsEnd(f, v, q, 0)
    BY <2>1 DEF IsEnd
  <2> QED BY <2>2
<1>2. ASSUME NEW m \in Nat, m \in S PROVE m + 1 \in S
  <2>1. PICK f : IsEnd(f, v, q, m)
    BY <1>2
  <2> DEFINE g == [ k \in 0 .. m + 1 |-> IF k <= m THEN f[k] ELSE Took(f[m], q[m + 1]) ]
  <2>2. ASSUME NEW k \in 0 .. m + 1
        PROVE  g[k] = IF k = 0 THEN v ELSE Took(g[k - 1], q[k])
    <3>1. CASE k = 0
      <4>1. 0 \in 0 .. m
        OBVIOUS
      <4>2. f[0] = v
        BY <2>1, <4>1 DEF IsEnd
      <4> QED BY <3>1, <4>2
    <3>2. CASE k # 0 /\ k <= m
      <4>1. k - 1 \in 0 .. m + 1 /\ k - 1 <= m /\ k \in 0 .. m
        BY <3>2
      <4>2. g[k] = f[k] /\ g[k - 1] = f[k - 1]
        BY <4>1, <3>2
      <4>3. f[k] = Took(f[k - 1], q[k])
        BY <2>1, <4>1, <3>2 DEF IsEnd
      <4> QED BY <4>2, <4>3, <3>2
    <3>3. CASE k = m + 1
      <4>1. m \in 0 .. m + 1 /\ k - 1 = m /\ k # 0 /\ ~(k <= m)
        BY <3>3
      <4>2. g[m] = f[m]
        BY <4>1
      <4>3. g[k] = Took(f[m], q[m + 1])
        BY <4>1
      <4> QED BY <4>1, <4>2, <4>3, <3>3
    <3> QED BY <3>1, <3>2, <3>3
  <2>3. g = [ k \in 0 .. m + 1 |-> g[k] ]
    OBVIOUS
  <2> HIDE DEF g
  <2>4. IsEnd(g, v, q, m + 1)
    BY <2>2, <2>3 DEF IsEnd
  <2> QED BY <2>4
<1> HIDE DEF S
<1>3. n \in S
  BY <1>1, <1>2, Always
<1> QED
  BY <1>3 DEF S

(* Final is the last value of that function.                               *)
LEMMA FinalRuns ==
  ASSUME NEW v, NEW q, Len(q) \in Nat
  PROVE  \E f : /\ f[0] = v /\ f[Len(q)] = Final(v, q)
                /\ \A k \in 1 .. Len(q) : f[k] = Took(f[k - 1], q[k])
<1> DEFINE after == CHOOSE f : IsEnd(f, v, q, Len(q))
<1>1. \E f : IsEnd(f, v, q, Len(q))
  BY EndExists
<1>2. IsEnd(after, v, q, Len(q))
  BY <1>1
<1>3. Final(v, q) = after[Len(q)]
  BY DEF Final, IsEnd
<1> HIDE DEF after
<1>4. after[0] = v
  BY <1>2 DEF IsEnd
<1>5. \A k \in 1 .. Len(q) : after[k] = Took(after[k - 1], q[k])
  BY <1>2 DEF IsEnd
<1> QED
  BY <1>3, <1>4, <1>5

(* Whatever goes through the messages one after the other ends there.      *)
LEMMA FinalIs ==
  ASSUME NEW v, NEW q, Len(q) \in Nat, NEW g, g[0] = v,
         \A k \in 1 .. Len(q) : g[k] = Took(g[k - 1], q[k])
  PROVE  Final(v, q) = g[Len(q)]
<1>1. PICK f : /\ f[0] = v /\ f[Len(q)] = Final(v, q)
               /\ \A k \in 1 .. Len(q) : f[k] = Took(f[k - 1], q[k])
  BY FinalRuns
<1> DEFINE S == { k \in 0 .. Len(q) : f[k] = g[k] }
<1>2. 0 \in S
  BY <1>1
<1>3. ASSUME NEW k \in 0 .. Len(q), k < Len(q), k \in S PROVE k + 1 \in S
  <2>1. k + 1 \in 1 .. Len(q) /\ k + 1 \in 0 .. Len(q) /\ (k + 1) - 1 = k
    BY <1>3
  <2>2. f[k + 1] = Took(f[k], q[k + 1]) /\ g[k + 1] = Took(g[k], q[k + 1])
    BY <1>1, <2>1
  <2> QED BY <1>3, <2>1, <2>2
<1> HIDE DEF S
<1>4. \A k \in 0 .. Len(q) : k \in S
  BY <1>2, <1>3, UpTo
<1> QED
  BY <1>1, <1>4 DEF S

(* Nothing is on its way.                                                  *)
LEMMA FinalEmpty ==
  ASSUME NEW v
  PROVE  Final(v, << >>) = v
<1>1. Len(<< >>) = 0
  OBVIOUS
<1>2. PICK f : f[0] = v /\ f[0] = Final(v, << >>)
  BY <1>1, FinalRuns
<1> QED
  BY <1>2

(* One message more.                                                       *)
LEMMA FinalMore ==
  ASSUME NEW T, NEW q \in Seq(T), NEW m \in T, NEW v
  PROVE  Final(v, Append(q, m)) = Took(Final(v, q), m)
<1> DEFINE r == Append(q, m)  n == Len(q)
<1>1. n \in Nat /\ Len(r) = n + 1 /\ (\A i \in 1 .. n : r[i] = q[i]) /\ r[n + 1] = m
  BY AppendProperties, LenProperties
<1> HIDE DEF r
<1>2. PICK f : /\ f[0] = v /\ f[n] = Final(v, q)
               /\ \A k \in 1 .. n : f[k] = Took(f[k - 1], q[k])
  BY <1>1, FinalRuns
<1> HIDE DEF n
<1> DEFINE g == [ k \in 0 .. n + 1 |-> IF k <= n THEN f[k] ELSE Took(f[n], m) ]
<1>3. g[0] = v /\ g[n] = f[n] /\ g[n + 1] = Took(f[n], m)
  BY <1>1, <1>2
<1>4. ASSUME NEW k \in 1 .. n + 1 PROVE g[k] = Took(g[k - 1], r[k])
  <2>1. CASE k <= n
    <3>1. k \in 1 .. n /\ k - 1 \in 0 .. n + 1 /\ k - 1 <= n /\ k \in 0 .. n + 1
      BY <1>1, <2>1
    <3>2. g[k] = f[k] /\ g[k - 1] = f[k - 1]
      BY <2>1, <3>1
    <3> QED BY <1>1, <1>2, <3>1, <3>2
  <2>2. CASE k = n + 1
    <3>1. k - 1 = n
      BY <1>1, <2>2
    <3> QED BY <1>1, <1>3, <2>2, <3>1
  <2> QED BY <1>1, <2>1, <2>2
<1> HIDE DEF g
<1>5. Final(v, r) = g[n + 1]
  <2>1. Len(r) \in Nat
    BY <1>1
  <2> QED BY <1>1, <1>3, <1>4, <2>1, FinalIs, SMTT(30)
<1> QED
  BY <1>2, <1>3, <1>5 DEF r

(* The first message is done, the others are on their way.                 *)
LEMMA FinalTail ==
  ASSUME NEW T, NEW q \in Seq(T), q # << >>, NEW v
  PROVE  Final(v, q) = Final(Took(v, Head(q)), Tail(q))
<1> DEFINE r == Tail(q)  n == Len(q)  w == Took(v, Head(q))
<1>1. /\ n \in Nat /\ n >= 1 /\ Len(r) = n - 1
      /\ \A i \in 1 .. n - 1 : r[i] = q[i + 1]
      /\ Head(q) = q[1]
  BY HeadTailProperties, LenProperties, EmptySeq
<1> HIDE DEF r, w
<1>2. PICK f : /\ f[0] = w /\ f[n - 1] = Final(w, r)
               /\ \A k \in 1 .. n - 1 : f[k] = Took(f[k - 1], r[k])
  BY <1>1, FinalRuns
<1> HIDE DEF n
<1> DEFINE g == [ k \in 0 .. n |-> IF k = 0 THEN v ELSE f[k - 1] ]
<1>3. g[0] = v /\ g[n] = f[n - 1]
  BY <1>1
<1>4. ASSUME NEW k \in 1 .. n PROVE g[k] = Took(g[k - 1], q[k])
  <2>1. CASE k = 1
    <3>1. g[1] = w /\ k - 1 = 0
      BY <1>1, <1>2, <2>1
    <3> QED BY <1>1, <1>3, <2>1, <3>1 DEF w
  <2>2. CASE k # 1
    <3>1. k - 1 \in 1 .. n - 1 /\ k - 1 \in 0 .. n /\ k - 1 # 0 /\ (k - 1) + 1 = k
      BY <1>1, <2>2
    <3>2. g[k] = f[k - 1] /\ g[k - 1] = f[(k - 1) - 1]
      BY <3>1
    <3>3. f[k - 1] = Took(f[(k - 1) - 1], r[k - 1]) /\ r[k - 1] = q[k]
      BY <1>1, <1>2, <3>1
    <3> QED BY <3>2, <3>3
  <2> QED BY <2>1, <2>2
<1> HIDE DEF g
<1>5. Final(v, q) = g[n]
  BY <1>1, <1>3, <1>4, FinalIs DEF n
<1> QED
  BY <1>2, <1>3, <1>5 DEF r, w

(* Only the kinds and fields of the messages count.                        *)
LEMMA FinalSame ==
  ASSUME NEW q, NEW r, Len(q) \in Nat, Len(r) = Len(q), NEW v,
         \A k \in 1 .. Len(q) : r[k].ops = q[k].ops /\ r[k].kind = q[k].kind
  PROVE  Final(v, r) = Final(v, q)
<1>1. PICK f : /\ f[0] = v /\ f[Len(q)] = Final(v, q)
               /\ \A k \in 1 .. Len(q) : f[k] = Took(f[k - 1], q[k])
  BY FinalRuns
<1>2. \A k \in 1 .. Len(r) : f[k] = Took(f[k - 1], r[k])
  BY <1>1 DEF Took
<1> QED
  BY <1>1, <1>2, FinalIs

(* Costs granted before are granted after.                                 *)
LEMMA FinalShift ==
  ASSUME NEW w, NEW n \in Nat, NEW q, Len(q) \in Nat
  PROVE  LET p == Final([ wallet |-> w, spent |-> 0 ], q)
             r == Final([ wallet |-> w, spent |-> n ], q)
         IN  p.spent \in Nat /\ r = [ wallet |-> p.wallet, spent |-> p.spent + n ]
<1> DEFINE v == [ wallet |-> w, spent |-> 0 ]  z == [ wallet |-> w, spent |-> n ]
<1>0. v.wallet = w /\ v.spent = 0 /\ z = [ wallet |-> v.wallet, spent |-> v.spent + n ]
  OBVIOUS
<1> HIDE DEF v, z
<1>1. PICK f : /\ f[0] = v /\ f[Len(q)] = Final(v, q)
               /\ \A k \in 1 .. Len(q) : f[k] = Took(f[k - 1], q[k])
  BY FinalRuns
<1>2. PICK g : /\ g[0] = z /\ g[Len(q)] = Final(z, q)
               /\ \A k \in 1 .. Len(q) : g[k] = Took(g[k - 1], q[k])
  BY FinalRuns
<1> DEFINE S == { k \in 0 .. Len(q) : f[k].spent \in Nat
                    /\ g[k] = [ wallet |-> f[k].wallet, spent |-> f[k].spent + n ] }
<1>3. 0 \in S
  BY <1>0, <1>1, <1>2
<1>4. ASSUME NEW k \in 0 .. Len(q), k < Len(q), k \in S PROVE k + 1 \in S
  <2>1. k + 1 \in 1 .. Len(q) /\ k + 1 \in 0 .. Len(q) /\ (k + 1) - 1 = k
    BY <1>4
  <2>2. f[k + 1] = Took(f[k], q[k + 1]) /\ g[k + 1] = Took(g[k], q[k + 1])
    BY <1>1, <1>2, <2>1
  <2>3. f[k].spent \in Nat /\ g[k].wallet = f[k].wallet /\ g[k].spent = f[k].spent + n
        /\ g[k] = [ wallet |-> f[k].wallet, spent |-> f[k].spent + n ]
    BY <1>4
  <2> DEFINE a == AllDone(f[k].wallet, q[k + 1].ops)  c == IF q[k + 1].kind = "cost" THEN 1 ELSE 0
  <2>4. CASE Fits(a)
    <3>1. f[k + 1] = [ wallet |-> a, spent |-> f[k].spent + c ]
      BY <2>2, <2>4 DEF Took
    <3>2. g[k + 1] = [ wallet |-> a, spent |-> g[k].spent + c ]
      BY <2>2, <2>3, <2>4 DEF Took
    <3>3. c \in Nat
      OBVIOUS
    <3> HIDE DEF a, c
    <3>4. f[k + 1].wallet = a /\ f[k + 1].spent = f[k].spent + c /\ f[k + 1].spent \in Nat
      BY <2>3, <3>1, <3>3
    <3>5. g[k].spent + c = f[k + 1].spent + n
      BY <2>3, <3>3, <3>4
    <3> QED BY <2>1, <3>2, <3>4, <3>5
  <2>5. CASE ~Fits(a)
    <3>1. f[k + 1] = f[k] /\ g[k + 1] = g[k]
      BY <2>2, <2>3, <2>5 DEF Took
    <3> QED BY <1>4, <2>1, <3>1
  <2> QED BY <2>4, <2>5
<1> HIDE DEF S
<1>5. \A k \in 0 .. Len(q) : k \in S
  BY <1>3, <1>4, UpTo
<1>6. Len(q) \in 0 .. Len(q)
  OBVIOUS
<1>7. f[Len(q)].spent \in Nat /\ g[Len(q)] = [ wallet |-> f[Len(q)].wallet, spent |-> f[Len(q)].spent + n ]
  BY <1>5, <1>6 DEF S
<1>8. Final(v, q).spent \in Nat
      /\ Final(z, q) = [ wallet |-> Final(v, q).wallet, spent |-> Final(v, q).spent + n ]
  BY <1>1, <1>2, <1>7
<1> QED
  BY <1>8 DEF v, z

-----------------------------------------------------------------------------
(* What a message does to the briefs of a bar *)

(* The brief a field adds.                                                 *)
Brought(op) == [ tbid |-> op.tbid, master |-> op.master, chips |-> op.n ]

(* A field changes the purse by what it says, adds no brief but its own,   *)
(* and leaves the briefs of other bars alone.                              *)
LEMMA DoneOf ==
  ASSUME NEW T, NEW w \in Loose(T), NEW op, OpTyped(op, T), NEW b
  PROVE  /\ Done(w, op).chips = w.chips + IF op.field = "purse" THEN op.n ELSE 0
         /\ op.field # "bar" => \A x \in Of(Done(w, op).briefs, b) :
              x \in Of(w.briefs, b) \/ (op.field = "add" /\ x = Brought(op))
         /\ Aside(op, b) => Of(Done(w, op).briefs, b) = Of(w.briefs, b)
<1> DEFINE s == w.briefs
           k == At(s, op.tbid)
<1>0. /\ s \in Seq(LooseBrief(T)) /\ w = [briefs |-> s, chips |-> w.chips] /\ w.chips \in Int
      /\ op.n \in Int /\ op.field \in {"add", "del", "bar", "purse"}
  BY DEF Loose, OpTyped, Op
<1>s. /\ Len(s) \in Nat /\ DOMAIN s = 1 .. Len(s)
      /\ \A i \in 1 .. Len(s) : s[i] \in LooseBrief(T)
  BY <1>0, LenProperties
<1>1. CASE op.field = "add"
  <2> DEFINE new == Brought(op)
             t == Append(s, new)
  <2>1. new \in LooseBrief(T) /\ new.tbid = op.tbid
    BY <1>1 DEF OpTyped, LooseBrief, Brought
  <2>2. /\ Len(t) = Len(s) + 1 /\ DOMAIN t = 1 .. Len(s) + 1
        /\ \A i \in 1 .. Len(s) : t[i] = s[i]
        /\ t[Len(s) + 1] = new
    BY <2>1, <1>0, <1>s, AppendProperties, LenProperties
  <2>3. Done(w, op).briefs = t /\ Done(w, op).chips = w.chips
    <3>1. Done(w, op) = [w EXCEPT !.briefs = Append(@, new)]
      BY <1>1 DEF Done, Brought
    <3> QED BY <3>1, <1>0
  <2> HIDE DEF t, new
  <2>4. ASSUME NEW x \in Of(t, b) PROVE x \in Of(s, b) \/ (x = new /\ op.tbid = b)
    <3>1. PICK i \in DOMAIN t : x = t[i] /\ t[i].tbid = b
      BY <2>4 DEF Of
    <3>2. CASE i = Len(s) + 1
      BY <3>1, <3>2, <2>1, <2>2
    <3>3. CASE i # Len(s) + 1
      <4>1. i \in DOMAIN s /\ t[i] = s[i]
        BY <3>3, <2>2, <1>s
      <4> HIDE DEF s
      <4> QED BY <3>1, <4>1 DEF Of
    <3> QED BY <3>2, <3>3
  <2>5. ASSUME NEW x \in Of(s, b) PROVE x \in Of(t, b)
    <3>1. PICK i \in DOMAIN s : x = s[i] /\ s[i].tbid = b
      BY <2>5 DEF Of
    <3>2. i \in DOMAIN t /\ t[i] = s[i]
      BY <2>2, <1>s
    <3> QED BY <3>1, <3>2 DEF Of
  <2> HIDE DEF s
  <2>6. /\ \A x \in Of(t, b) : x \in Of(s, b) \/ (op.field = "add" /\ x = Brought(op))
        /\ Aside(op, b) => Of(t, b) = Of(s, b)
    BY <1>1, <2>4, <2>5 DEF Aside, new
  <2> QED BY <1>0, <1>1, <2>3, <2>6 DEF s
<1>2. CASE op.field = "del" /\ Has(s, op.tbid)
  <2> DEFINE t == RemoveAt(s, k)
  <2>1. k \in 1 .. Len(s) /\ s[k].tbid = op.tbid
    BY <1>2, <1>s, AtFound
  <2>2. t \in Seq(LooseBrief(T)) /\ Len(t) = Len(s) - 1
        /\ \A i \in 1 .. Len(s) - 1 : t[i] = IF i < k THEN s[i] ELSE s[i + 1]
    BY <2>1, <1>0, Removed
  <2>3. DOMAIN t = 1 .. Len(s) - 1
    BY <2>2, LenProperties
  <2>4. Done(w, op) = [w EXCEPT !.briefs = RemoveAt(@, k)]
    BY <1>2 DEF Done
  <2>5. Done(w, op).briefs = t /\ Done(w, op).chips = w.chips
    BY <2>4, <1>0
  <2> HIDE DEF t, k
  <2>6. ASSUME NEW x \in Of(t, b) PROVE x \in Of(s, b)
    <3>1. PICK i \in DOMAIN t : x = t[i] /\ t[i].tbid = b
      BY <2>6 DEF Of
    <3>2. i \in 1 .. Len(s) - 1 /\ i \in DOMAIN s /\ i + 1 \in DOMAIN s
      BY <2>3, <1>s
    <3>3. t[i] = s[i] \/ t[i] = s[i + 1]
      BY <2>2, <3>2
    <3>4. PICK j \in DOMAIN s : x = s[j] /\ s[j].tbid = b
      BY <3>1, <3>2, <3>3
    <3> QED BY <3>4 DEF Of
  <2>7. ASSUME Aside(op, b), NEW x \in Of(s, b) PROVE x \in Of(t, b)
    <3>1. PICK i \in DOMAIN s : x = s[i] /\ s[i].tbid = b
      BY <2>7 DEF Of
    <3>2. i # k
      BY <1>2, <2>1, <2>7, <3>1 DEF Aside
    <3>3. PICK j \in DOMAIN t : t[j] = s[i]
      <4>1. CASE i < k
        <5>1. i \in 1 .. Len(s) - 1
          BY <1>s, <2>1, <4>1
        <5> QED BY <2>2, <2>3, <4>1, <5>1
      <4>2. CASE ~(i < k)
        <5>1. i - 1 \in 1 .. Len(s) - 1 /\ ~(i - 1 < k) /\ (i - 1) + 1 = i
          BY <1>s, <2>1, <3>2, <4>2
        <5>2. t[i - 1] = s[i]
          BY <2>2, <5>1
        <5> QED BY <2>3, <5>1, <5>2
      <4> QED BY <4>1, <4>2
    <3> QED BY <3>1, <3>3 DEF Of
  <2> HIDE DEF s
  <2>8. Aside(op, b) => Of(t, b) = Of(s, b)
    <3>1. Aside(op, b) => \A x : x \in Of(t, b) <=> x \in Of(s, b)
      BY <2>6, <2>7
    <3> QED BY <3>1
  <2>9. \A x \in Of(t, b) : x \in Of(s, b)
    BY <2>6
  <2>10. w.chips + 0 = w.chips
    BY <1>0
  <2> QED BY <1>2, <2>5, <2>8, <2>9, <2>10 DEF s
<1>3. CASE op.field = "bar" /\ Has(s, op.tbid)
  <2>1. k \in 1 .. Len(s) /\ s[k].tbid = op.tbid
    BY <1>3, <1>s, AtFound
  <2> DEFINE e == [s[k] EXCEPT !.chips = @ + op.n]
             t == [s EXCEPT ![k] = e]
  <2>2. Done(w, op) = [w EXCEPT !.briefs = t]
    <3>1. Done(w, op) = [w EXCEPT !.briefs[k].chips = @ + op.n]
      BY <1>3 DEF Done
    <3> QED BY <3>1, <1>0
  <2>3. Done(w, op).briefs = t /\ Done(w, op).chips = w.chips
    BY <2>2, <1>0
  <2> HIDE DEF k
  <2>4. e.tbid = op.tbid
    BY <2>1, <1>s DEF LooseBrief
  <2>5. DOMAIN t = DOMAIN s /\ t[k] = e /\ \A i \in DOMAIN s : i # k => t[i] = s[i]
    BY <2>1, <1>s
  <2> HIDE DEF t, e
  <2>6. ASSUME Aside(op, b) PROVE Of(t, b) = Of(s, b)
    <3>1. op.tbid # b
      BY <1>3, <2>6 DEF Aside
    <3>2. \A i \in DOMAIN s : /\ t[i].tbid = b <=> s[i].tbid = b
                              /\ s[i].tbid = b => t[i] = s[i]
      BY <2>1, <2>4, <2>5, <3>1, <1>s
    <3> HIDE DEF s
    <3>3. \A x : x \in Of(t, b) <=> x \in Of(s, b)
      BY <2>5, <3>2 DEF Of
    <3> QED BY <3>3
  <2> HIDE DEF s
  <2> QED BY <1>0, <1>3, <2>3, <2>6 DEF s
<1>4. CASE op.field = "purse"
  <2>1. Done(w, op) = [w EXCEPT !.chips = @ + op.n]
    BY <1>4 DEF Done
  <2>2. Done(w, op).briefs = s /\ Done(w, op).chips = w.chips + op.n
    BY <2>1, <1>0
  <2> HIDE DEF s
  <2> QED BY <2>2, <1>4 DEF s
<1>5. CASE op.field \in {"del", "bar"} /\ ~Has(s, op.tbid)
  <2>1. Done(w, op) = w
    BY <1>5 DEF Done
  <2> HIDE DEF s
  <2> QED BY <2>1, <1>5, <1>0 DEF s
<1> QED
  BY <1>0, <1>1, <1>2, <1>3, <1>4, <1>5

(* A message about other bars leaves the briefs of this one alone.         *)
LEMMA MessageAside ==
  ASSUME NEW T, NEW w \in Loose(T), NEW ops, OpsTyped(ops, T), NEW b,
         \A k \in DOMAIN ops : Aside(ops[k], b)
  PROVE  Of(AllDone(w, ops).briefs, b) = Of(w.briefs, b)
<1>1. Len(ops) \in Nat /\ DOMAIN ops = 1 .. Len(ops)
  BY LenProperties DEF OpsTyped
<1>2. PICK f : /\ f = [k \in 0 .. Len(ops) |-> IF k = 0 THEN w ELSE After(f[k - 1], ops[k])]
               /\ AllDone(w, ops) = f[Len(ops)]
  BY <1>1, AllDoneRuns
<1>3. f[0] = w /\ \A k \in 0 .. Len(ops) : k < Len(ops) => f[k + 1] = After(f[k], ops[k + 1])
  BY <1>1, <1>2
<1> DEFINE S == { k \in 0 .. Len(ops) : f[k] \in Loose(T) /\ Of(f[k].briefs, b) = Of(w.briefs, b) }
<1>4. 0 \in S
  BY <1>1, <1>3
<1>5. ASSUME NEW k \in 0 .. Len(ops), k < Len(ops), k \in S PROVE k + 1 \in S
  <2>1. k + 1 \in DOMAIN ops /\ k + 1 \in 0 .. Len(ops)
    BY <1>1, <1>5
  <2>2. OpTyped(ops[k + 1], T) /\ Aside(ops[k + 1], b)
    BY <2>1 DEF OpsTyped
  <2>3. f[k] \in Loose(T) /\ Of(f[k].briefs, b) = Of(w.briefs, b)
    BY <1>5
  <2>4. CASE Fits(f[k])
    <3>1. f[k + 1] = Done(f[k], ops[k + 1])
      BY <1>3, <1>5, <2>4 DEF After
    <3>2. f[k + 1] \in Loose(T)
      BY <2>2, <2>3, <3>1, DoneLoose
    <3>3. Of(f[k + 1].briefs, b) = Of(f[k].briefs, b)
      BY <2>2, <2>3, <3>1, DoneOf
    <3> QED BY <2>1, <2>3, <3>2, <3>3
  <2>5. CASE ~Fits(f[k])
    BY <1>3, <1>5, <2>1, <2>3, <2>5 DEF After
  <2> QED BY <2>4, <2>5
<1> HIDE DEF S
<1>6. \A k \in 0 .. Len(ops) : k \in S
  BY <1>1, <1>4, <1>5, UpTo
<1> QED
  BY <1>1, <1>2, <1>6 DEF S

(* A message without payments of a bar's chips adds no briefs but those of *)
(* its fields, and changes the purse by what its first field says, when no *)
(* other is about the purse.                                               *)
LEMMA MessagePlain ==
  ASSUME NEW T, NEW w \in Loose(T), Fits(w), NEW ops, OpsTyped(ops, T),
         \A k \in DOMAIN ops : ops[k].field # "bar" /\ (ops[k].field = "purse" => ops[k].n \in Nat)
  PROVE  /\ Fits(AllDone(w, ops))
         /\ \A b : \A x \in Of(AllDone(w, ops).briefs, b) :
              x \in Of(w.briefs, b) \/ \E k \in DOMAIN ops : ops[k].field = "add" /\ x = Brought(ops[k])
         /\ (\A k \in DOMAIN ops : k # 1 => ops[k].field # "purse") =>
              AllDone(w, ops).chips =
                w.chips + IF 1 \in DOMAIN ops /\ ops[1].field = "purse" THEN ops[1].n ELSE 0
<1>1. Len(ops) \in Nat /\ DOMAIN ops = 1 .. Len(ops)
  BY LenProperties DEF OpsTyped
<1>2. PICK f : /\ f = [k \in 0 .. Len(ops) |-> IF k = 0 THEN w ELSE After(f[k - 1], ops[k])]
               /\ AllDone(w, ops) = f[Len(ops)]
  BY <1>1, AllDoneRuns
<1>3. f[0] = w /\ \A k \in 0 .. Len(ops) : k < Len(ops) => f[k + 1] = After(f[k], ops[k + 1])
  BY <1>1, <1>2
<1> DEFINE new(x) == \E k \in DOMAIN ops : ops[k].field = "add" /\ x = Brought(ops[k])
           paid == IF 1 \in DOMAIN ops /\ ops[1].field = "purse" THEN ops[1].n ELSE 0
           once == \A k \in DOMAIN ops : k # 1 => ops[k].field # "purse"
           S == { k \in 0 .. Len(ops) :
                    /\ f[k] \in Loose(T) /\ Fits(f[k])
                    /\ \A b : \A x \in Of(f[k].briefs, b) : x \in Of(w.briefs, b) \/ new(x)
                    /\ once => f[k].chips = w.chips + IF k = 0 THEN 0 ELSE paid }
<1>w. w.chips \in Int /\ paid \in Int
  <2>1. CASE 1 \in DOMAIN ops /\ ops[1].field = "purse"
    BY <2>1 DEF Loose
  <2>2. CASE ~(1 \in DOMAIN ops /\ ops[1].field = "purse")
    BY <2>2 DEF Loose
  <2> QED BY <2>1, <2>2
<1>4. 0 \in S
  BY <1>1, <1>3, <1>w
<1>5. ASSUME NEW k \in 0 .. Len(ops), k < Len(ops), k \in S PROVE k + 1 \in S
  <2> DEFINE op == ops[k + 1]
  <2>1. k + 1 \in DOMAIN ops /\ k + 1 \in 0 .. Len(ops) /\ k + 1 # 0
    BY <1>1, <1>5
  <2>2. OpTyped(op, T) /\ op.field # "bar" /\ (op.field = "purse" => op.n \in Nat)
    BY <2>1 DEF OpsTyped
  <2>3. /\ f[k] \in Loose(T) /\ Fits(f[k])
        /\ \A b : \A x \in Of(f[k].briefs, b) : x \in Of(w.briefs, b) \/ new(x)
        /\ once => f[k].chips = w.chips + IF k = 0 THEN 0 ELSE paid
    BY <1>5
  <2>4. f[k + 1] = Done(f[k], op)
    BY <1>3, <1>5, <2>3 DEF After
  <2> HIDE DEF S
  <2>5. f[k + 1] \in Loose(T) /\ Fits(f[k + 1])
    <3> HIDE DEF op
    <3> QED BY <2>2, <2>3, <2>4, DoneLoose, DoneFits
  <2>6. ASSUME NEW b, NEW x \in Of(f[k + 1].briefs, b) PROVE x \in Of(w.briefs, b) \/ new(x)
    <3>1. x \in Of(f[k].briefs, b) \/ (op.field = "add" /\ x = Brought(op))
      <4> HIDE DEF op, new
      <4>1. \A y \in Of(Done(f[k], op).briefs, b) :
              y \in Of(f[k].briefs, b) \/ (op.field = "add" /\ y = Brought(op))
        <5>1. PICK v : v = f[k]
          OBVIOUS
        <5>2. v \in Loose(T) /\ OpTyped(op, T) /\ op.field # "bar"
          BY <2>2, <2>3, <5>1
        <5>3. \A y \in Of(Done(v, op).briefs, b) :
                y \in Of(v.briefs, b) \/ (op.field = "add" /\ y = Brought(op))
          BY <5>2, DoneOf, ZenonT(60)
        <5> QED BY <5>1, <5>3
      <4> QED BY <2>4, <2>6, <4>1
    <3> QED BY <2>1, <2>3, <3>1
  <2>7. ASSUME once PROVE f[k + 1].chips = w.chips + paid
    <3>1. f[k + 1].chips = f[k].chips + IF op.field = "purse" THEN op.n ELSE 0
      <4> HIDE DEF op
      <4> QED BY <2>2, <2>3, <2>4, DoneOf
    <3>2. CASE k = 0
      <4>1. paid = IF op.field = "purse" THEN op.n ELSE 0
        BY <2>1, <3>2
      <4>2. f[k].chips = w.chips
        BY <1>3, <3>2
      <4> QED BY <3>1, <4>1, <4>2
    <3>3. CASE k # 0
      <4>1. op.field # "purse"
        BY <2>1, <2>7, <3>3
      <4>2. f[k].chips = w.chips + paid
        BY <2>3, <2>7, <3>3
      <4> HIDE DEF op, paid
      <4> QED BY <1>w, <3>1, <4>1, <4>2
    <3> QED BY <3>2, <3>3
  <2> HIDE DEF new, paid, once
  <2> QED BY <2>1, <2>5, <2>6, <2>7 DEF S
<1> HIDE DEF S
<1>6. \A k \in 0 .. Len(ops) : k \in S
  BY <1>1, <1>4, <1>5, UpTo
<1>7. Len(ops) \in S
  BY <1>1, <1>6
<1>8. /\ Fits(f[Len(ops)])
      /\ \A b : \A x \in Of(f[Len(ops)].briefs, b) : x \in Of(w.briefs, b) \/ new(x)
      /\ once => f[Len(ops)].chips = w.chips + IF Len(ops) = 0 THEN 0 ELSE paid
  <2> HIDE DEF new, paid, once
  <2> QED BY <1>7 DEF S
<1>9. Len(ops) = 0 => paid = 0
  BY <1>1
<1>10. once => f[Len(ops)].chips = w.chips + paid
  <2> HIDE DEF paid, once
  <2> QED BY <1>8, <1>9
<1> QED
  BY <1>2, <1>8, <1>10

-----------------------------------------------------------------------------
(* What users will have *)

GoodEnd(v, T) == v.wallet \in Loose(T) /\ Fits(v.wallet) /\ v.spent \in Nat

(* A message that is refused is a put or a cost, and leads nowhere.        *)
LEMMA Refused ==
  ASSUME NEW T, NEW w \in Loose(T), Fits(w), NEW m, MessageOK(m, T), ~Fits(AllDone(w, m.ops))
  PROVE  m.kind \in {"put", "cost"} /\ \A k \in DOMAIN m.ops : m.ops[k].field \in {"bar", "purse"}
<1>1. OpsTyped(m.ops, T)
  BY OpsTypedOK
<1>2. m.kind \in {"put", "cost"}
  <2>1. PICK k \in DOMAIN m.ops : ~(m.ops[k].field # "bar" /\ (m.ops[k].field = "purse" => m.ops[k].n \in Nat))
    BY <1>1, MessageFits
  <2>2. OpOK(m.ops[k], m.kind, m.tbids)
    BY DEF MessageOK
  <2> QED BY <2>1, <2>2 DEF OpOK
<1>3. \A k \in DOMAIN m.ops : OpOK(m.ops[k], m.kind, m.tbids)
  BY DEF MessageOK
<1> QED BY <1>2, <1>3 DEF OpOK

(* After a message a user has what he can have, and his briefs show what   *)
(* the message leads to.                                                   *)
LEMMA TookGood ==
  ASSUME NEW T, NEW v, GoodEnd(v, T), NEW m, MessageOK(m, T)
  PROVE  /\ GoodEnd(Took(v, m), T)
         /\ \A u, b, x, y : Shows(v.wallet.briefs, u, b, x) /\ Leads(x, m.ops, u, b, y)
                              => Shows(Took(v, m).wallet.briefs, u, b, y)
<1> DEFINE a == AllDone(v.wallet, m.ops)
<1>1. OpsTyped(m.ops, T) /\ SeqLen(m.ops)
  BY OpsTypedOK
<1>2. v.wallet \in Loose(T) /\ Fits(v.wallet) /\ v.spent \in Nat
  BY DEF GoodEnd
<1>3. /\ a \in Loose(T)
      /\ Fits(a) => \A u, b, x, y : Shows(v.wallet.briefs, u, b, x) /\ Leads(x, m.ops, u, b, y)
                                      => Shows(a.briefs, u, b, y)
  BY <1>1, <1>2, MessageDone
<1>4. ASSUME ~Fits(a)
      PROVE  \A k \in DOMAIN m.ops : m.ops[k].field \in {"bar", "purse"}
  BY <1>2, <1>4, Refused
<1>5. CASE Fits(a)
  <2>1. Took(v, m) = [ wallet |-> a, spent |-> v.spent + (IF m.kind = "cost" THEN 1 ELSE 0) ]
    BY <1>5 DEF Took
  <2> HIDE DEF a
  <2>2. Took(v, m).wallet = a /\ Took(v, m).spent \in Nat
    BY <1>2, <2>1
  <2> QED BY <1>3, <1>5, <2>2 DEF GoodEnd
<1>6. CASE ~Fits(a)
  <2>1. Took(v, m) = v
    BY <1>6 DEF Took
  <2>2. ASSUME NEW u, NEW b, NEW x, NEW y, Shows(v.wallet.briefs, u, b, x), Leads(x, m.ops, u, b, y)
        PROVE  Shows(v.wallet.briefs, u, b, y)
    <3>1. x = y
      BY <1>1, <1>4, <1>6, <2>2, LeadsSteady
    <3> QED BY <2>2, <3>1
  <2> QED BY <2>1, <2>2
<1> QED BY <1>5, <1>6

(* So has he after all messages of his queue.                              *)
LEMMA FinalGood ==
  ASSUME NEW T, NEW v, GoodEnd(v, T), NEW q, SeqLen(q), \A k \in DOMAIN q : MessageOK(q[k], T)
  PROVE  /\ GoodEnd(Final(v, q), T)
         /\ \A u, b, y : Comes(v.wallet.briefs, q, u, b, y) => Shows(Final(v, q).wallet.briefs, u, b, y)
<1>1. Len(q) \in Nat /\ DOMAIN q = 1 .. Len(q)
  BY DEF SeqLen
<1>2. PICK f : /\ f[0] = v /\ f[Len(q)] = Final(v, q)
               /\ \A k \in 1 .. Len(q) : f[k] = Took(f[k - 1], q[k])
  BY <1>1, FinalRuns
<1>3. ASSUME NEW k \in 0 .. Len(q), k < Len(q)
      PROVE  /\ k + 1 \in 1 .. Len(q) /\ k + 1 \in 0 .. Len(q) /\ (k + 1) - 1 = k
             /\ f[k + 1] = Took(f[k], q[k + 1]) /\ MessageOK(q[k + 1], T)
  <2>1. k + 1 \in 1 .. Len(q) /\ k + 1 \in 0 .. Len(q) /\ (k + 1) - 1 = k
    BY <1>1, <1>3
  <2>2. f[k + 1] = Took(f[(k + 1) - 1], q[k + 1])
    BY <1>2, <2>1
  <2> QED BY <1>1, <2>1, <2>2
<1>4. \A k \in 0 .. Len(q) : GoodEnd(f[k], T)
  <2> DEFINE S == { k \in 0 .. Len(q) : GoodEnd(f[k], T) }
  <2>1. 0 \in S
    BY <1>1, <1>2
  <2>2. ASSUME NEW k \in 0 .. Len(q), k < Len(q), k \in S PROVE k + 1 \in S
    <3>1. GoodEnd(f[k], T) /\ MessageOK(q[k + 1], T)
      BY <1>3, <2>2
    <3>2. GoodEnd(Took(f[k], q[k + 1]), T)
      BY <3>1, TookGood
    <3> QED BY <1>3, <2>2, <3>2
  <2> HIDE DEF S
  <2>3. \A k \in 0 .. Len(q) : k \in S
    BY <1>1, <2>1, <2>2, UpTo
  <2> QED BY <2>3 DEF S
<1>5. ASSUME NEW u, NEW b, NEW y, Comes(v.wallet.briefs, q, u, b, y)
      PROVE  Shows(f[Len(q)].wallet.briefs, u, b, y)
  <2>1. PICK h \in [0 .. Len(q) -> Standing] :
          /\ Shows(v.wallet.briefs, u, b, h[0]) /\ h[Len(q)] = y
          /\ \A k \in 1 .. Len(q) : Leads(h[k - 1], q[k].ops, u, b, h[k])
    BY <1>5 DEF Comes
  <2> DEFINE S == { k \in 0 .. Len(q) : Shows(f[k].wallet.briefs, u, b, h[k]) }
  <2>2. 0 \in S
    BY <1>1, <1>2, <2>1
  <2>3. ASSUME NEW k \in 0 .. Len(q), k < Len(q), k \in S PROVE k + 1 \in S
    <3>1. GoodEnd(f[k], T) /\ MessageOK(q[k + 1], T) /\ Shows(f[k].wallet.briefs, u, b, h[k])
      BY <1>3, <1>4, <2>3
    <3>2. Leads(h[k], q[k + 1].ops, u, b, h[k + 1])
      <4>1. k + 1 \in 1 .. Len(q) /\ (k + 1) - 1 = k
        BY <1>3, <2>3
      <4>2. Leads(h[(k + 1) - 1], q[k + 1].ops, u, b, h[k + 1])
        BY <2>1, <4>1
      <4> QED BY <4>1, <4>2
    <3>3. Shows(Took(f[k], q[k + 1]).wallet.briefs, u, b, h[k + 1])
      BY <3>1, <3>2, TookGood
    <3> QED BY <1>3, <2>3, <3>3
  <2> HIDE DEF S
  <2>4. \A k \in 0 .. Len(q) : k \in S
    BY <1>1, <2>2, <2>3, UpTo
  <2>5. Len(q) \in S
    BY <1>1, <2>4
  <2> QED BY <2>1, <2>5 DEF S
<1>6. GoodEnd(f[Len(q)], T)
  BY <1>1, <1>4
<1> QED BY <1>2, <1>5, <1>6

(* What a user has now he can have.                                        *)
LEMMA NowGood ==
  ASSUME UserOK, NEW u \in Users
  PROVE  GoodEnd(Now(u), Tbids) /\ Now(u).wallet.briefs = briefs[u]
<1>1. briefs[u] \in Seq(Brief) /\ chips[u] \in Nat
  BY DEF UserOK
<1>2. \A k \in DOMAIN briefs[u] : briefs[u][k] \in Brief
  BY <1>1, LenProperties
<1>3. \A k \in DOMAIN briefs[u] : briefs[u][k] \in LooseBrief(Tbids)
  BY <1>1, <1>2 DEF Brief, LooseBrief
<1>4. briefs[u] \in Seq(LooseBrief(Tbids))
  BY <1>1, <1>3, ElementsIn
<1>5. \A k \in DOMAIN briefs[u] : briefs[u][k].chips >= 0
  BY <1>2 DEF Brief
<1> DEFINE w == [ briefs |-> briefs[u], chips |-> chips[u] ]
<1>6. w \in Loose(Tbids) /\ Fits(w)
  BY <1>1, <1>4, <1>5 DEF Loose, Fits
<1>7. Now(u) = [ wallet |-> w, spent |-> 0 ]
  BY DEF Now
<1> QED BY <1>6, <1>7 DEF GoodEnd

(* What users will have when all that is on its way is done, and that      *)
(* their briefs will show what is due.                                     *)
EndsRight ==
  \A u \in Users :
    /\ GoodEnd(End[u], Tbids)
    /\ \A b \in Tbids \ spoilt : Shows(End[u].wallet.briefs, u, b, Due(u, b))

(* The messages on their way lead there.                                   *)
LEMMA EndsAre == IInv => EndsRight
<1> SUFFICES ASSUME IInv, NEW u \in Users
             PROVE  /\ GoodEnd(End[u], Tbids)
                    /\ \A b \in Tbids \ spoilt : Shows(End[u].wallet.briefs, u, b, Due(u, b))
  BY DEF EndsRight
<1>1. Shape
  BY DEF IInv
<1>2. GoodEnd(Now(u), Tbids) /\ Now(u).wallet.briefs = briefs[u]
  BY <1>1, NowGood DEF Shape
<1>3. SeqLen(updates[u]) /\ \A k \in DOMAIN updates[u] : MessageOK(updates[u][k], Tbids)
  <2>1. SeqLen(updates[u]) /\ \A k \in DOMAIN updates[u] : MessageOK(updates[u][k], Given)
    BY <1>1, QueueLen DEF Shape, UpdatesOK
  <2> QED BY <2>1, ShapeBars DEF MessageOK
<1>4. End[u] = Final(Now(u), updates[u])
  BY DEF End
<1>5. /\ GoodEnd(Final(Now(u), updates[u]), Tbids)
      /\ \A b, y : Comes(briefs[u], updates[u], u, b, y) =>
           Shows(Final(Now(u), updates[u]).wallet.briefs, u, b, y)
  <2>1. PICK v : v = Now(u)
    OBVIOUS
  <2>2. GoodEnd(v, Tbids) /\ v.wallet.briefs = briefs[u]
    BY <1>2, <2>1
  <2>3. /\ GoodEnd(Final(v, updates[u]), Tbids)
        /\ \A x, b, y : Comes(v.wallet.briefs, updates[u], x, b, y) =>
             Shows(Final(v, updates[u]).wallet.briefs, x, b, y)
    BY <1>3, <2>2, FinalGood
  <2> QED BY <2>1, <2>2, <2>3
<1>6. \A b \in Tbids \ spoilt : Comes(briefs[u], updates[u], u, b, Due(u, b))
  BY DEF IInv, Sound
<1> QED BY <1>4, <1>5, <1>6

(* And so it is in the next state.                                         *)
LEMMA EndsWill == IInv' => EndsRight'
  BY EndsAre, PTL

-----------------------------------------------------------------------------
(* The chips of a bar *)

(* Of several briefs with the same chips, or of one.                       *)
LEMMA InAll ==
  ASSUME NEW s, NEW b, NEW c, Of(s, b) # {}, \A x \in Of(s, b) : x.chips = c
  PROVE  In(s, b) = c
  BY DEF In

(* Of one brief of a bar, its chips.                                       *)
LEMMA InOne ==
  ASSUME NEW s, NEW b, Once(s, b), NEW k \in DOMAIN s, s[k].tbid = b
  PROVE  In(s, b) = s[k].chips
<1>1. s[k] \in Of(s, b)
  BY DEF Of
<1>2. \A x \in Of(s, b) : x = s[k]
  BY DEF Of, Once
<1> QED BY <1>1, <1>2, InAll

(* No brief, no chips; nor with a brief of a member.                       *)
LEMMA InNone ==
  ASSUME NEW s, NEW b, NEW u, NEW x, Shows(s, u, b, x), x # "own"
  PROVE  In(s, b) = 0
<1>1. CASE Has(s, b)
  <2>1. PICK k \in DOMAIN s : s[k].tbid = b
    BY <1>1 DEF Has
  <2>2. s[k].chips = 0 /\ Once(s, b)
    BY <2>1 DEF Shows
  <2> QED BY <2>1, <2>2, InOne
<1>2. CASE ~Has(s, b)
  <2>1. Of(s, b) = {}
    BY <1>2 DEF Of, Has
  <2> QED BY <2>1 DEF In
<1> QED BY <1>1, <1>2

(* The same briefs of a bar, the same chips.                               *)
LEMMA InSame ==
  ASSUME NEW s, NEW t, NEW b, Of(t, b) = Of(s, b)
  PROVE  In(t, b) = In(s, b)
  BY DEF In

(* Chips are numbers.                                                      *)
LEMMA InInt ==
  ASSUME NEW T, NEW v, GoodEnd(v, T), NEW b
  PROVE  In(v.wallet.briefs, b) \in Int
<1> DEFINE s == v.wallet.briefs
<1>1. s \in Seq(LooseBrief(T))
  BY DEF GoodEnd, Loose
<1> HIDE DEF s
<1>2. \A k \in DOMAIN s : s[k].chips \in Int
  <2>1. \A k \in DOMAIN s : s[k] \in LooseBrief(T)
    BY <1>1, LenProperties
  <2> QED BY <2>1 DEF LooseBrief
<1>3. \A x \in Of(s, b) : x.chips \in Int
  BY <1>2 DEF Of
<1>4. In(s, b) \in Int
  BY <1>3 DEF In
<1> QED BY <1>4 DEF s

-----------------------------------------------------------------------------
(* What a step does to the ledger *)

(* What goes on elsewhere.                                                 *)
LEMMA EndUntouched ==
  ASSUME NEW u \in Users, updates'[u] = updates[u], briefs'[u] = briefs[u], chips'[u] = chips[u]
  PROVE  End'[u] = End[u]
<1>1. End[u] = Final(Now(u), updates[u])
  BY DEF End
<1>2. End'[u] = Final(Now(u)', updates'[u])
  BY DEF End
<1>3. Now(u)' = Now(u)
  BY DEF Now
<1> QED BY <1>1, <1>2, <1>3

(* A message that is sent comes last.                                      *)
LEMMA EndSave ==
  ASSUME IInv, IInv', NEW s, NEW ops, Save(s, ops), UNCHANGED atUser, NEW u \in Users
  PROVE  IF ops[u] = << >> THEN End'[u] = End[u]
         ELSE \E m : /\ m.kind = s.kind /\ m.tbids = s.tbids /\ m.ops = ops[u]
                     /\ MessageOK(m, Tbids) /\ End'[u] = Took(End[u], m)
<1>0. briefs' = briefs /\ chips' = chips
  BY DEF atUser
<1>1. CASE ops[u] = << >>
  <2>1. updates'[u] = updates[u]
    BY <1>1 DEF Save
  <2> QED BY <1>0, <1>1, <2>1, EndUntouched
<1>2. CASE ops[u] # << >>
  <2>1. PICK m : m = [ kind |-> s.kind, tbids |-> s.tbids, live |-> TRUE, ops |-> ops[u] ]
    OBVIOUS
  <2>2. updates'[u] = Append(updates[u], m)
    BY <1>2, <2>1 DEF Save
  <2>3. UpdatesOK /\ UpdatesOK' /\ Given' \subseteq Tbids
    <3>1. BarsOK' /\ UpdatesOK' /\ UpdatesOK
      BY DEF IInv, Shape
    <3>2. max_tbid' \in 0 .. MaxTbid
      BY <3>1 DEF BarsOK
    <3>3. Given' \subseteq Tbids
      BY <3>2, Numbers DEF Given
    <3> QED BY <3>1, <3>3
  <2>4. PICK q : q = updates[u]
    OBVIOUS
  <2>5. q \in Seq(Update) /\ Len(q) \in Nat
    BY <2>3, <2>4, QueueLen DEF SeqLen
  <2>6. Append(q, m) \in Seq(Update)
    BY <2>2, <2>3, <2>4 DEF UpdatesOK
  <2>7. m \in Update /\ MessageOK(m, Tbids)
    <3>1. q \in Seq(Update \cup {m}) /\ m \in Update \cup {m}
      BY <2>5, LenProperties, ElementsIn
    <3>2. Len(Append(q, m)) = Len(q) + 1 /\ Append(q, m)[Len(q) + 1] = m
      BY <3>1, AppendProperties
    <3>3. DOMAIN Append(q, m) = 1 .. Len(q) + 1
      BY <2>6, <3>2, LenProperties
    <3>4. Len(q) + 1 \in DOMAIN updates'[u] /\ updates'[u][Len(q) + 1] = m
      BY <2>2, <2>4, <2>5, <3>2, <3>3
    <3>5. MessageOK(m, Given')
      BY <2>3, <3>4 DEF UpdatesOK
    <3> QED BY <2>3, <3>5 DEF MessageOK
  <2>8. End[u] = Final(Now(u), q) /\ End'[u] = Final(Now(u), Append(q, m))
    <3>1. Now(u)' = Now(u)
      BY <1>0 DEF Now
    <3> QED BY <2>2, <2>4, <3>1 DEF End
  <2>9. Final(Now(u), Append(q, m)) = Took(Final(Now(u), q), m)
    <3>1. PICK v : v = Now(u)
      OBVIOUS
    <3>2. Final(v, Append(q, m)) = Took(Final(v, q), m)
      BY <2>5, <2>7, FinalMore
    <3> QED BY <3>1, <3>2
  <2> QED BY <1>2, <2>1, <2>7, <2>8, <2>9
<1> QED BY <1>1, <1>2

(* Messages are about the bars of their sessions.                          *)
LEMMA SaveNamed ==
  ASSUME IInv, Named, NEW s, NEW ops, Save(s, ops), IInv',
         s.tbids # {} \/ \A u \in Users : ops[u] = << >>
  PROVE  Named'
<1> SUFFICES ASSUME NEW u \in Users, NEW k \in DOMAIN updates'[u] PROVE updates'[u][k].tbids # {}
  BY DEF Named
<1>1. CASE ops[u] = << >>
  BY <1>1 DEF Save, Named
<1>2. CASE ops[u] # << >>
  <2>1. PICK m : m = [ kind |-> s.kind, tbids |-> s.tbids, live |-> TRUE, ops |-> ops[u] ]
    OBVIOUS
  <2>2. updates'[u] = Append(updates[u], m)
    BY <1>2, <2>1 DEF Save
  <2>3. PICK q : q = updates[u]
    OBVIOUS
  <2>4. q \in Seq(Update) /\ DOMAIN q = 1 .. Len(q) /\ Len(q) \in Nat
    BY <2>3, QueueLen DEF SeqLen, IInv, Shape
  <2>5. q \in Seq(Update \cup {m}) /\ m \in Update \cup {m}
    BY <2>4, LenProperties, ElementsIn
  <2>6. /\ Append(q, m) \in Seq(Update \cup {m}) /\ Len(Append(q, m)) = Len(q) + 1
        /\ \A j \in 1 .. Len(q) : Append(q, m)[j] = q[j]
        /\ Append(q, m)[Len(q) + 1] = m
    BY <2>5, AppendProperties
  <2>7. DOMAIN Append(q, m) = 1 .. Len(q) + 1
    BY <2>6, LenProperties
  <2>8. k \in 1 .. Len(q) + 1 /\ updates'[u][k] = Append(q, m)[k]
    BY <2>2, <2>3, <2>7
  <2>9. CASE k \in 1 .. Len(q)
    BY <2>3, <2>4, <2>6, <2>8, <2>9 DEF Named
  <2>10. CASE k = Len(q) + 1
    BY <1>2, <2>1, <2>6, <2>8, <2>10
  <2> QED BY <2>4, <2>8, <2>9, <2>10
<1> QED BY <1>1, <1>2

(* A message about other bars leaves the chips of this one alone.          *)
LEMMA TookAside ==
  ASSUME NEW T, NEW v, GoodEnd(v, T), NEW m, MessageOK(m, T), NEW b,
         \A k \in DOMAIN m.ops : Aside(m.ops[k], b)
  PROVE  In(Took(v, m).wallet.briefs, b) = In(v.wallet.briefs, b)
<1> DEFINE a == AllDone(v.wallet, m.ops)
<1>1. OpsTyped(m.ops, T) /\ v.wallet \in Loose(T)
  BY OpsTypedOK DEF GoodEnd
<1>2. Of(a.briefs, b) = Of(v.wallet.briefs, b)
  BY <1>1, MessageAside
<1>3. CASE Fits(a)
  <2>1. Took(v, m).wallet = a
    BY <1>3 DEF Took
  <2> QED BY <1>2, <2>1, InSame
<1>4. CASE ~Fits(a)
  BY <1>4 DEF Took
<1> QED BY <1>3, <1>4

(* A message that is no put and no cost is not refused; what it adds.      *)
LEMMA TookPlain ==
  ASSUME NEW T, NEW v, GoodEnd(v, T), NEW m, MessageOK(m, T), m.kind \notin {"put", "cost"}
  PROVE  /\ Took(v, m).spent = v.spent
         /\ \A b : \A x \in Of(Took(v, m).wallet.briefs, b) :
              \/ x \in Of(v.wallet.briefs, b)
              \/ \E k \in DOMAIN m.ops : m.ops[k].field = "add" /\ x = Brought(m.ops[k])
         /\ (\A k \in DOMAIN m.ops : k # 1 => m.ops[k].field # "purse") =>
              Took(v, m).wallet.chips =
                v.wallet.chips + IF 1 \in DOMAIN m.ops /\ m.ops[1].field = "purse" THEN m.ops[1].n ELSE 0
<1> DEFINE a == AllDone(v.wallet, m.ops)
<1>1. OpsTyped(m.ops, T) /\ v.wallet \in Loose(T) /\ Fits(v.wallet) /\ v.spent \in Nat
  BY OpsTypedOK DEF GoodEnd
<1>2. \A k \in DOMAIN m.ops : m.ops[k].field # "bar" /\ (m.ops[k].field = "purse" => m.ops[k].n \in Nat)
  <2>1. \A k \in DOMAIN m.ops : OpOK(m.ops[k], m.kind, m.tbids)
    BY DEF MessageOK
  <2> QED BY <2>1 DEF OpOK
<1>3. /\ Fits(a)
      /\ \A b : \A x \in Of(a.briefs, b) :
           \/ x \in Of(v.wallet.briefs, b)
           \/ \E k \in DOMAIN m.ops : m.ops[k].field = "add" /\ x = Brought(m.ops[k])
      /\ (\A k \in DOMAIN m.ops : k # 1 => m.ops[k].field # "purse") =>
           a.chips = v.wallet.chips + IF 1 \in DOMAIN m.ops /\ m.ops[1].field = "purse" THEN m.ops[1].n ELSE 0
  BY <1>1, <1>2, MessagePlain
<1> HIDE DEF a
<1>4. Took(v, m) = [ wallet |-> a, spent |-> v.spent + 0 ]
  BY <1>3 DEF Took, a
<1>5. Took(v, m).wallet = a /\ Took(v, m).spent = v.spent
  BY <1>1, <1>4
<1> QED BY <1>3, <1>5

(* The ledger counts in integers.                                          *)
CountsInts == /\ spent \in Int
              /\ \A u \in Users : Purses[u] \in Int
              /\ \A b \in Tbids : Held(b) \in Int

(* Purses, bars and what was spent are counted in integers.                *)
LEMMA CountsAre == IInv => CountsInts
<1> SUFFICES ASSUME IInv PROVE CountsInts
  OBVIOUS
<1>1. EndsRight /\ Shape
  BY EndsAre DEF IInv
<1>2. spent \in Int
  BY <1>1 DEF Shape, UserOK
<1>3. ASSUME NEW u \in Users PROVE Purses[u] \in Int
  <2>1. GoodEnd(End[u], Tbids)
    BY <1>1 DEF EndsRight
  <2>2. End[u].wallet.chips \in Int /\ End[u].spent \in Int
    BY <2>1 DEF GoodEnd, Loose
  <2> QED BY <2>2 DEF Purses
<1>4. ASSUME NEW b \in Tbids PROVE Held(b) \in Int
  <2>1. CASE Exists(b)
    <3>1. PICK m : m = GetTeaBar(b).master
      OBVIOUS
    <3>2. m \in Users
      BY <1>1, <2>1, <3>1, ThereIs DEF Shape, Bar
    <3>3. GoodEnd(End[m], Tbids)
      BY <1>1, <3>2 DEF EndsRight
    <3>4. In(End[m].wallet.briefs, b) \in Int
      BY <3>3, InInt
    <3> QED BY <2>1, <3>1, <3>4 DEF Held
  <2>2. CASE ~Exists(b)
    BY <2>2 DEF Held
  <2> QED BY <2>1, <2>2
<1> QED BY <1>2, <1>3, <1>4 DEF CountsInts

(* And they are in the next state.                                         *)
LEMMA CountsWill == IInv' => CountsInts'
  BY CountsAre, PTL

(* What the two sums are sums over.                                        *)
LEMMA Sums ==
  /\ SumFunction(Purses) = Total(Purses, Users) /\ SumFunction(Tills) = Total(Tills, Tbids)
  /\ SumFunction(Purses') = Total(Purses', Users) /\ SumFunction(Tills') = Total(Tills', Tbids)
  /\ IsFiniteSet(Users) /\ IsFiniteSet(Tbids)
<1>1. DOMAIN Purses = Users /\ DOMAIN Purses' = Users
  BY DEF Purses
<1>2. DOMAIN Tills = Tbids /\ DOMAIN Tills' = Tbids
  BY DEF Tills
<1>3. IsFiniteSet(Tbids)
  BY FS_Interval, TeaBarAssumption DEF Tbids
<1> QED BY <1>1, <1>2, <1>3, TeaBarAssumption DEF SumFunction, Total

(* Chips that move between the purse of a user, a bar and what was spent   *)
(* leave the balance.                                                      *)
LEMMA BalanceMoves ==
  ASSUME IInv, IInv', Balance, NEW u \in Users, NEW b \in Tbids,
         \A v \in Users \ {u} : Purses'[v] = Purses[v],
         \A c \in Tbids \ {b} : Held(c)' = Held(c),
         (Purses'[u] - Purses[u]) + (Held(b)' - Held(b)) + (spent' - spent) = 0
  PROVE  Balance'
<1>1. CountsInts /\ CountsInts'
  BY CountsAre, CountsWill
<1>2. PICK p, q, t, r : p = Purses /\ q = Purses' /\ t = Tills /\ r = Tills'
  OBVIOUS
<1>3. \A c \in Tbids : t[c] = Held(c) /\ r[c] = Held(c)'
  BY <1>2 DEF Tills
<1>4. \A v \in Users : p[v] \in Int /\ q[v] \in Int
  BY <1>1, <1>2 DEF CountsInts
<1>5. \A c \in Tbids : t[c] \in Int /\ r[c] \in Int
  BY <1>1, <1>3 DEF CountsInts
<1>6. Total(q, Users) = Total(p, Users) + (q[u] - p[u])
  <2>1. \A v \in Users \ {u} : q[v] = p[v]
    BY <1>2
  <2> QED BY <1>4, <2>1, SumChange, Sums
<1>7. Total(r, Tbids) = Total(t, Tbids) + (r[b] - t[b])
  <2>1. \A c \in Tbids \ {b} : r[c] = t[c]
    BY <1>3
  <2> QED BY <1>5, <2>1, SumChange, Sums
<1>8. Total(p, Users) \in Int /\ Total(t, Tbids) \in Int
  BY <1>4, <1>5, SumInt, Sums
<1>9. PICK total : total = StartChips * Cardinality(Users)
  OBVIOUS
<1>10. spent + Total(p, Users) + Total(t, Tbids) = total
  BY <1>2, <1>9, Sums DEF Balance
<1>11. spent' + Total(q, Users) + Total(r, Tbids) = total
  <2>1. (q[u] - p[u]) + (r[b] - t[b]) + (spent' - spent) = 0
    BY <1>2, <1>3
  <2>2. q[u] \in Int /\ p[u] \in Int /\ r[b] \in Int /\ t[b] \in Int /\ spent \in Int /\ spent' \in Int
    BY <1>1, <1>4, <1>5 DEF CountsInts
  <2> QED BY <1>6, <1>7, <1>8, <1>10, <2>1, <2>2
<1> QED BY <1>2, <1>9, <1>11, Sums DEF Balance

(* Nothing moves.                                                          *)
LEMMA BalanceStays ==
  ASSUME Balance, spent' = spent,
         \A u \in Users : Purses'[u] = Purses[u], \A b \in Tbids : Held(b)' = Held(b)
  PROVE  Balance'
<1>1. Purses' = Purses
  BY DEF Purses
<1>2. Tills' = Tills
  BY DEF Tills
<1> QED BY <1>1, <1>2 DEF Balance

(* The chips of a bar stay when its master stays and has the same of it.   *)
LEMMA HeldSame ==
  ASSUME NEW b, Exists(b)' = Exists(b),
         Exists(b) => /\ GetTeaBar(b)'.master = GetTeaBar(b).master
                      /\ \A m : m = GetTeaBar(b).master =>
                           In(End'[m].wallet.briefs, b) = In(End[m].wallet.briefs, b)
  PROVE  Held(b)' = Held(b)
<1>1. CASE Exists(b)
  <2>1. PICK m : m = GetTeaBar(b).master
    OBVIOUS
  <2>2. Held(b) = In(End[m].wallet.briefs, b)
    BY <1>1, <2>1 DEF Held
  <2>3. Held(b)' = In(End'[m].wallet.briefs, b)
    BY <1>1, <2>1 DEF Held
  <2> QED BY <1>1, <2>1, <2>2, <2>3
<1>2. CASE ~Exists(b)
  BY <1>2 DEF Held
<1> QED BY <1>1, <1>2

(* What sessions saw stays right while those who free or transfer a bar    *)
(* find its chips and those who put or take find the bar.                  *)
LEMMA SeenKept ==
  ASSUME IInv, AllSeen, \A i \in Slots : asked'[i] = asked[i] \/ asked'[i] = None,
         \A i \in Slots : \A b \in Given : asked'[i] # None /\ asked'[i] = asked[i] /\ b \in asked[i].tbids =>
           /\ asked[i].kind \in {"free", "transfer"} /\ Exists(b)' => Exists(b) /\ Held(b)' = Held(b)
           /\ asked[i].kind \in {"put", "cost"} /\ Exists(b) => Exists(b)'
  PROVE  AllSeen'
<1> SUFFICES ASSUME NEW i \in Slots, asked'[i] # None, NEW b \in asked'[i].tbids
             PROVE  SeenRight(asked[i], b)'
  <2>1. ASSUME NEW i \in Slots, asked'[i] # None, NEW b \in asked'[i].tbids
        PROVE  SeenRight(asked[i], b)'
    BY <2>1
  <2> QED BY <2>1 DEF AllSeen
<1>1. asked'[i] = asked[i] /\ asked[i] # None /\ b \in asked[i].tbids /\ SeenRight(asked[i], b)
  BY DEF AllSeen
<1>2. b \in Given
  BY <1>1 DEF IInv, Shape, AskedOK, SlotOK
<1>3. /\ asked[i].kind \in {"free", "transfer"} /\ Exists(b)' => Exists(b) /\ Held(b)' = Held(b)
      /\ asked[i].kind \in {"put", "cost"} /\ Exists(b) => Exists(b)'
  BY <1>1, <1>2
<1> QED BY <1>1, <1>3 DEF SeenRight

-----------------------------------------------------------------------------
(* Answers that move no chips *)

(* What a save leaves of the bars when it spoils none.                     *)
LEMMA SavedGet ==
  ASSUME NEW bs \in SUBSET Tbids, NEW bar, Saved(bs, bar), spoilt' = {}, NEW b \in Tbids
  PROVE  /\ GetTeaBar(b)' = IF b \in bs THEN bar[b] ELSE GetTeaBar(b)
         /\ Exists(b)' = IF b \in bs THEN bar[b] # None ELSE Exists(b)
<1>1. PICK lost \in SUBSET bs :
        /\ stored' = [ c \in Tbids |-> IF c \in bs \ lost THEN bar[c] ELSE stored[c] ]
        /\ spoilt' = spoilt \cup lost
  BY DEF Saved
<1>2. lost = {}
  BY <1>1
<1>3. stored'[b] = IF b \in bs THEN bar[b] ELSE stored[b]
  BY <1>1, <1>2
<1>4. cached'[b] = IF b \in bs THEN bar[b] ELSE cached[b]
  BY DEF Saved
<1>5. GetTeaBar(b)' = IF b \in bs THEN bar[b] ELSE GetTeaBar(b)
  BY <1>3, <1>4 DEF GetTeaBar
<1> QED BY <1>5 DEF Exists

(* The bar and its master stay.                                            *)
Stays(b) == /\ Exists(b)' = Exists(b)
            /\ Exists(b) => GetTeaBar(b)'.master = GetTeaBar(b).master

(* A bar nobody writes stays.                                              *)
LEMMA StaysAlone ==
  ASSUME cached' = cached, stored' = stored, NEW b
  PROVE  Stays(b)
  BY DEF Stays, Exists, GetTeaBar

(* A message without fields about the purse, of a session that is no put   *)
(* and no cost, leaves the purse.                                          *)
LEMMA PurseStays ==
  ASSUME IInv, IInv', NEW s, NEW ops, Save(s, ops), UNCHANGED atUser, s.kind \notin {"put", "cost"},
         NEW u \in Users, \A k \in DOMAIN ops[u] : ops[u][k].field # "purse"
  PROVE  Purses'[u] = Purses[u]
<1>1. CASE ops[u] = << >>
  <2>1. End'[u] = End[u]
    BY <1>1, EndSave
  <2> QED BY <2>1 DEF Purses
<1>2. CASE ops[u] # << >>
  <2>1. PICK m : /\ m.kind = s.kind /\ m.ops = ops[u]
                 /\ MessageOK(m, Tbids) /\ End'[u] = Took(End[u], m)
    BY <1>2, EndSave
  <2>2. GoodEnd(End[u], Tbids)
    BY EndsAre DEF EndsRight
  <2>3. PICK v : v = End[u]
    OBVIOUS
  <2>4. GoodEnd(v, Tbids) /\ v.wallet.chips \in Int
    BY <2>2, <2>3 DEF GoodEnd, Loose
  <2>5. Took(v, m).spent = v.spent /\ Took(v, m).wallet.chips = v.wallet.chips
    <3>1. m.kind \notin {"put", "cost"} /\ \A k \in DOMAIN m.ops : m.ops[k].field # "purse"
      BY <2>1
    <3>2. Took(v, m).wallet.chips =
            v.wallet.chips + IF 1 \in DOMAIN m.ops /\ m.ops[1].field = "purse" THEN m.ops[1].n ELSE 0
      BY <2>1, <2>4, <3>1, TookPlain
    <3>3. Took(v, m).spent = v.spent
      BY <2>1, <2>4, <3>1, TookPlain
    <3> QED BY <2>4, <3>1, <3>2, <3>3
  <2> QED BY <2>1, <2>3, <2>5 DEF Purses
<1> QED BY <1>1, <1>2

(* A message about other bars leaves what a user will have of a bar.       *)
LEMMA AsideEnd ==
  ASSUME IInv, IInv', NEW s, NEW ops, Save(s, ops), UNCHANGED atUser,
         NEW u \in Users, NEW b, \A k \in DOMAIN ops[u] : Aside(ops[u][k], b)
  PROVE  In(End'[u].wallet.briefs, b) = In(End[u].wallet.briefs, b)
<1>1. CASE ops[u] = << >>
  BY <1>1, EndSave
<1>2. CASE ops[u] # << >>
  <2>1. PICK m : m.ops = ops[u] /\ MessageOK(m, Tbids) /\ End'[u] = Took(End[u], m)
    BY <1>2, EndSave
  <2>2. PICK v : v = End[u]
    OBVIOUS
  <2>3. GoodEnd(v, Tbids)
    BY <2>2, EndsAre DEF EndsRight
  <2>4. \A k \in DOMAIN m.ops : Aside(m.ops[k], b)
    BY <2>1
  <2>5. In(Took(v, m).wallet.briefs, b) = In(v.wallet.briefs, b)
    BY <2>1, <2>3, <2>4, TookAside
  <2> QED BY <2>1, <2>2, <2>5
<1> QED BY <1>1, <1>2

(* So a bar holds what it held when its master is sent nothing about it.   *)
LEMMA HeldStays ==
  ASSUME IInv, IInv', NEW s, NEW ops, Save(s, ops), UNCHANGED atUser, NEW b \in Tbids, Stays(b),
         Exists(b) => \A u : u = GetTeaBar(b).master => \A k \in DOMAIN ops[u] : Aside(ops[u][k], b)
  PROVE  Held(b)' = Held(b)
<1>1. ASSUME Exists(b), NEW m, m = GetTeaBar(b).master
      PROVE  In(End'[m].wallet.briefs, b) = In(End[m].wallet.briefs, b)
  <2>1. m \in Users
    BY <1>1, ThereIs DEF Bar, IInv, Shape
  <2>2. \A k \in DOMAIN ops[m] : Aside(ops[m][k], b)
    BY <1>1
  <2> QED BY <2>1, <2>2, AsideEnd
<1> QED BY <1>1, HeldSame DEF Stays

(* An answer that moves no chips, changes no master and sends nothing      *)
(* about a bar to its master.                                              *)
LEMMA QuietAnswer ==
  ASSUME IInv, IInv', Books, NEW i \in Slots, asked' = [asked EXCEPT ![i] = None], UNCHANGED atUser,
         \A b \in Tbids : Stays(b),
         NEW s, NEW ops, Save(s, ops), s.kind \notin {"put", "cost"},
         s.tbids # {} \/ \A u \in Users : ops[u] = << >>,
         \A u \in Users : \A k \in DOMAIN ops[u] : ops[u][k].field # "purse",
         \A b \in Tbids : Exists(b) => \A u : u = GetTeaBar(b).master =>
           \A k \in DOMAIN ops[u] : Aside(ops[u][k], b)
  PROVE  Books'
<1>1. Balance /\ AllSeen /\ Named
  BY DEF Books
<1>2. \A b \in Tbids : Held(b)' = Held(b)
  <2>1. ASSUME NEW b \in Tbids PROVE Held(b)' = Held(b)
    <3>1. Stays(b)
      OBVIOUS
    <3>2. Exists(b) => \A u : u = GetTeaBar(b).master => \A k \in DOMAIN ops[u] : Aside(ops[u][k], b)
      OBVIOUS
    <3> QED BY <3>1, <3>2, HeldStays
  <2> QED BY <2>1
<1>3. \A u \in Users : Purses'[u] = Purses[u]
  <2>1. ASSUME NEW u \in Users PROVE Purses'[u] = Purses[u]
    <3>1. \A k \in DOMAIN ops[u] : ops[u][k].field # "purse"
      OBVIOUS
    <3> QED BY <3>1, PurseStays
  <2> QED BY <2>1
<1>4. Balance'
  <2>1. spent' = spent
    BY DEF atUser
  <2> QED BY <1>1, <1>2, <1>3, <2>1, BalanceStays
<1>5. AllSeen'
  <2>1. \A j \in Slots : asked'[j] = asked[j] \/ asked'[j] = None
    BY DEF IInv, Shape, AskedOK
  <2>2. \A b \in Given : b \in Tbids
    BY ShapeBars
  <2>3. \A b \in Tbids : Exists(b)' = Exists(b)
    BY DEF Stays
  <2> QED BY <1>1, <1>2, <2>1, <2>2, <2>3, SeenKept
<1>6. Named'
  BY <1>1, SaveNamed
<1> QED BY <1>4, <1>5, <1>6 DEF Books

(* An answer that sends nothing.                                           *)
LEMMA SilentAnswer ==
  ASSUME IInv, IInv', Books, NEW i \in Slots, asked' = [asked EXCEPT ![i] = None], UNCHANGED atUser,
         \A b \in Tbids : Stays(b), updates' = updates
  PROVE  Books'
<1>1. PICK s : s = [ kind |-> "list", tbids |-> {} ]
  OBVIOUS
<1>2. Save(s, Nothing)
  BY SaveNothing DEF IInv, Shape
<1>3. \A u \in Users : Nothing[u] = << >>
  BY DEF Nothing
<1>4. \A b \in Tbids : Exists(b) => \A u : u = GetTeaBar(b).master =>
        \A k \in DOMAIN Nothing[u] : Aside(Nothing[u][k], b)
  <2>1. ASSUME NEW b \in Tbids, Exists(b), NEW u, u = GetTeaBar(b).master
        PROVE  Nothing[u] = << >>
    <3>1. u \in Users
      BY <2>1, ThereIs DEF Bar, IInv, Shape
    <3> QED BY <1>3, <3>1
  <2>2. DOMAIN << >> = {}
    OBVIOUS
  <2> QED BY <2>1, <2>2
<1>5. \A u \in Users : \A k \in DOMAIN Nothing[u] : Nothing[u][k].field # "purse"
  BY <1>3
<1>6. s.kind \notin {"put", "cost"}
  BY <1>1
<1> QED BY <1>2, <1>3, <1>4, <1>5, <1>6, QuietAnswer

(* The session that is answered.                                           *)
LEMMA Answered ==
  ASSUME IInv, NEW i \in Slots, NEW kind, Turn(i, kind)
  PROVE  /\ asked[i] # None /\ asked[i].kind = kind /\ asked' = [asked EXCEPT ![i] = None]
         /\ asked[i] \in Asked /\ SlotOK(asked[i], Given)
         /\ asked[i].by \in Users /\ asked[i].who \in Users /\ asked[i].tbids \subseteq Given
         /\ Given \subseteq Tbids
         /\ kind \notin {"create", "list", "transfer"} =>
              /\ Bar1(asked[i]) \in asked[i].tbids /\ asked[i].tbids = {Bar1(asked[i])}
              /\ Bar1(asked[i]) \in Given /\ Bar1(asked[i]) \in Tbids
         /\ spoilt = {} => \A b \in asked[i].tbids :
              Sound(b) /\ (Exists(b) => Relies(asked[i], b) /\ GetTeaBar(b) \in Bar)
<1> DEFINE s == asked[i]
<1>1. s # None /\ s.kind = kind /\ asked' = [asked EXCEPT ![i] = None]
  BY DEF Turn
<1>2. SlotOK(s, Given) /\ Given \subseteq Tbids
  BY <1>1, ShapeBars DEF Shape, AskedOK
<1>3. s \in Asked /\ s.by \in Users /\ s.who \in Users /\ s.tbids \subseteq Given
  BY <1>2 DEF SlotOK, Asked
<1>4. ASSUME kind \notin {"create", "list", "transfer"}
      PROVE  Bar1(s) \in s.tbids /\ s.tbids = {Bar1(s)}
  <2>1. PICK b \in Given : s.tbids = {b}
    BY <1>1, <1>2, <1>4 DEF SlotOK
  <2>2. Bar1(s) \in s.tbids
    <3> HIDE DEF s
    <3> QED BY <2>1, Bar1In
  <2> QED BY <2>1, <2>2
<1>5. ASSUME spoilt = {}, NEW b \in s.tbids
      PROVE  Sound(b) /\ (Exists(b) => Relies(s, b) /\ GetTeaBar(b) \in Bar)
  <2>1. b \in Tbids /\ Sound(b)
    BY <1>2, <1>3, <1>5 DEF IInv
  <2>2. s \in Sessions(b)
    BY <1>1, <1>5, SlotSession
  <2>3. Exists(b) => GetTeaBar(b) \in Bar
    BY <2>1, ThereIs DEF IInv, Shape
  <2> QED BY <2>1, <2>2, <2>3 DEF Sound
<1> QED BY <1>1, <1>2, <1>3, <1>4, <1>5

(* A bar written with the same master stays.                               *)
LEMMA CachedStays ==
  ASSUME IInv, NEW b \in Tbids, NEW bar, bar \in Bar, Exists(b), bar.master = GetTeaBar(b).master,
         cached' = [cached EXCEPT ![b] = bar], stored' = stored
  PROVE  \A c \in Tbids : Stays(c)
<1> SUFFICES ASSUME NEW c \in Tbids PROVE Stays(c)
  OBVIOUS
<1>1. cached'[c] = IF c = b THEN bar ELSE cached[c]
  BY DEF IInv, Shape, BarsOK
<1>2. CASE c = b
  <2>1. GetTeaBar(c)' = bar /\ bar # None
    BY <1>1, <1>2, Numbers DEF GetTeaBar
  <2> QED BY <1>2, <2>1 DEF Stays, Exists
<1>3. CASE c # b
  BY <1>1, <1>3 DEF Stays, Exists, GetTeaBar
<1> QED BY <1>2, <1>3

(* A bar saved with the master it has stays.                               *)
LEMMA SavedStays ==
  ASSUME NEW bs \in SUBSET Tbids, NEW bar, Saved(bs, bar), spoilt' = {},
         \A b \in bs : Exists(b) /\ bar[b] \in Bar /\ bar[b].master = GetTeaBar(b).master
  PROVE  \A c \in Tbids : Stays(c)
<1> SUFFICES ASSUME NEW c \in Tbids PROVE Stays(c)
  OBVIOUS
<1>1. /\ GetTeaBar(c)' = IF c \in bs THEN bar[c] ELSE GetTeaBar(c)
      /\ Exists(c)' = IF c \in bs THEN bar[c] # None ELSE Exists(c)
  BY SavedGet
<1>2. c \in bs => bar[c] # None
  BY Numbers
<1> QED BY <1>1, <1>2 DEF Stays

(* One field for one user who is not the master of its bar.                *)
LEMMA ForQuiet ==
  ASSUME IInv, NEW v \in Users, NEW b, NEW op, op.field # "purse", op.tbid = b,
         Exists(b) => v # GetTeaBar(b).master
  PROVE  /\ \A u \in Users : \A k \in DOMAIN For(v, << op >>)[u] : For(v, << op >>)[u][k].field # "purse"
         /\ \A c \in Tbids : Exists(c) => \A u : u = GetTeaBar(c).master =>
              \A k \in DOMAIN For(v, << op >>)[u] : Aside(For(v, << op >>)[u][k], c)
<1>1. \A u \in Users : For(v, << op >>)[u] = IF u = v THEN << op >> ELSE << >>
  BY DEF For
<1>2. ASSUME NEW u \in Users, NEW k \in DOMAIN For(v, << op >>)[u]
      PROVE  u = v /\ For(v, << op >>)[u][k] = op
  <2>1. u = v
    BY <1>1, <1>2
  <2> QED BY <1>1, <1>2, <2>1
<1>3. ASSUME NEW c \in Tbids, Exists(c), NEW u, u = GetTeaBar(c).master, NEW k \in DOMAIN For(v, << op >>)[u]
      PROVE  Aside(For(v, << op >>)[u][k], c)
  <2>1. u \in Users
    BY <1>3, ThereIs DEF Bar, IInv, Shape
  <2>2. u = v /\ For(v, << op >>)[u][k] = op
    BY <1>2, <1>3, <2>1
  <2>3. c # b
    BY <1>3, <2>2
  <2> QED BY <2>2, <2>3 DEF Aside
<1> QED BY <1>2, <1>3

(* The answer to an application: chips are left alone.                     *)
LEMMA ApplyBooks ==
  ASSUME IInv, IInv', Books, spoilt' = {}, NEW i \in Slots, ApplyGot(i)
  PROVE  Books'
<1>0. PICK b, bar : b = Bar1(asked[i]) /\ bar = GetTeaBar(b)
  OBVIOUS
<1>1. Turn(i, "apply") /\ Rest /\ updates' = updates
  BY DEF ApplyGot
<1>2. asked' = [asked EXCEPT ![i] = None] /\ b \in Tbids /\ UNCHANGED atUser
  BY <1>0, <1>1, Answered DEF Rest
<1>3. CASE NoWrite
  <2>1. \A c \in Tbids : Stays(c)
    BY <1>3, StaysAlone DEF NoWrite
  <2> QED BY <1>1, <1>2, <2>1, SilentAnswer
<1>4. CASE /\ Exists(b) /\ NotSaved
           /\ cached' = [cached EXCEPT ![b] = [bar EXCEPT !.applied = @ \cup {asked[i].by}]]
  <2>1. PICK new : new = [bar EXCEPT !.applied = @ \cup {asked[i].by}]
    OBVIOUS
  <2>2. bar \in Bar /\ asked[i].by \in Users
    BY <1>0, <1>1, <1>2, <1>4, ThereIs, Answered DEF IInv, Shape
  <2>3. new \in Bar /\ new.master = bar.master
    BY <2>1, <2>2 DEF Bar
  <2>4. \A c \in Tbids : Stays(c)
    BY <1>0, <1>2, <1>4, <2>1, <2>3, CachedStays DEF NotSaved
  <2> QED BY <1>1, <1>2, <2>4, SilentAnswer
<1> QED
  BY <1>0, <1>3, <1>4 DEF ApplyGot

(* The answer to a list: users are put into bars, chips are left alone.    *)
LEMMA ListBooks ==
  ASSUME IInv, IInv', Books, spoilt' = {}, NEW i \in Slots, ListGot(i)
  PROVE  Books'
<1>0. PICK u : u = asked[i].by
  OBVIOUS
<1>1. PICK missing : missing = { b \in asked[i].tbids : Exists(b) /\ ~Member(u, b) }
  OBVIOUS
<1>2. PICK bar : bar = [ b \in missing |-> AddUser(GetTeaBar(b), u) ]
  OBVIOUS
<1>3. Turn(i, "list") /\ Rest /\ updates' = updates /\ Saved(missing, bar)
  BY <1>0, <1>1, <1>2 DEF ListGot
<1>4. /\ asked' = [asked EXCEPT ![i] = None] /\ UNCHANGED atUser
      /\ u \in Users /\ missing \in SUBSET Tbids
  BY <1>0, <1>1, <1>3, Answered DEF Rest
<1>5. ASSUME NEW b \in missing PROVE Exists(b) /\ bar[b] \in Bar /\ bar[b].master = GetTeaBar(b).master
  <2>1. Exists(b) /\ GetTeaBar(b) \in Bar
    BY <1>1, <1>4, <1>5, ThereIs DEF IInv, Shape
  <2> QED BY <1>2, <1>4, <2>1, AddUserBar
<1>6. \A c \in Tbids : Stays(c)
  BY <1>3, <1>4, <1>5, SavedStays
<1> QED BY <1>3, <1>4, <1>6, SilentAnswer

(* The answer to a drop: the brief that goes is no master's.               *)
LEMMA DropBooks ==
  ASSUME IInv, IInv', Books, NEW i \in Slots, DropGot(i)
  PROVE  Books'
<1>0. PICK u, b : u = asked[i].by /\ b = Bar1(asked[i])
  OBVIOUS
<1>1. Turn(i, "drop") /\ Rest /\ NoWrite
  BY DEF DropGot
<1>2. /\ asked' = [asked EXCEPT ![i] = None] /\ b \in Tbids /\ UNCHANGED atUser
      /\ asked[i].kind = "drop" /\ b \in asked[i].tbids /\ u \in Users
  BY <1>0, <1>1, Answered DEF Rest
<1>3. \A c \in Tbids : Stays(c)
  BY <1>1, StaysAlone DEF NoWrite
<1>4. CASE UNCHANGED updates
  BY <1>2, <1>3, <1>4, SilentAnswer
<1>5. CASE GetTeaBar(b).master # u /\ Save(asked[i], For(u, << Del(b) >>))
  <2>1. Del(b).field # "purse" /\ Del(b).tbid = b
    BY DEF Del
  <2>2. PICK ops : ops = For(u, << Del(b) >>)
    OBVIOUS
  <2>3. /\ \A x \in Users : \A k \in DOMAIN ops[x] : ops[x][k].field # "purse"
        /\ \A c \in Tbids : Exists(c) => \A x : x = GetTeaBar(c).master =>
             \A k \in DOMAIN ops[x] : Aside(ops[x][k], c)
    BY <1>2, <1>5, <2>1, <2>2, ForQuiet
  <2>4. Save(asked[i], ops) /\ asked[i].kind \notin {"put", "cost"} /\ asked[i].tbids # {}
    BY <1>2, <1>5, <2>2
  <2> QED BY <1>2, <1>3, <2>3, <2>4, QuietAnswer
<1> QED
  BY <1>0, <1>4, <1>5 DEF DropGot

(* The answer to a removal: the brief that goes is no master's.            *)
LEMMA RemoveBooks ==
  ASSUME IInv, IInv', Books, spoilt = {}, spoilt' = {}, NEW i \in Slots, RemoveGot(i)
  PROVE  Books'
<1>0. PICK u, b : u = asked[i].who /\ b = Bar1(asked[i])
  OBVIOUS
<1>1. Turn(i, "remove") /\ Rest
  BY DEF RemoveGot
<1>2. /\ asked' = [asked EXCEPT ![i] = None] /\ b \in Tbids /\ UNCHANGED atUser
      /\ asked[i].kind = "remove" /\ b \in asked[i].tbids /\ u \in Users
  BY <1>0, <1>1, Answered DEF Rest
<1>3. CASE updates' = updates /\ NoWrite
  <2>1. \A c \in Tbids : Stays(c)
    BY <1>3, StaysAlone DEF NoWrite
  <2> QED BY <1>2, <1>3, <2>1, SilentAnswer
<1>4. CASE Exists(b)
  <2>1. u # GetTeaBar(b).master /\ GetTeaBar(b) \in Bar
    BY <1>0, <1>1, <1>2, <1>4, Answered DEF Relies
  <2>2. Saved({b}, Only(b, DeleteUser(GetTeaBar(b), u))) \/ NoWrite
    BY <1>0, <1>4 DEF RemoveGot
  <2>3. Save(asked[i], For(u, << Del(b) >>)) \/ Save(asked[i], For(u, << >>))
    BY <1>0, <1>4 DEF RemoveGot
  <2>4. \A c \in Tbids : Stays(c)
    <3>1. CASE NoWrite
      BY <3>1, StaysAlone DEF NoWrite
    <3>2. CASE Saved({b}, Only(b, DeleteUser(GetTeaBar(b), u)))
      <4>1. PICK bar : bar = Only(b, DeleteUser(GetTeaBar(b), u))
        OBVIOUS
      <4>2. bar[b] \in Bar /\ bar[b].master = GetTeaBar(b).master
        BY <1>2, <2>1, <4>1, DeleteUserBar DEF Only
      <4>3. \A c \in {b} : Exists(c) /\ bar[c] \in Bar /\ bar[c].master = GetTeaBar(c).master
        BY <1>4, <4>2
      <4>4. {b} \in SUBSET Tbids /\ Saved({b}, bar)
        BY <1>2, <3>2, <4>1
      <4> QED BY <4>3, <4>4, SavedStays
    <3> QED BY <2>2, <3>1, <3>2
  <2>5. CASE Save(asked[i], For(u, << Del(b) >>))
    <3>1. Del(b).field # "purse" /\ Del(b).tbid = b
      BY DEF Del
    <3>2. PICK ops : ops = For(u, << Del(b) >>)
      OBVIOUS
    <3>3. /\ \A x \in Users : \A k \in DOMAIN ops[x] : ops[x][k].field # "purse"
          /\ \A c \in Tbids : Exists(c) => \A x : x = GetTeaBar(c).master =>
               \A k \in DOMAIN ops[x] : Aside(ops[x][k], c)
      BY <1>2, <2>1, <3>1, <3>2, ForQuiet
    <3>4. Save(asked[i], ops) /\ asked[i].kind \notin {"put", "cost"} /\ asked[i].tbids # {}
      BY <1>2, <2>5, <3>2
    <3> QED BY <1>2, <2>4, <3>3, <3>4, QuietAnswer
  <2>6. CASE Save(asked[i], For(u, << >>))
    <3>1. \A x \in Users : For(u, << >>)[x] = << >>
      BY DEF For
    <3>2. updates' = updates
      <4>1. updates \in [Users -> Seq(Update)]
        BY DEF IInv, Shape, UpdatesOK
      <4> QED BY <2>6, <3>1, <4>1 DEF Save
    <3> QED BY <1>2, <2>4, <3>2, SilentAnswer
  <2> QED BY <2>3, <2>5, <2>6
<1>5. CASE ~Exists(b)
  BY <1>0, <1>3, <1>5 DEF RemoveGot
<1> QED
  BY <1>4, <1>5

(* The answer to an agreement: the brief that comes is without chips.      *)
LEMMA AgreeBooks ==
  ASSUME IInv, IInv', Books, spoilt = {}, spoilt' = {}, NEW i \in Slots, AgreeGot(i)
  PROVE  Books'
<1>0. PICK u, b, bar : u = asked[i].who /\ b = Bar1(asked[i]) /\ bar = GetTeaBar(b)
  OBVIOUS
<1>1. (Turn(i, "agree") \/ Turn(i, "refuse")) /\ Rest
  BY DEF AgreeGot
<1>2. /\ asked' = [asked EXCEPT ![i] = None] /\ b \in Tbids /\ UNCHANGED atUser
      /\ asked[i].kind \in {"agree", "refuse"} /\ b \in asked[i].tbids /\ u \in Users
      /\ Sound(b) /\ (Exists(b) => Relies(asked[i], b) /\ bar \in Bar)
  <2>1. ASSUME NEW kind \in {"agree", "refuse"}, Turn(i, kind)
        PROVE  /\ asked' = [asked EXCEPT ![i] = None] /\ b \in Tbids
               /\ asked[i].kind = kind /\ b \in asked[i].tbids /\ u \in Users
               /\ Sound(b) /\ (Exists(b) => Relies(asked[i], b) /\ bar \in Bar)
    <3>1. kind \notin {"create", "list", "transfer"}
      BY <2>1
    <3> QED BY <1>0, <2>1, <3>1, Answered
  <2> QED BY <1>1, <2>1 DEF Rest
<1>3. PICK less : less = [bar EXCEPT !.applied = @ \ {u}]
  OBVIOUS
<1>4. PICK answered : answered = [cached EXCEPT ![b] = less]
  OBVIOUS
<1>5. CASE UNCHANGED updates /\ NoWrite
  <2>1. \A c \in Tbids : Stays(c)
    BY <1>5, StaysAlone DEF NoWrite
  <2> QED BY <1>2, <1>5, <2>1, SilentAnswer
<1>6. CASE Exists(b) /\ cached' = answered /\ NotSaved /\ UNCHANGED updates
  <2>1. less \in Bar /\ less.master = bar.master
    BY <1>2, <1>3, <1>6 DEF Bar
  <2>2. \A c \in Tbids : Stays(c)
    BY <1>0, <1>2, <1>4, <1>6, <2>1, CachedStays DEF NotSaved
  <2> QED BY <1>2, <1>6, <2>2, SilentAnswer
<1>7. CASE /\ Exists(b) /\ u \in bar.applied /\ asked[i].kind = "agree" /\ ~Has(asked[i].seen[u], b)
           /\ cached' = [answered EXCEPT ![b] = AddUser(@, u)]
           /\ stored' = [stored EXCEPT ![b] = AddUser(bar, u)]
           /\ Save(asked[i], For(u, << Add(b, bar.master, 0) >>))
  <2>1. u # bar.master
    <3>1. ~On(u, b)
      BY <1>0, <1>2, <1>7 DEF Relies
    <3>2. \A x \in Users : x = bar.master => On(x, b)
      BY <1>0, <1>2, <1>7 DEF Sound
    <3> QED BY <1>2, <3>1, <3>2
  <2>2. less \in Bar /\ less.master = bar.master
    BY <1>2, <1>3, <1>7 DEF Bar
  <2>3. AddUser(less, u) \in Bar /\ AddUser(less, u).master = bar.master
    BY <1>2, <2>2, AddUserBar
  <2>4. cached \in [Tbids -> Bar \cup {None}] /\ stored \in [Tbids -> Bar \cup {None}]
    BY DEF IInv, Shape, BarsOK
  <2>5. ASSUME NEW c \in Tbids PROVE Stays(c)
    <3>1. CASE c = b
      <4>1. cached'[b] = AddUser(less, u)
        BY <1>2, <1>4, <1>7, <2>4
      <4>2. GetTeaBar(b)' = AddUser(less, u) /\ AddUser(less, u) # None
        BY <2>3, <4>1, Numbers DEF GetTeaBar
      <4> QED BY <1>0, <1>7, <2>3, <3>1, <4>2 DEF Stays, Exists
    <3>2. CASE c # b
      <4>1. cached'[c] = cached[c] /\ stored'[c] = stored[c]
        BY <1>2, <1>4, <1>7, <2>4, <3>2
      <4> QED BY <4>1 DEF Stays, Exists, GetTeaBar
    <3> QED BY <3>1, <3>2
  <2>6. PICK op : op = Add(b, bar.master, 0)
    OBVIOUS
  <2>7. op.field # "purse" /\ op.tbid = b
    BY <2>6 DEF Add
  <2>8. PICK ops : ops = For(u, << op >>)
    OBVIOUS
  <2>9. /\ \A x \in Users : \A k \in DOMAIN ops[x] : ops[x][k].field # "purse"
        /\ \A c \in Tbids : Exists(c) => \A x : x = GetTeaBar(c).master =>
             \A k \in DOMAIN ops[x] : Aside(ops[x][k], c)
    BY <1>0, <1>2, <2>1, <2>7, <2>8, ForQuiet
  <2>10. Save(asked[i], ops) /\ asked[i].kind \notin {"put", "cost"} /\ asked[i].tbids # {}
    BY <1>2, <1>7, <2>6, <2>8
  <2> QED BY <1>2, <2>5, <2>9, <2>10, QuietAnswer
<1>8. ~(spoilt' = spoilt \cup {b})
  OBVIOUS
<1> QED
  BY <1>0, <1>2, <1>3, <1>4, <1>5, <1>6, <1>7, <1>8 DEF AgreeGot

(* Nothing that counts changes.                                            *)
LEMMA QuietTime ==
  ASSUME IInv, Books, \A i \in Slots : asked'[i] = asked[i] \/ asked'[i] = None,
         \A u \in Users : End'[u] = End[u], spent' = spent, \A b \in Tbids : Stays(b), Named'
  PROVE  Books'
<1>1. Balance /\ AllSeen
  BY DEF Books
<1>2. ASSUME NEW b \in Tbids PROVE Held(b)' = Held(b)
  <2>1. ASSUME Exists(b), NEW m, m = GetTeaBar(b).master
        PROVE  In(End'[m].wallet.briefs, b) = In(End[m].wallet.briefs, b)
    <3>1. m \in Users
      BY <2>1, ThereIs DEF Bar, IInv, Shape
    <3> QED BY <3>1
  <2> QED BY <2>1, HeldSame DEF Stays
<1>3. \A u \in Users : Purses'[u] = Purses[u]
  BY DEF Purses
<1>4. Balance'
  BY <1>1, <1>2, <1>3, BalanceStays
<1>5. AllSeen'
  <2>1. \A b \in Given : b \in Tbids
    BY ShapeBars
  <2>2. \A b \in Tbids : Exists(b)' = Exists(b)
    BY DEF Stays
  <2> QED BY <1>1, <1>2, <2>1, <2>2, SeenKept
<1> QED BY <1>4, <1>5 DEF Books

(* A bar follows a drop: its master stays.                                 *)
LEMMA DropDoneBooks ==
  ASSUME IInv, IInv', Books, spoilt' = {}, NEW u \in Users, NEW b \in Tbids, DropDone(u, b)
  PROVE  Books'
<1>1. UNCHANGED atUser /\ asked' = asked /\ updates' = updates
  BY DEF DropDone
<1>2. \A c \in Tbids : Stays(c)
  <2>1. CASE NoWrite
    BY <2>1, StaysAlone DEF NoWrite
  <2>2. CASE Exists(b) /\ Saved({b}, Only(b, DeleteUser(GetTeaBar(b), u)))
    <3>1. PICK bar : bar = Only(b, DeleteUser(GetTeaBar(b), u))
      OBVIOUS
    <3>2. GetTeaBar(b) \in Bar
      BY <2>2, ThereIs DEF IInv, Shape
    <3>3. \A c \in {b} : Exists(c) /\ bar[c] \in Bar /\ bar[c].master = GetTeaBar(c).master
      BY <2>2, <3>1, <3>2, DeleteUserBar DEF Only
    <3>4. {b} \in SUBSET Tbids /\ Saved({b}, bar)
      BY <2>2, <3>1
    <3> QED BY <3>3, <3>4, SavedStays
  <2> QED BY <2>1, <2>2 DEF DropDone
<1>3. \A v \in Users : End'[v] = End[v]
  BY <1>1, EndUntouched DEF atUser
<1>4. Named'
  BY <1>1 DEF Books, Named
<1> QED
  BY <1>1, <1>2, <1>3, <1>4, QuietTime DEF atUser

(* A bar leaves memory: Redis has the same master.                         *)
LEMMA EvictBooks ==
  ASSUME IInv, Books, spoilt = {}, NEW b \in Tbids, Evict(b)
  PROVE  Books'
<1>1. /\ UNCHANGED atUser /\ asked' = asked /\ updates' = updates /\ stored' = stored
      /\ cached[b] # None /\ cached' = [cached EXCEPT ![b] = None]
  BY DEF Evict
<1>2. ASSUME NEW c \in Tbids PROVE Stays(c)
  <2>1. Kept(c) /\ cached \in [Tbids -> Bar \cup {None}]
    BY DEF IInv, Sound, Shape, BarsOK
  <2>2. CASE c = b
    BY <1>1, <2>1, <2>2 DEF Kept, Stays, Exists, GetTeaBar
  <2>3. CASE c # b
    BY <1>1, <2>1, <2>3 DEF Stays, Exists, GetTeaBar
  <2> QED BY <2>2, <2>3
<1>3. \A v \in Users : End'[v] = End[v]
  BY <1>1, EndUntouched DEF atUser
<1>4. Named'
  BY <1>1 DEF Books, Named
<1> QED
  BY <1>1, <1>2, <1>3, <1>4, QuietTime DEF atUser

(* Nobody waits any more for a message on its way: it is done all the same.*)
LEMMA EndWaitless ==
  ASSUME UpdatesOK, UpdatesOK', UNCHANGED atUser, Named,
         \A u \in Users : /\ DOMAIN updates'[u] = DOMAIN updates[u]
                          /\ \A k \in DOMAIN updates[u] :
                               /\ updates'[u][k].ops = updates[u][k].ops
                               /\ updates'[u][k].kind = updates[u][k].kind
                               /\ updates'[u][k].tbids = updates[u][k].tbids
  PROVE  Named' /\ \A u \in Users : End'[u] = End[u]
<1>1. Named'
  BY DEF Named
<1>2. ASSUME NEW u \in Users PROVE End'[u] = End[u]
  <2>1. PICK q, r : q = updates[u] /\ r = updates'[u]
    OBVIOUS
  <2>2. q \in Seq(Update) /\ r \in Seq(Update)
    BY <2>1 DEF UpdatesOK
  <2>3. Len(q) \in Nat /\ Len(r) = Len(q)
    BY <2>1, <2>2, LenProperties
  <2>4. \A k \in 1 .. Len(q) : r[k].ops = q[k].ops /\ r[k].kind = q[k].kind
    BY <2>1, <2>2, LenProperties
  <2>5. PICK v : v = Now(u)
    OBVIOUS
  <2>6. Final(v, r) = Final(v, q)
    BY <2>3, <2>4, FinalSame
  <2>7. Now(u)' = Now(u)
    BY DEF Now, atUser
  <2> QED BY <2>1, <2>5, <2>6, <2>7 DEF End
<1> QED BY <1>1, <1>2

(* A restart: sessions are gone, messages on their way are not.            *)
LEMMA RestartBooks ==
  ASSUME IInv, IInv', Books, spoilt = {}, Restart
  PROVE  Books'
<1>1. /\ UNCHANGED atUser /\ stored' = stored /\ cached' = [ b \in Tbids |-> None ]
      /\ asked' = [ i \in Slots |-> IF asked[i] # None /\ asked[i].kind = "cost" THEN asked[i] ELSE None ]
      /\ updates' = [ u \in Users |->
           [ k \in DOMAIN updates[u] |-> [updates[u][k] EXCEPT !.live = FALSE] ]]
  BY DEF Restart
<1>2. ASSUME NEW c \in Tbids PROVE Stays(c)
  <2>1. Kept(c)
    BY DEF IInv, Sound
  <2> QED BY <1>1, <2>1 DEF Kept, Stays, Exists, GetTeaBar
<1>3. UpdatesOK /\ UpdatesOK'
  BY DEF IInv, Shape
<1>4. ASSUME NEW u \in Users
      PROVE  /\ DOMAIN updates'[u] = DOMAIN updates[u]
             /\ \A k \in DOMAIN updates[u] : /\ updates'[u][k].ops = updates[u][k].ops
                                             /\ updates'[u][k].kind = updates[u][k].kind
                                             /\ updates'[u][k].tbids = updates[u][k].tbids
  <2>1. updates'[u] = [ k \in DOMAIN updates[u] |-> [updates[u][k] EXCEPT !.live = FALSE] ]
    BY <1>1
  <2>2. ASSUME NEW k \in DOMAIN updates[u]
        PROVE  /\ updates'[u][k].ops = updates[u][k].ops
               /\ updates'[u][k].kind = updates[u][k].kind
               /\ updates'[u][k].tbids = updates[u][k].tbids
    <3>1. updates[u][k] \in Update
      BY <1>3 DEF UpdatesOK, MessageOK
    <3> QED BY <2>1, <3>1 DEF Update
  <2> QED BY <2>1, <2>2
<1>5. Named' /\ \A u \in Users : End'[u] = End[u]
  BY <1>1, <1>3, <1>4, EndWaitless DEF Books
<1>6. \A i \in Slots : asked'[i] = asked[i] \/ asked'[i] = None
  BY <1>1
<1> QED
  BY <1>1, <1>2, <1>5, <1>6, QuietTime DEF atUser

(* A timeout: a session is gone, or its message is not waited for.         *)
LEMMA TimeoutBooks ==
  ASSUME IInv, IInv', Books, SessionTimeout
  PROVE  Books'
<1>1. UNCHANGED atUser /\ cached' = cached /\ stored' = stored
  BY DEF SessionTimeout, bars
<1>2. \A c \in Tbids : Stays(c)
  BY <1>1, StaysAlone
<1>3. UpdatesOK /\ UpdatesOK' /\ asked \in [Slots -> Asked \cup {None}]
  BY DEF IInv, Shape, AskedOK
<1>4. CASE updates' = updates /\ \E i \in Slots : asked' = [asked EXCEPT ![i] = None]
  <2>1. \A u \in Users : End'[u] = End[u]
    BY <1>1, <1>4, EndUntouched DEF atUser
  <2>2. Named'
    BY <1>4 DEF Books, Named
  <2>3. \A i \in Slots : asked'[i] = asked[i] \/ asked'[i] = None
    BY <1>3, <1>4
  <2> QED BY <1>1, <1>2, <2>1, <2>2, <2>3, QuietTime DEF atUser
<1>5. ASSUME asked' = asked, NEW v \in Users, NEW j \in DOMAIN updates[v],
             updates' = [updates EXCEPT ![v][j].live = FALSE]
      PROVE  Books'
  <2>1. ASSUME NEW u \in Users
        PROVE  /\ DOMAIN updates'[u] = DOMAIN updates[u]
               /\ \A k \in DOMAIN updates[u] : /\ updates'[u][k].ops = updates[u][k].ops
                                               /\ updates'[u][k].kind = updates[u][k].kind
                                               /\ updates'[u][k].tbids = updates[u][k].tbids
    <3>1. updates'[u] = IF u = v THEN [updates[v] EXCEPT ![j] = [updates[v][j] EXCEPT !.live = FALSE]]
                        ELSE updates[u]
      BY <1>3, <1>5 DEF UpdatesOK
    <3>2. updates[v][j] \in Update
      BY <1>3 DEF UpdatesOK, MessageOK
    <3>3. \A k \in DOMAIN updates[u] :
            updates'[u][k] = IF u = v /\ k = j THEN [updates[v][j] EXCEPT !.live = FALSE] ELSE updates[u][k]
      BY <3>1
    <3>4. DOMAIN updates'[u] = DOMAIN updates[u]
      BY <3>1
    <3>5. PICK m : m = updates[v][j]
      OBVIOUS
    <3>6. /\ [m EXCEPT !.live = FALSE].ops = m.ops /\ [m EXCEPT !.live = FALSE].kind = m.kind
          /\ [m EXCEPT !.live = FALSE].tbids = m.tbids
      BY <3>2, <3>5 DEF Update
    <3> QED BY <3>3, <3>4, <3>5, <3>6
  <2>2. Named' /\ \A u \in Users : End'[u] = End[u]
    BY <1>1, <1>3, <2>1, EndWaitless DEF Books
  <2> QED BY <1>1, <1>2, <1>5, <2>2, QuietTime DEF atUser
<1> QED
  BY <1>4, <1>5 DEF SessionTimeout

(* An update that is done moves nothing that was not counted already.      *)
LEMMA UpdateBooks ==
  ASSUME IInv, IInv', Books, NEW u \in Users, UpdateAtUser(u)
  PROVE  Books'
<1>0. PICK m, w, q : /\ m = Head(updates[u]) /\ w = [ briefs |-> briefs[u], chips |-> chips[u] ]
                     /\ q = updates[u]
  OBVIOUS
<1>1. PICK new, c : new = AllDone(w, m.ops) /\ c = IF Fits(new) /\ m.kind = "cost" THEN 1 ELSE 0
  OBVIOUS
<1>2. /\ q # << >> /\ updates' = [updates EXCEPT ![u] = Tail(@)]
      /\ briefs' = IF Fits(new) THEN [briefs EXCEPT ![u] = new.briefs] ELSE briefs
      /\ chips' = IF Fits(new) THEN [chips EXCEPT ![u] = new.chips] ELSE chips
      /\ spent' = IF Fits(new) /\ m.kind = "cost" THEN spent + 1 ELSE spent
      /\ cached' = cached /\ stored' = stored /\ asked' = asked
  <2>1. CASE Fits(new)
    BY <1>0, <1>1, <2>1 DEF UpdateAtUser, bars
  <2>2. CASE ~Fits(new)
    BY <1>0, <1>1, <2>2 DEF UpdateAtUser, bars
  <2> QED BY <2>1, <2>2
<1>3. /\ briefs \in [Users -> Seq(Brief)] /\ chips \in [Users -> Nat] /\ spent \in Nat
      /\ updates \in [Users -> Seq(Update)] /\ UpdatesOK
  BY DEF IInv, Shape, UserOK, UpdatesOK
<1>4. spent' = spent + c /\ c \in {0, 1}
  BY <1>1, <1>2, <1>3
<1>5. /\ q \in Seq(Update) /\ m = q[1] /\ 1 \in DOMAIN q /\ updates'[u] = Tail(q)
      /\ \A v \in Users \ {u} : updates'[v] = updates[v]
      /\ \A k \in DOMAIN updates'[u] : k + 1 \in DOMAIN q /\ updates'[u][k] = q[k + 1]
  BY <1>0, <1>2, <1>3, TailOf
<1>6. \A v \in Users \ {u} : End'[v] = End[v]
  <2>1. \A v \in Users \ {u} : updates'[v] = updates[v] /\ briefs'[v] = briefs[v] /\ chips'[v] = chips[v]
    BY <1>2, <1>3, <1>5
  <2> QED BY <2>1, EndUntouched
<1>7. PICK z : z = IF Fits(new) THEN new ELSE w
  OBVIOUS
<1>8. PICK a : a = [ wallet |-> z, spent |-> 0 ]
  OBVIOUS
<1>9. Now(u)' = a
  <2>1. CASE Fits(new)
    <3>1. new = [ briefs |-> new.briefs, chips |-> new.chips ]
      <4>1. GoodEnd(Now(u), Tbids) /\ Now(u).wallet = w
        BY <1>0, NowGood DEF IInv, Shape, Now
      <4>2. MessageOK(m, Tbids)
        <5>1. MessageOK(m, Given)
          BY <1>0, <1>5 DEF IInv, Shape, UpdatesOK
        <5> QED BY <5>1, ShapeBars DEF MessageOK
      <4>3. OpsTyped(m.ops, Tbids)
        BY <4>2, OpsTypedOK
      <4>4. new \in Loose(Tbids)
        BY <1>1, <4>1, <4>3, MessageDone DEF GoodEnd
      <4> QED BY <4>4 DEF Loose
    <3>2. briefs'[u] = new.briefs /\ chips'[u] = new.chips
      BY <1>2, <1>3, <2>1
    <3> QED BY <1>7, <1>8, <2>1, <3>1, <3>2 DEF Now
  <2>2. CASE ~Fits(new)
    BY <1>0, <1>2, <1>7, <1>8, <2>2 DEF Now
  <2> QED BY <2>1, <2>2
<1>10. Took(Now(u), m) = [ wallet |-> z, spent |-> c ]
  <2>1. Now(u).wallet = w /\ Now(u).spent = 0 /\ Now(u) = [ wallet |-> w, spent |-> 0 ]
    BY <1>0 DEF Now
  <2>2. CASE Fits(new)
    <3>1. c = 0 + (IF m.kind = "cost" THEN 1 ELSE 0)
      BY <1>1, <2>2
    <3>2. Took(Now(u), m) = [ wallet |-> new, spent |-> 0 + (IF m.kind = "cost" THEN 1 ELSE 0) ]
      BY <1>1, <2>1, <2>2 DEF Took
    <3> QED BY <1>7, <2>2, <3>1, <3>2
  <2>3. CASE ~Fits(new)
    BY <1>1, <1>7, <2>1, <2>3 DEF Took
  <2> QED BY <2>2, <2>3
<1>11. Final(Now(u), q) = Final([ wallet |-> z, spent |-> c ], Tail(q))
  <2>1. PICK v : v = Now(u)
    OBVIOUS
  <2>2. Final(v, q) = Final(Took(v, Head(q)), Tail(q))
    BY <1>2, <1>5, FinalTail
  <2> QED BY <1>0, <1>10, <2>1, <2>2
<1>12. Tail(q) \in Seq(Update) /\ Len(Tail(q)) \in Nat
  BY <1>2, <1>5, HeadTailProperties, LenProperties
<1>13. PICK p : p = Final(a, Tail(q))
  OBVIOUS
<1>14. p.spent \in Nat /\ Final([ wallet |-> z, spent |-> c ], Tail(q)) = [ wallet |-> p.wallet, spent |-> p.spent + c ]
  <2>1. PICK r : r = Tail(q)
    OBVIOUS
  <2>2. Len(r) \in Nat /\ c \in Nat
    BY <1>4, <1>12, <2>1
  <2>3. LET x == Final([ wallet |-> z, spent |-> 0 ], r)
            y == Final([ wallet |-> z, spent |-> c ], r)
        IN  x.spent \in Nat /\ y = [ wallet |-> x.wallet, spent |-> x.spent + c ]
    BY <2>2, FinalShift
  <2> QED BY <1>8, <1>13, <2>1, <2>3
<1>15. End[u] = [ wallet |-> p.wallet, spent |-> p.spent + c ] /\ End'[u] = p
  BY <1>0, <1>5, <1>9, <1>11, <1>13, <1>14 DEF End
<1>16. \A b \in Tbids : Stays(b)
  BY <1>2, StaysAlone
<1>17. ASSUME NEW b \in Tbids PROVE Held(b)' = Held(b)
  <2>1. ASSUME Exists(b), NEW x, x = GetTeaBar(b).master
        PROVE  In(End'[x].wallet.briefs, b) = In(End[x].wallet.briefs, b)
    <3>1. x \in Users
      BY <2>1, ThereIs DEF Bar, IInv, Shape
    <3>2. End'[x].wallet = End[x].wallet
      BY <1>6, <1>15, <3>1
    <3> QED BY <3>2
  <2> QED BY <1>16, <2>1, HeldSame DEF Stays
<1>18. Balance'
  <2>1. \A v \in Users \ {u} : Purses'[v] = Purses[v]
    BY <1>6 DEF Purses
  <2>2. PICK b \in m.tbids : TRUE
    BY <1>0, <1>5 DEF Books, Named
  <2>3. b \in Tbids
    BY <1>0, <1>5, <2>2, ShapeBars DEF IInv, Shape, UpdatesOK, MessageOK
  <2>4. (Purses'[u] - Purses[u]) + (Held(b)' - Held(b)) + (spent' - spent) = 0
    <3>1. Held(b)' = Held(b) /\ Held(b) \in Int
      BY <1>17, <2>3, CountsAre DEF CountsInts
    <3>2. Purses[u] = p.wallet.chips + (p.spent + c) /\ Purses'[u] = p.wallet.chips + p.spent
      BY <1>15 DEF Purses
    <3>3. p.wallet.chips \in Int
      BY <1>15, EndsAre DEF EndsRight, GoodEnd, Loose
    <3> QED BY <1>3, <1>4, <1>14, <3>1, <3>2, <3>3
  <2>5. \A d \in Tbids \ {b} : Held(d)' = Held(d)
    BY <1>17
  <2> QED BY <2>1, <2>3, <2>4, <2>5, BalanceMoves DEF Books
<1>19. AllSeen'
  <2>1. \A b \in Given : b \in Tbids
    BY ShapeBars
  <2>2. \A b \in Tbids : Exists(b)' = Exists(b)
    BY <1>16 DEF Stays
  <2> QED BY <1>2, <1>17, <2>1, <2>2, SeenKept DEF Books
<1>20. Named'
  <2>1. ASSUME NEW v \in Users, NEW k \in DOMAIN updates'[v] PROVE updates'[v][k].tbids # {}
    <3>1. CASE v = u
      BY <1>0, <1>5, <2>1, <3>1 DEF Books, Named
    <3>2. CASE v # u
      BY <1>5, <2>1, <3>2 DEF Books, Named
    <3> QED BY <3>1, <3>2
  <2> QED BY <2>1 DEF Named
<1> QED BY <1>18, <1>19, <1>20 DEF Books

-----------------------------------------------------------------------------
(* Requests and the ledger *)

(* Who moves chips of a bar keeps out who frees it.                        *)
LEMMA FreeClashes ==
  /\ {"put", "free"} \in Conflicts /\ {"free", "put"} \in Conflicts
  /\ {"cost", "free"} \in Conflicts /\ {"free", "cost"} \in Conflicts
<1>1. {"put", "free"} \in Conflicts /\ {"cost", "free"} \in Conflicts
  BY DEF Conflicts
<1>2. \A a, c : {a, c} = {c, a}
  OBVIOUS
<1> QED BY <1>1, <1>2

(* A master to whom nothing is on its way has the chips of his bar.        *)
LEMMA HeldNow ==
  ASSUME IInv, spoilt = {}, NEW b \in Tbids, Exists(b), NEW m \in Users, m = GetTeaBar(b).master,
         updates[m] = << >>, NEW k \in DOMAIN briefs[m], briefs[m][k].tbid = b
  PROVE  Held(b) = briefs[m][k].chips
<1>1. End[m] = Now(m)
  <2>1. PICK v : v = Now(m)
    OBVIOUS
  <2>2. Final(v, << >>) = v
    BY FinalEmpty
  <2> QED BY <2>1, <2>2 DEF End
<1>2. End[m].wallet.briefs = briefs[m]
  BY <1>1 DEF Now
<1>3. Sound(b)
  BY DEF IInv
<1>4. PICK s : s = briefs[m]
  OBVIOUS
<1>5. Once(s, b) /\ k \in DOMAIN s /\ s[k].tbid = b
  BY <1>3, <1>4, ShowsNow DEF Shows
<1>6. In(s, b) = s[k].chips
  BY <1>5, InOne
<1> QED BY <1>2, <1>4, <1>6 DEF Held

(* A request moves no chips, and reads what there is.                      *)
LEMMA AskBooks ==
  ASSUME IInv, IInv', Books, spoilt = {}, NEW kind, NEW by \in Users, NEW who \in Users,
         NEW tbids \in SUBSET Given, NEW n, Ask(kind, by, who, tbids, n),
         kind \in {"put", "cost"} => \A b \in tbids : Exists(b)
  PROVE  Books'
<1>1. PICK seen : seen = [ u \in Users |-> IF u \in {by, who} THEN briefs[u] ELSE << >> ]
  OBVIOUS
<1>2. PICK s : s = [ kind |-> kind, by |-> by, who |-> who, tbids |-> tbids, n |-> n,
                     seen |-> seen, purse |-> IF kind = "put" THEN chips[by] ELSE 0 ]
  OBVIOUS
<1>3. PICK i \in Slots : asked' = [asked EXCEPT ![i] = s]
  BY <1>1, <1>2 DEF Ask
<1>4. /\ UNCHANGED atUser /\ updates' = updates /\ cached' = cached /\ stored' = stored
      /\ updates[by] = << >> /\ briefs' = briefs /\ chips' = chips /\ spent' = spent
  BY DEF Ask, bars, atUser
<1>5. \A u \in Users : End'[u] = End[u]
  BY <1>4, EndUntouched
<1>6. \A b \in Tbids : Stays(b)
  BY <1>4, StaysAlone
<1>7. Named'
  BY <1>4 DEF Books, Named
<1>8. ASSUME NEW b \in Tbids PROVE Held(b)' = Held(b)
  <2>1. ASSUME Exists(b), NEW m, m = GetTeaBar(b).master
        PROVE  In(End'[m].wallet.briefs, b) = In(End[m].wallet.briefs, b)
    <3>1. m \in Users
      BY <2>1, ThereIs DEF Bar, IInv, Shape
    <3> QED BY <1>5, <3>1
  <2> QED BY <1>6, <2>1, HeldSame DEF Stays
<1>9. Balance'
  <2>1. \A u \in Users : Purses'[u] = Purses[u]
    BY <1>5 DEF Purses
  <2> QED BY <1>4, <1>8, <2>1, BalanceStays DEF Books
<1>10. Given \subseteq Tbids /\ asked \in [Slots -> Asked \cup {None}]
  BY ShapeBars DEF Shape, AskedOK
<1>11. ASSUME NEW b \in tbids, kind \in {"free", "transfer"}, Exists(b),
              NEW k \in DOMAIN briefs[by], briefs[by][k].tbid = b, briefs[by][k].master = by
       PROVE  briefs[by][k].chips = Held(b)
  <2>1. b \in Tbids /\ Sound(b)
    BY <1>10, <1>11 DEF IInv
  <2>2. Shows(briefs[by], by, b, Due(by, b))
    BY <1>4, <2>1, ShowsNow
  <2>3. GetTeaBar(b).master = by
    BY <1>11, <2>2, ShowsDue
  <2> QED BY <1>4, <1>11, <2>1, <2>3, HeldNow
<1>12. ASSUME NEW j \in Slots, asked'[j] # None, NEW b \in asked'[j].tbids
       PROVE  SeenRight(asked[j], b)'
  <2>1. CASE j = i
    <3>1. asked'[j] = s /\ s.kind = kind /\ s.by = by /\ s.seen[by] = briefs[by] /\ s.tbids = tbids
      BY <1>1, <1>2, <1>3, <1>10, <2>1
    <3>2. b \in tbids /\ b \in Tbids
      BY <1>10, <1>12, <3>1
    <3>3. Exists(b)' = Exists(b) /\ Held(b)' = Held(b)
      BY <1>6, <1>8, <3>2 DEF Stays
    <3> QED BY <1>11, <3>1, <3>2, <3>3 DEF SeenRight
  <2>2. CASE j # i
    <3>1. asked'[j] = asked[j]
      BY <1>3, <1>10, <2>2
    <3>2. SeenRight(asked[j], b) /\ b \in asked[j].tbids
      BY <1>12, <3>1 DEF Books, AllSeen
    <3>3. b \in Tbids
      BY <1>10, <1>12, <3>1 DEF IInv, Shape, AskedOK, SlotOK
    <3>4. Exists(b)' = Exists(b) /\ Held(b)' = Held(b)
      BY <1>6, <1>8, <3>3 DEF Stays
    <3> QED BY <3>1, <3>2, <3>4 DEF SeenRight
  <2> QED BY <2>1, <2>2
<1>13. AllSeen'
  BY <1>12 DEF AllSeen
<1> QED BY <1>7, <1>9, <1>13 DEF Books

(* No request breaks the books.                                            *)
LEMMA RequestBooks ==
  ASSUME IInv, IInv', Books, spoilt = {}, NEW u \in Users, Requests(u)
  PROVE  Books'
<1>1. PICK kind, who, tbids, n : MayAsk(kind, u, who, tbids, n) /\ Ask(kind, u, who, tbids, n)
  BY RequestAsks
<1>2. who \in Users /\ tbids \in SUBSET Given
  BY <1>1 DEF MayAsk
<1>3. ASSUME kind \in {"put", "cost"}, NEW b \in tbids PROVE Exists(b)
  <2>1. CASE kind = "put"
    BY <1>1, <1>3, <2>1 DEF MayAsk
  <2>2. CASE kind = "cost"
    <3>1. updates[u] = << >> /\ b \in Tbids /\ Has(briefs[u], b)
      BY <1>1, <1>2, <1>3, <2>2, ShapeBars DEF Ask, MayAsk
    <3>2. Sound(b)
      BY <3>1 DEF IInv
    <3>3. Shows(briefs[u], u, b, Due(u, b))
      BY <3>1, <3>2, ShowsNow
    <3>4. On(u, b)
      BY <3>1, <3>3, ShowsDue
    <3> QED BY <3>4 DEF On
  <2> QED BY <1>3, <2>1, <2>2
<1> QED
  BY <1>1, <1>2, <1>3, AskBooks

-----------------------------------------------------------------------------
(* Chips that are put, taken and spent *)

(* What chips paid to a bar do to the brief of its master, and to the      *)
(* purse.                                                                  *)
LEMMA BarPaid ==
  ASSUME NEW T, NEW w \in Loose(T), NEW b, NEW n \in Int, NEW op, op = BarChips(b, n), OpTyped(op, T),
         Once(w.briefs, b), Has(w.briefs, b)
  PROVE  /\ In(Done(w, op).briefs, b) = In(w.briefs, b) + n
         /\ Done(w, op).chips = w.chips
         /\ In(w.briefs, b) \in Int
<1>1. op.field = "bar" /\ op.tbid = b /\ op.n = n
  BY DEF BarChips
<1>2. PICK s : s = w.briefs
  OBVIOUS
<1>3. s \in Seq(LooseBrief(T)) /\ w.chips \in Int /\ w = [ briefs |-> s, chips |-> w.chips ]
  BY <1>2 DEF Loose
<1>4. Len(s) \in Nat /\ DOMAIN s = 1 .. Len(s)
  BY <1>3, LenProperties
<1>5. PICK k : k = At(s, b)
  OBVIOUS
<1>6. k \in DOMAIN s /\ s[k].tbid = b
  BY <1>2, <1>4, <1>5, AtFound
<1>7. s[k] \in LooseBrief(T) /\ s[k].chips \in Int
  <2>1. s[k] \in LooseBrief(T)
    <3>1. PICK brief : brief = LooseBrief(T)
      OBVIOUS
    <3>2. s \in Seq(brief)
      BY <1>3, <3>1
    <3> QED BY <1>6, <3>1, <3>2
  <2> QED BY <2>1 DEF LooseBrief
<1>8. Done(w, op) = [w EXCEPT !.briefs[k].chips = @ + n]
  BY <1>1, <1>2, <1>5 DEF Done
<1>9. PICK t : t = [s EXCEPT ![k] = [s[k] EXCEPT !.chips = @ + n]]
  OBVIOUS
<1>10. Done(w, op).briefs = t /\ Done(w, op).chips = w.chips
  BY <1>2, <1>3, <1>8, <1>9
<1>11. DOMAIN t = DOMAIN s /\ (\A j \in DOMAIN s : t[j].tbid = s[j].tbid) /\ t[k].chips = s[k].chips + n
  BY <1>6, <1>7, <1>9 DEF LooseBrief
<1>12. Once(s, b) /\ Once(t, b)
  BY <1>2, <1>11 DEF Once
<1>13. In(s, b) = s[k].chips
  BY <1>6, <1>12, InOne
<1>14. In(t, b) = t[k].chips
  <2>1. k \in DOMAIN t /\ t[k].tbid = b
    BY <1>6, <1>11
  <2> QED BY <1>12, <2>1, InOne
<1> QED BY <1>2, <1>7, <1>10, <1>11, <1>13, <1>14

(* One field, and two.                                                     *)
LEMMA DoneOnce ==
  ASSUME NEW w, Fits(w), NEW op, NEW pp
  PROVE  /\ AllDone(w, << op >>) = Done(w, op)
         /\ AllDone(w, << op, pp >>) = After(Done(w, op), pp)
<1>1. AllDone(w, << op >>) = Done(w, op)
  <2>0. PICK ops : ops = << op >>
    OBVIOUS
  <2>1. Len(ops) = 1 /\ ops[1] = op
    BY <2>0
  <2>2. PICK f : /\ f = [k \in 0 .. Len(ops) |-> IF k = 0 THEN w ELSE After(f[k - 1], ops[k])]
                 /\ AllDone(w, ops) = f[Len(ops)]
    <3>1. Len(ops) \in Nat
      BY <2>1
    <3> QED BY <3>1, AllDoneRuns
  <2>3. f[0] = w
    BY <2>1, <2>2
  <2>4. f[1] = After(f[0], op)
    BY <2>1, <2>2
  <2> QED BY <2>0, <2>1, <2>2, <2>3, <2>4 DEF After
<1>2. AllDone(w, << op, pp >>) = After(Done(w, op), pp)
  <2>0. PICK ops : ops = << op, pp >>
    OBVIOUS
  <2>1. Len(ops) = 2 /\ ops[1] = op /\ ops[2] = pp
    BY <2>0
  <2>2. PICK f : /\ f = [k \in 0 .. Len(ops) |-> IF k = 0 THEN w ELSE After(f[k - 1], ops[k])]
                 /\ AllDone(w, ops) = f[Len(ops)]
    <3>1. Len(ops) \in Nat
      BY <2>1
    <3> QED BY <3>1, AllDoneRuns
  <2>3. f[0] = w
    BY <2>1, <2>2
  <2>4. f[1] = After(f[0], op)
    BY <2>1, <2>2
  <2>5. f[2] = After(f[1], pp)
    BY <2>1, <2>2
  <2>6. f[1] = Done(w, op)
    BY <2>3, <2>4 DEF After
  <2> QED BY <2>0, <2>1, <2>2, <2>5, <2>6
<1> QED BY <1>1, <1>2

(* What is put into a bar comes from the purse.                            *)
LEMMA TookPut ==
  ASSUME NEW T, NEW v, GoodEnd(v, T), NEW m, MessageOK(m, T), m.kind = "put", NEW b, NEW n \in Int,
         m.ops = << BarChips(b, n), Purse(-n) >>,
         Once(v.wallet.briefs, b), Has(v.wallet.briefs, b)
  PROVE  (Took(v, m).wallet.chips + Took(v, m).spent) + In(Took(v, m).wallet.briefs, b)
           = (v.wallet.chips + v.spent) + In(v.wallet.briefs, b)
<1>1. PICK w, op, pp : w = v.wallet /\ op = BarChips(b, n) /\ pp = Purse(-n)
  OBVIOUS
<1>2. w \in Loose(T) /\ Fits(w) /\ v.spent \in Nat /\ w.chips \in Int
  BY <1>1 DEF GoodEnd, Loose
<1>3. OpTyped(op, T) /\ OpTyped(pp, T)
  <2>1. OpsTyped(m.ops, T)
    BY OpsTypedOK
  <2>2. m.ops = << op, pp >>
    BY <1>1
  <2>3. 1 \in DOMAIN m.ops /\ 2 \in DOMAIN m.ops /\ m.ops[1] = op /\ m.ops[2] = pp
    BY <2>2
  <2> QED BY <2>1, <2>3 DEF OpsTyped
<1>4. PICK z : z = Done(w, op)
  OBVIOUS
<1>5. In(z.briefs, b) = In(w.briefs, b) + n /\ z.chips = w.chips /\ In(w.briefs, b) \in Int
  BY <1>1, <1>2, <1>3, <1>4, BarPaid
<1>6. z \in Loose(T)
  BY <1>2, <1>3, <1>4, DoneLoose
<1>7. PICK y : y = After(z, pp)
  OBVIOUS
<1>8. AllDone(w, m.ops) = y
  BY <1>1, <1>2, <1>4, <1>7, DoneOnce
<1>9. CASE Fits(y)
  <2>1. CASE Fits(z)
    <3>1. y = Done(z, pp)
      BY <1>7, <2>1 DEF After
    <3>2. pp.field = "purse" /\ pp.n = -n
      BY <1>1 DEF Purse
    <3>3. y.chips = z.chips + pp.n /\ y.briefs = z.briefs
      BY <1>6, <3>1, <3>2 DEF Done, Loose
    <3>4. Took(v, m) = [ wallet |-> y, spent |-> v.spent + 0 ]
      BY <1>1, <1>8, <1>9 DEF Took
    <3>5. Took(v, m).wallet = y /\ Took(v, m).spent = v.spent
      BY <1>2, <3>4
    <3>6. y.chips = w.chips + (-n) /\ In(y.briefs, b) = In(w.briefs, b) + n
      BY <1>5, <3>2, <3>3
    <3>7. (y.chips + v.spent) + In(y.briefs, b) = (w.chips + v.spent) + In(w.briefs, b)
      BY <1>2, <1>5, <3>6
    <3> QED BY <1>1, <3>5, <3>7
  <2>2. CASE ~Fits(z)
    BY <1>7, <1>9, <2>2 DEF After
  <2> QED BY <2>1, <2>2
<1>10. CASE ~Fits(y)
  BY <1>1, <1>8, <1>10 DEF Took
<1> QED BY <1>9, <1>10

(* What is spent comes from the bar.                                       *)
LEMMA TookCost ==
  ASSUME NEW T, NEW v, GoodEnd(v, T), NEW m, MessageOK(m, T), m.kind = "cost", NEW b,
         m.ops = << BarChips(b, -1) >>,
         Once(v.wallet.briefs, b), Has(v.wallet.briefs, b)
  PROVE  (Took(v, m).wallet.chips + Took(v, m).spent) + In(Took(v, m).wallet.briefs, b)
           = (v.wallet.chips + v.spent) + In(v.wallet.briefs, b)
<1>1. PICK w, op : w = v.wallet /\ op = BarChips(b, -1)
  OBVIOUS
<1>2. w \in Loose(T) /\ Fits(w) /\ v.spent \in Nat /\ w.chips \in Int
  BY <1>1 DEF GoodEnd, Loose
<1>3. OpTyped(op, T)
  <2>1. OpsTyped(m.ops, T)
    BY OpsTypedOK
  <2>2. m.ops = << op >>
    BY <1>1
  <2>3. 1 \in DOMAIN m.ops /\ m.ops[1] = op
    BY <2>2
  <2> QED BY <2>1, <2>3 DEF OpsTyped
<1>4. PICK z : z = Done(w, op)
  OBVIOUS
<1>5. In(z.briefs, b) = In(w.briefs, b) + (-1) /\ z.chips = w.chips /\ In(w.briefs, b) \in Int
  <2>1. -1 \in Int
    OBVIOUS
  <2> QED BY <1>1, <1>2, <1>3, <1>4, <2>1, BarPaid
<1>6. AllDone(w, m.ops) = z
  BY <1>1, <1>2, <1>4, DoneOnce
<1>7. CASE Fits(z)
  <2>1. Took(v, m) = [ wallet |-> z, spent |-> v.spent + 1 ]
    BY <1>1, <1>6, <1>7 DEF Took
  <2>2. Took(v, m).wallet = z /\ Took(v, m).spent = v.spent + 1
    BY <2>1
  <2>3. (z.chips + (v.spent + 1)) + In(z.briefs, b) = (w.chips + v.spent) + In(w.briefs, b)
    BY <1>2, <1>5
  <2> QED BY <1>1, <2>2, <2>3
<1>8. CASE ~Fits(z)
  BY <1>1, <1>6, <1>8 DEF Took
<1> QED BY <1>7, <1>8

(* Chips of a bar are moved by a message to its master, and kept count of: *)
(* who frees or transfers the bar does not wait at the same time.          *)
LEMMA PaidBooks ==
  ASSUME IInv, IInv', Books, spoilt = {}, spoilt' = {}, NEW i \in Slots, NEW kind \in {"put", "cost"},
         Turn(i, kind), Rest, NoWrite, NEW b, b = Bar1(asked[i]), NEW u, u = asked[i].by,
         Exists(b), GetTeaBar(b).master = u,
         NEW ops, Save(asked[i], For(u, ops)), ops # << >>,
         \A c : c # b => \A k \in DOMAIN ops : Aside(ops[k], c),
         \A v, m : /\ GoodEnd(v, Tbids) /\ MessageOK(m, Tbids) /\ m.kind = kind /\ m.ops = ops
                   /\ Once(v.wallet.briefs, b) /\ Has(v.wallet.briefs, b)
                   => (Took(v, m).wallet.chips + Took(v, m).spent) + In(Took(v, m).wallet.briefs, b)
                        = (v.wallet.chips + v.spent) + In(v.wallet.briefs, b)
  PROVE  Books'
<1>1. /\ asked[i] # None /\ asked[i].kind = kind /\ asked' = [asked EXCEPT ![i] = None]
      /\ u \in Users /\ asked[i].tbids = {b} /\ b \in Tbids
  BY Answered
<1>2. UNCHANGED atUser /\ spent' = spent
  BY DEF Rest, atUser
<1>3. \A c \in Tbids : Stays(c)
  BY StaysAlone DEF NoWrite
<1>4. PICK all : all = For(u, ops)
  OBVIOUS
<1>5. Save(asked[i], all) /\ all[u] = ops /\ \A x \in Users \ {u} : all[x] = << >>
  BY <1>1, <1>4 DEF For
<1>6. \A x \in Users \ {u} : End'[x] = End[x]
  BY <1>2, <1>5, EndSave
<1>7. PICK m : /\ m.kind = kind /\ m.ops = ops /\ MessageOK(m, Tbids) /\ End'[u] = Took(End[u], m)
  BY <1>1, <1>2, <1>5, EndSave
<1>8. PICK v : v = End[u]
  OBVIOUS
<1>9. GoodEnd(v, Tbids) /\ Shows(v.wallet.briefs, u, b, Due(u, b))
  BY <1>1, <1>8, EndsAre DEF EndsRight
<1>10. Once(v.wallet.briefs, b) /\ Has(v.wallet.briefs, b)
  <2>1. Sound(b)
    BY <1>1 DEF IInv
  <2>2. On(u, b)
    BY <1>1, <2>1 DEF Sound
  <2> QED BY <1>9, <2>2, ShowsDue DEF Shows
<1>11. (Took(v, m).wallet.chips + Took(v, m).spent) + In(Took(v, m).wallet.briefs, b)
         = (v.wallet.chips + v.spent) + In(v.wallet.briefs, b)
  BY <1>7, <1>9, <1>10
<1>12. Held(b) = In(v.wallet.briefs, b) /\ Held(b)' = In(Took(v, m).wallet.briefs, b)
  <2>1. Exists(b)' /\ GetTeaBar(b)'.master = u
    BY <1>1, <1>3 DEF Stays
  <2> QED BY <1>7, <1>8, <2>1 DEF Held
<1>13. ASSUME NEW c \in Tbids \ {b} PROVE Held(c)' = Held(c)
  <2>1. ASSUME Exists(c), NEW x, x = GetTeaBar(c).master PROVE \A k \in DOMAIN all[x] : Aside(all[x][k], c)
    <3>1. x \in Users
      BY <2>1, ThereIs DEF Bar, IInv, Shape
    <3>2. CASE x = u
      BY <1>5, <1>13, <3>2
    <3>3. CASE x # u
      <4>1. all[x] = << >> /\ DOMAIN << >> = {}
        BY <1>5, <3>1, <3>3
      <4> QED BY <4>1
    <3> QED BY <3>2, <3>3
  <2>2. Stays(c) /\ c \in Tbids
    BY <1>3
  <2> QED BY <1>2, <1>5, <2>1, <2>2, HeldStays
<1>14. Balance'
  <2>1. \A x \in Users \ {u} : Purses'[x] = Purses[x]
    BY <1>6 DEF Purses
  <2>2. PICK p, q, g, h : p = Purses[u] /\ q = Purses'[u] /\ g = Held(b) /\ h = Held(b)'
    OBVIOUS
  <2>3. p \in Int /\ q \in Int /\ g \in Int /\ h \in Int /\ spent \in Int
    BY <1>1, <2>2, CountsAre, CountsWill DEF CountsInts
  <2>4. p = v.wallet.chips + v.spent /\ q = Took(v, m).wallet.chips + Took(v, m).spent
    BY <1>1, <1>7, <1>8, <2>2 DEF Purses
  <2>5. q + h = p + g
    BY <1>11, <1>12, <2>2, <2>4
  <2>6. (q - p) + (h - g) + (spent' - spent) = 0
    BY <1>2, <2>3, <2>5
  <2> QED BY <1>1, <1>13, <2>1, <2>2, <2>6, BalanceMoves DEF Books
<1>15. AllSeen'
  <2>1. \A j \in Slots : asked'[j] = asked[j] \/ asked'[j] = None
    BY <1>1 DEF IInv, Shape, AskedOK
  <2>2. ASSUME NEW j \in Slots, NEW c \in Given, asked'[j] # None, asked'[j] = asked[j], c \in asked[j].tbids
        PROVE  /\ asked[j].kind \in {"free", "transfer"} /\ Exists(c)' => Exists(c) /\ Held(c)' = Held(c)
               /\ asked[j].kind \in {"put", "cost"} /\ Exists(c) => Exists(c)'
    <3>1. c \in Tbids /\ Exists(c)' = Exists(c)
      BY <1>3, <2>2, ShapeBars DEF Stays
    <3>2. ASSUME asked[j].kind \in {"free", "transfer"} PROVE c # b
      <4>1. SUFFICES ASSUME c = b PROVE FALSE
        OBVIOUS
      <4>2. Apart(b)
        BY <1>1 DEF IInv, Sound
      <4>3. j # i
        BY <1>1, <2>2 DEF IInv, Shape, AskedOK
      <4>4. {asked[i].kind, asked[j].kind} \notin Conflicts
        BY <1>1, <2>2, <4>1, <4>2, <4>3 DEF Apart
      <4>5. {kind, asked[j].kind} \in Conflicts
        BY <3>2, Clashes, FreeClashes
      <4> QED BY <1>1, <4>4, <4>5
    <3> QED BY <1>13, <3>1, <3>2
  <2> QED BY <2>1, <2>2, SeenKept DEF Books
<1>16. Named'
  <2>1. asked[i].tbids # {}
    BY <1>1
  <2> QED BY <1>5, <2>1, SaveNamed DEF Books
<1> QED BY <1>14, <1>15, <1>16 DEF Books

(* The answer to a put.                                                    *)
LEMMA PutBooks ==
  ASSUME IInv, IInv', Books, spoilt = {}, spoilt' = {}, NEW i \in Slots, PutGot(i)
  PROVE  Books'
<1>0. PICK u, b, n : u = asked[i].by /\ b = Bar1(asked[i]) /\ n = asked[i].n
  OBVIOUS
<1>1. Turn(i, "put") /\ Rest /\ NoWrite
  BY DEF PutGot
<1>2. /\ asked[i] # None /\ asked' = [asked EXCEPT ![i] = None] /\ b \in Tbids /\ UNCHANGED atUser
      /\ asked[i].kind = "put" /\ b \in asked[i].tbids /\ u \in Users /\ asked[i] \in Asked
      /\ (Exists(b) => Relies(asked[i], b))
  BY <1>0, <1>1, Answered DEF Rest
<1>3. CASE UNCHANGED updates
  <2>1. \A c \in Tbids : Stays(c)
    BY <1>1, StaysAlone DEF NoWrite
  <2> QED BY <1>2, <1>3, <2>1, SilentAnswer
<1>4. CASE Save(asked[i], For(u, << BarChips(b, n), Purse(-n) >>))
  <2>1. Exists(b) /\ GetTeaBar(b).master = u
    <3>1. Exists(b)
      BY <1>2 DEF Books, AllSeen, SeenRight
    <3> QED BY <1>0, <1>2, <3>1 DEF Relies
  <2>2. n \in Int
    BY <1>0, <1>2 DEF Asked
  <2>3. PICK ops : ops = << BarChips(b, n), Purse(-n) >>
    OBVIOUS
  <2>4. ops # << >>
    BY <2>3
  <2>5. ASSUME NEW c, c # b, NEW k \in DOMAIN ops PROVE Aside(ops[k], c)
    <3>1. ops[k] = BarChips(b, n) \/ ops[k] = Purse(-n)
      BY <2>3, <2>5
    <3> QED BY <2>5, <3>1 DEF Aside, BarChips, Purse
  <2>6. ASSUME NEW v, NEW m, GoodEnd(v, Tbids), MessageOK(m, Tbids), m.kind = "put", m.ops = ops,
               Once(v.wallet.briefs, b), Has(v.wallet.briefs, b)
        PROVE  (Took(v, m).wallet.chips + Took(v, m).spent) + In(Took(v, m).wallet.briefs, b)
                 = (v.wallet.chips + v.spent) + In(v.wallet.briefs, b)
    BY <2>2, <2>3, <2>6, TookPut
  <2>7. PICK kind : kind = "put"
    OBVIOUS
  <2>8. kind \in {"put", "cost"} /\ Turn(i, kind) /\ Save(asked[i], For(u, ops))
    BY <1>1, <1>4, <2>3, <2>7
  <2>9. \A c : c # b => \A k \in DOMAIN ops : Aside(ops[k], c)
    BY <2>5
  <2>10. \A v, m : /\ GoodEnd(v, Tbids) /\ MessageOK(m, Tbids) /\ m.kind = kind /\ m.ops = ops
                  /\ Once(v.wallet.briefs, b) /\ Has(v.wallet.briefs, b)
                  => (Took(v, m).wallet.chips + Took(v, m).spent) + In(Took(v, m).wallet.briefs, b)
                       = (v.wallet.chips + v.spent) + In(v.wallet.briefs, b)
    BY <2>6, <2>7
  <2>11. Rest /\ NoWrite /\ b = Bar1(asked[i]) /\ u = asked[i].by
    BY <1>0, <1>1
  <2> QED BY <2>1, <2>4, <2>8, <2>9, <2>10, <2>11, PaidBooks
<1> QED
  BY <1>0, <1>3, <1>4 DEF PutGot

(* The answer to a cost.                                                   *)
LEMMA CostBooks ==
  ASSUME IInv, IInv', Books, spoilt = {}, spoilt' = {}, NEW i \in Slots, CostGot(i)
  PROVE  Books'
<1>0. PICK u, b : u = asked[i].by /\ b = Bar1(asked[i])
  OBVIOUS
<1>1. Turn(i, "cost") /\ Rest /\ NoWrite
  BY DEF CostGot
<1>2. /\ asked[i] # None /\ asked' = [asked EXCEPT ![i] = None] /\ b \in Tbids /\ UNCHANGED atUser
      /\ asked[i].kind = "cost" /\ b \in asked[i].tbids /\ u \in Users /\ asked[i] \in Asked
      /\ (Exists(b) => Relies(asked[i], b))
  BY <1>0, <1>1, Answered DEF Rest
<1>3. CASE UNCHANGED updates
  <2>1. \A c \in Tbids : Stays(c)
    BY <1>1, StaysAlone DEF NoWrite
  <2> QED BY <1>2, <1>3, <2>1, SilentAnswer
<1>4. CASE /\ Has(asked[i].seen[u], b) /\ asked[i].seen[u][At(asked[i].seen[u], b)].chips >= 1
           /\ Save(asked[i], For(u, << BarChips(b, -1) >>))
  <2>1. Exists(b) /\ GetTeaBar(b).master = u
    <3>1. Exists(b)
      BY <1>2 DEF Books, AllSeen, SeenRight
    <3>2. PICK s : s = asked[i].seen[u]
      OBVIOUS
    <3>3. s \in Seq(Brief) /\ SeqLen(s)
      BY <1>2, <3>2, Seen
    <3>4. At(s, b) \in DOMAIN s /\ s[At(s, b)].tbid = b
      BY <1>4, <3>2, <3>3, AtFound DEF SeqLen
    <3>5. s[At(s, b)].chips > 0
      <4>1. s[At(s, b)] \in Brief
        BY <3>3, <3>4
      <4>2. s[At(s, b)].chips \in Nat
        BY <4>1 DEF Brief
      <4> QED BY <1>4, <3>2, <4>2
    <3> QED BY <1>0, <1>2, <3>1, <3>2, <3>4, <3>5 DEF Relies
  <2>2. PICK ops : ops = << BarChips(b, -1) >>
    OBVIOUS
  <2>3. ops # << >>
    BY <2>2
  <2>4. ASSUME NEW c, c # b, NEW k \in DOMAIN ops PROVE Aside(ops[k], c)
    <3>1. ops[k] = BarChips(b, -1)
      BY <2>2, <2>4
    <3> QED BY <2>4, <3>1 DEF Aside, BarChips
  <2>5. ASSUME NEW v, NEW m, GoodEnd(v, Tbids), MessageOK(m, Tbids), m.kind = "cost", m.ops = ops,
               Once(v.wallet.briefs, b), Has(v.wallet.briefs, b)
        PROVE  (Took(v, m).wallet.chips + Took(v, m).spent) + In(Took(v, m).wallet.briefs, b)
                 = (v.wallet.chips + v.spent) + In(v.wallet.briefs, b)
    BY <2>2, <2>5, TookCost
  <2>6. PICK kind : kind = "cost"
    OBVIOUS
  <2>7. kind \in {"put", "cost"} /\ Turn(i, kind) /\ Save(asked[i], For(u, ops))
    BY <1>1, <1>4, <2>2, <2>6
  <2>8. \A c : c # b => \A k \in DOMAIN ops : Aside(ops[k], c)
    BY <2>4
  <2>9. \A v, m : /\ GoodEnd(v, Tbids) /\ MessageOK(m, Tbids) /\ m.kind = kind /\ m.ops = ops
                  /\ Once(v.wallet.briefs, b) /\ Has(v.wallet.briefs, b)
                  => (Took(v, m).wallet.chips + Took(v, m).spent) + In(Took(v, m).wallet.briefs, b)
                       = (v.wallet.chips + v.spent) + In(v.wallet.briefs, b)
    BY <2>5, <2>6
  <2> QED BY <1>0, <1>1, <2>1, <2>3, <2>7, <2>8, <2>9, PaidBooks
<1> QED
  BY <1>0, <1>3, <1>4 DEF CostGot

-----------------------------------------------------------------------------
(* A bar that is freed *)

(* The fields of its members, and of its master.                           *)
LEMMA FreeOps ==
  ASSUME NEW b, NEW n \in Nat, NEW c \in Nat, NEW own \in BOOLEAN, NEW ops,
         ops = (IF own /\ c > 0 THEN << Purse(c) >> ELSE << >>) \o [ k \in 1 .. n |-> Del(b) ]
  PROVE  /\ \A k \in DOMAIN ops : ops[k] = Del(b) \/ (own /\ c > 0 /\ k = 1 /\ ops[k] = Purse(c))
         /\ own /\ c > 0 => 1 \in DOMAIN ops /\ ops[1] = Purse(c)
<1>1. PICK T : T = {Del(b), Purse(c)}
  OBVIOUS
<1>2. PICK p, d : p = (IF own /\ c > 0 THEN << Purse(c) >> ELSE << >>) /\ d = [ k \in 1 .. n |-> Del(b) ]
  OBVIOUS
<1>3. d \in Seq(T) /\ Len(d) = n /\ \A k \in 1 .. n : d[k] = Del(b)
  <2>1. d \in [1 .. n -> T]
    BY <1>1, <1>2
  <2>2. d \in Seq(T)
    BY <2>1 DEF Seq
  <2>3. DOMAIN d = 1 .. Len(d) /\ Len(d) \in Nat
    BY <2>2, LenProperties
  <2> QED BY <1>2, <2>1, <2>2, <2>3
<1>4. CASE own /\ c > 0
  <2>1. p \in Seq(T) /\ Len(p) = 1 /\ p[1] = Purse(c)
    BY <1>1, <1>2, <1>4
  <2>2. /\ p \o d \in Seq(T) /\ Len(p \o d) = Len(p) + Len(d)
        /\ \A i \in 1 .. Len(p) + Len(d) : (p \o d)[i] = IF i <= Len(p) THEN p[i] ELSE d[i - Len(p)]
    BY <1>3, <2>1, ConcatProperties
  <2>3. ops = p \o d
    BY <1>2
  <2>4. DOMAIN ops = 1 .. 1 + n
    BY <1>3, <2>1, <2>2, <2>3, LenProperties
  <2>5. ops[1] = Purse(c)
    BY <1>3, <2>1, <2>2, <2>3
  <2>6. ASSUME NEW k \in DOMAIN ops, k # 1 PROVE ops[k] = Del(b)
    <3>1. k \in 1 .. 1 + n /\ k > 1 /\ k - 1 \in 1 .. n
      BY <2>4, <2>6
    <3>2. ops[k] = d[k - 1]
      BY <1>3, <2>1, <2>2, <2>3, <3>1
    <3> QED BY <1>3, <3>1, <3>2
  <2> QED BY <1>4, <2>4, <2>5, <2>6
<1>5. CASE ~(own /\ c > 0)
  <2>1. ops = d
    BY <1>2, <1>3, <1>5, ConcatEmptySeq
  <2> QED BY <1>3, <1>5, <2>1, LenProperties
<1> QED BY <1>4, <1>5

(* The answer to a dissolution: the master was seen with what the bar      *)
(* holds, and that goes to his purse.                                      *)
LEMMA FreeBooks ==
  ASSUME IInv, IInv', Books, spoilt = {}, spoilt' = {}, NEW i \in Slots, FreeGot(i)
  PROVE  Books'
<1>0. PICK u, b, bar : u = asked[i].by /\ b = Bar1(asked[i]) /\ bar = GetTeaBar(b)
  OBVIOUS
<1>1. PICK brief : brief = asked[i].seen[u][At(asked[i].seen[u], b)]
  OBVIOUS
<1>2. PICK ops : ops = [ x \in Users |->
               (IF x = u /\ brief.chips > 0 THEN << Purse(brief.chips) >> ELSE << >>)
               \o [ k \in 1 .. bar.users[x] |-> Del(b) ] ]
  OBVIOUS
<1>3. Turn(i, "free") /\ Rest
  BY DEF FreeGot
<1>4. /\ asked[i] # None /\ asked' = [asked EXCEPT ![i] = None] /\ b \in Tbids /\ UNCHANGED atUser
      /\ asked[i].kind = "free" /\ asked[i].tbids = {b} /\ u \in Users /\ asked[i] \in Asked
      /\ (Exists(b) => bar \in Bar) /\ Sound(b)
  BY <1>0, <1>3, Answered DEF Rest
<1>5. CASE UNCHANGED updates /\ NoWrite
  <2>1. \A c \in Tbids : Stays(c)
    BY <1>5, StaysAlone DEF NoWrite
  <2> QED BY <1>4, <1>5, <2>1, SilentAnswer
<1>6. CASE /\ Has(asked[i].seen[u], b) /\ brief.master = u /\ Exists(b) /\ bar.master = u
           /\ Saved({b}, Only(b, None)) /\ Save(asked[i], ops)
  <2>1. brief \in Brief /\ brief.chips \in Nat /\ brief.chips = Held(b)
    <3>1. PICK s : s = asked[i].seen[u]
      OBVIOUS
    <3>2. s \in Seq(Brief) /\ SeqLen(s)
      BY <1>4, <3>1, Seen
    <3>3. At(s, b) \in DOMAIN s /\ s[At(s, b)].tbid = b
      BY <1>6, <3>1, <3>2, AtFound DEF SeqLen
    <3>4. brief \in Brief
      BY <1>1, <3>1, <3>2, <3>3
    <3>5. SeenRight(asked[i], b)
      BY <1>4 DEF Books, AllSeen
    <3>6. s[At(s, b)].master = u
      BY <1>1, <1>6, <3>1
    <3>7. brief.chips = Held(b)
      BY <1>0, <1>1, <1>4, <1>6, <3>1, <3>3, <3>5, <3>6 DEF SeenRight
    <3> QED BY <3>4, <3>7 DEF Brief
  <2>2. ASSUME NEW x \in Users
        PROVE  /\ \A k \in DOMAIN ops[x] :
                    ops[x][k] = Del(b) \/ (x = u /\ brief.chips > 0 /\ k = 1 /\ ops[x][k] = Purse(brief.chips))
               /\ x = u /\ brief.chips > 0 => 1 \in DOMAIN ops[x] /\ ops[x][1] = Purse(brief.chips)
    <3>1. PICK n, own, it : n = bar.users[x] /\ own = (x = u) /\ it = ops[x]
      OBVIOUS
    <3>2. n \in Nat /\ own \in BOOLEAN
      BY <1>4, <1>6, <3>1 DEF Bar
    <3>3. it = (IF own /\ brief.chips > 0 THEN << Purse(brief.chips) >> ELSE << >>) \o [ k \in 1 .. n |-> Del(b) ]
      BY <1>2, <3>1
    <3>4. /\ \A k \in DOMAIN it : it[k] = Del(b) \/ (own /\ brief.chips > 0 /\ k = 1 /\ it[k] = Purse(brief.chips))
          /\ own /\ brief.chips > 0 => 1 \in DOMAIN it /\ it[1] = Purse(brief.chips)
      BY <2>1, <3>2, <3>3, FreeOps
    <3> QED BY <3>1, <3>4
  <2>3. /\ ~Exists(b)' /\ \A c \in Tbids \ {b} : Stays(c)
    <3>1. PICK only : only = Only(b, None)
      OBVIOUS
    <3>2. only[b] = None /\ {b} \in SUBSET Tbids /\ Saved({b}, only)
      BY <1>4, <1>6, <3>1 DEF Only
    <3>3. \A c \in Tbids : /\ GetTeaBar(c)' = IF c \in {b} THEN only[c] ELSE GetTeaBar(c)
                           /\ Exists(c)' = IF c \in {b} THEN only[c] # None ELSE Exists(c)
      BY <3>2, SavedGet
    <3> QED BY <1>4, <3>2, <3>3 DEF Stays
  <2>4. ASSUME NEW c \in Tbids \ {b} PROVE Held(c)' = Held(c)
    <3>1. ASSUME Exists(c), NEW x, x = GetTeaBar(c).master PROVE \A k \in DOMAIN ops[x] : Aside(ops[x][k], c)
      <4>1. x \in Users
        BY <3>1, ThereIs DEF Bar, IInv, Shape
      <4> QED BY <2>2, <2>4, <4>1 DEF Aside, Del, Purse
    <3>2. c \in Tbids /\ Stays(c)
      BY <2>3
    <3> QED BY <1>4, <1>6, <3>1, <3>2, HeldStays
  <2>5. ASSUME NEW x \in Users \ {u} PROVE Purses'[x] = Purses[x]
    <3>1. \A k \in DOMAIN ops[x] : ops[x][k].field # "purse"
      BY <2>2 DEF Del
    <3>2. asked[i].kind \notin {"put", "cost"}
      BY <1>4
    <3> QED BY <1>4, <1>6, <3>1, <3>2, PurseStays
  <2>6. Purses'[u] = Purses[u] + brief.chips
    <3>0. Purses[u] \in Int
      BY <1>4, CountsAre DEF CountsInts
    <3>1. CASE ops[u] = << >>
      <4>1. End'[u] = End[u]
        BY <1>4, <1>6, <3>1, EndSave
      <4>2. brief.chips = 0
        <5>1. DOMAIN ops[u] = {}
          BY <3>1
        <5> QED BY <1>4, <2>1, <2>2, <5>1
      <4> QED BY <1>4, <3>0, <4>1, <4>2 DEF Purses
    <3>2. CASE ops[u] # << >>
      <4>1. PICK m : /\ m.kind = "free" /\ m.ops = ops[u]
                     /\ MessageOK(m, Tbids) /\ End'[u] = Took(End[u], m)
        BY <1>4, <1>6, <3>2, EndSave
      <4>2. PICK v : v = End[u]
        OBVIOUS
      <4>3. GoodEnd(v, Tbids)
        BY <1>4, <4>2, EndsAre DEF EndsRight
      <4>4. v.wallet.chips \in Int /\ v.spent \in Int
        BY <4>3 DEF GoodEnd, Loose
      <4>5. \A k \in DOMAIN m.ops : k # 1 => m.ops[k].field # "purse"
        BY <1>4, <2>2, <4>1 DEF Del
      <4>6. m.kind \notin {"put", "cost"}
        BY <4>1
      <4>7. /\ Took(v, m).spent = v.spent
            /\ Took(v, m).wallet.chips =
                 v.wallet.chips + IF 1 \in DOMAIN m.ops /\ m.ops[1].field = "purse" THEN m.ops[1].n ELSE 0
        BY <4>1, <4>3, <4>5, <4>6, TookPlain
      <4>8. brief.chips = IF 1 \in DOMAIN m.ops /\ m.ops[1].field = "purse" THEN m.ops[1].n ELSE 0
        <5>1. CASE brief.chips > 0
          <6>1. 1 \in DOMAIN m.ops /\ m.ops[1] = Purse(brief.chips)
            BY <1>4, <2>2, <4>1, <5>1
          <6> QED BY <6>1 DEF Purse
        <5>2. CASE ~(brief.chips > 0)
          <6>1. brief.chips = 0
            BY <2>1, <5>2
          <6>2. 1 \in DOMAIN m.ops => m.ops[1] = Del(b)
            BY <1>4, <2>2, <4>1, <5>2
          <6> QED BY <6>1, <6>2 DEF Del
        <5> QED BY <5>1, <5>2
      <4>9. PICK c, t : c = brief.chips /\ t = Took(v, m)
        OBVIOUS
      <4>10. t.spent = v.spent /\ t.wallet.chips = v.wallet.chips + c
        BY <4>7, <4>8, <4>9
      <4>11. Purses[u] = v.wallet.chips + v.spent /\ Purses'[u] = t.wallet.chips + t.spent
        BY <1>4, <4>1, <4>2, <4>9 DEF Purses
      <4>12. c \in Int
        BY <2>1, <4>9
      <4> QED BY <4>4, <4>9, <4>10, <4>11, <4>12
    <3> QED BY <3>1, <3>2
  <2>7. Balance'
    <3>1. Held(b)' = 0 /\ Held(b) \in Int /\ Purses[u] \in Int /\ spent \in Int
      BY <1>4, <2>3, CountsAre DEF Held, CountsInts
    <3>2. spent' = spent
      BY <1>4 DEF atUser
    <3>3. PICK p, q, g, h : p = Purses[u] /\ q = Purses'[u] /\ g = Held(b) /\ h = Held(b)'
      OBVIOUS
    <3>4. q = p + g /\ h = 0 /\ p \in Int /\ g \in Int
      BY <2>1, <2>6, <3>1, <3>3
    <3>5. (q - p) + (h - g) + (spent' - spent) = 0
      BY <3>1, <3>2, <3>4
    <3> QED BY <1>4, <2>4, <2>5, <3>3, <3>5, BalanceMoves DEF Books
  <2>8. AllSeen'
    <3>1. \A j \in Slots : asked'[j] = asked[j] \/ asked'[j] = None
      BY <1>4 DEF IInv, Shape, AskedOK
    <3>2. ASSUME NEW j \in Slots, NEW c \in Given, asked'[j] # None, asked'[j] = asked[j], c \in asked[j].tbids
          PROVE  /\ asked[j].kind \in {"free", "transfer"} /\ Exists(c)' => Exists(c) /\ Held(c)' = Held(c)
                 /\ asked[j].kind \in {"put", "cost"} /\ Exists(c) => Exists(c)'
      <4>1. c \in Tbids
        BY <3>2, ShapeBars
      <4>2. CASE c = b
        <5>1. asked[j].kind \notin {"put", "cost"}
          <6>1. j # i
            BY <1>4, <3>2 DEF IInv, Shape, AskedOK
          <6>2. {asked[i].kind, asked[j].kind} \notin Conflicts
            BY <1>4, <3>2, <4>2, <6>1 DEF Sound, Apart
          <6> QED BY <1>4, <6>2, FreeClashes
        <5> QED BY <2>3, <4>2, <5>1
      <4>3. CASE c # b
        BY <2>3, <2>4, <4>1, <4>3 DEF Stays
      <4> QED BY <4>2, <4>3
    <3> QED BY <3>1, <3>2, SeenKept DEF Books
  <2>9. Named'
    <3>1. asked[i].tbids # {}
      BY <1>4
    <3> QED BY <1>6, <3>1, SaveNamed DEF Books
  <2> QED BY <2>7, <2>8, <2>9 DEF Books
<1> QED
  BY <1>0, <1>1, <1>2, <1>5, <1>6 DEF FreeGot

-----------------------------------------------------------------------------
(* A bar that is created *)

(* A new brief of a new bar is the only one, and without chips.            *)
LEMMA NewHeld ==
  ASSUME IInv, IInv', spoilt = {}, NEW b \in Tbids, ~Exists(b), NEW s, NEW ops, Save(s, ops),
         UNCHANGED atUser, s.kind \notin {"put", "cost"}, NEW u \in Users,
         \A k \in DOMAIN ops[u] : ops[u][k].n = 0
  PROVE  In(End'[u].wallet.briefs, b) = 0
<1>1. PICK v : v = End[u]
  OBVIOUS
<1>2. GoodEnd(v, Tbids) /\ Shows(v.wallet.briefs, u, b, Due(u, b))
  BY <1>1, EndsAre DEF EndsRight
<1>3. Due(u, b) = "none"
  BY DEF Due, On
<1>4. Of(v.wallet.briefs, b) = {}
  BY <1>2, <1>3 DEF Shows, Has, Of
<1>5. CASE ops[u] = << >>
  <2>1. End'[u] = v
    BY <1>1, <1>5, EndSave
  <2> QED BY <1>4, <2>1 DEF In
<1>6. CASE ops[u] # << >>
  <2>1. PICK m : /\ m.kind = s.kind /\ m.ops = ops[u]
                 /\ MessageOK(m, Tbids) /\ End'[u] = Took(v, m)
    BY <1>1, <1>6, EndSave
  <2>2. PICK t : t = Took(v, m).wallet.briefs
    OBVIOUS
  <2>3. m.kind \notin {"put", "cost"}
    BY <2>1
  <2>4. \A x \in Of(t, b) : x \in Of(v.wallet.briefs, b)
          \/ \E k \in DOMAIN m.ops : m.ops[k].field = "add" /\ x = Brought(m.ops[k])
    BY <1>2, <2>1, <2>2, <2>3, TookPlain
  <2>5. \A x \in Of(t, b) : x.chips = 0
    BY <1>4, <2>1, <2>4 DEF Brought
  <2>6. In(t, b) = 0
    <3>1. CASE Of(t, b) = {}
      BY <3>1 DEF In
    <3>2. CASE Of(t, b) # {}
      BY <2>5, <3>2, InAll
    <3> QED BY <3>1, <3>2
  <2> QED BY <2>1, <2>2, <2>6
<1> QED BY <1>5, <1>6

(* The answer to a creation.                                               *)
LEMMA CreateBooks ==
  ASSUME IInv, IInv', Books, spoilt = {}, spoilt' = {}, NEW i \in Slots, CreateGot(i)
  PROVE  Books'
<1>0. PICK u, b : u = asked[i].by /\ b = max_tbid + 1
  OBVIOUS
<1>1. PICK bar : bar = [ master |-> u, users |-> [ x \in Users |-> IF x = u THEN 1 ELSE 0 ], applied |-> {} ]
  OBVIOUS
<1>2. PICK s, ops : s = [asked[i] EXCEPT !.tbids = {b}] /\ ops = For(u, << Add(b, u, 0) >>)
  OBVIOUS
<1>3. Turn(i, "create") /\ UNCHANGED atUser
  BY DEF CreateGot
<1>4. /\ asked[i] # None /\ asked' = [asked EXCEPT ![i] = None]
      /\ asked[i].kind = "create" /\ u \in Users /\ asked[i] \in Asked
  BY <1>0, <1>3, Answered
<1>5. Shape /\ max_tbid \in Nat /\ Given \subseteq Tbids
  BY ShapeBars
<1>6. CASE UNCHANGED updates /\ NoWrite
  <2>1. \A c \in Tbids : Stays(c)
    BY <1>6, StaysAlone DEF NoWrite
  <2> QED BY <1>3, <1>4, <1>6, <2>1, SilentAnswer
<1>7. CASE /\ b <= MaxTbid /\ Saved({b}, Only(b, bar))
           /\ IF stored'[b] = None THEN UNCHANGED updates ELSE Save(s, ops)
  <2>1. b \in Tbids /\ b \notin Given /\ ~Exists(b)
    <3>1. b \in Tbids /\ b \notin Given
      BY <1>0, <1>5, <1>7, Numbers DEF Given
    <3> QED BY <1>5, <3>1, ThereIs DEF Shape
  <2>2. bar \in Bar /\ bar # None /\ bar.master = u
    <3>1. bar \in Bar
      BY <1>1, <1>4 DEF Bar
    <3> QED BY <1>1, <3>1, Numbers
  <2>3. /\ GetTeaBar(b)' = bar /\ Exists(b)' /\ stored'[b] # None
        /\ \A c \in Tbids \ {b} : Stays(c)
    <3>1. PICK only : only = Only(b, bar)
      OBVIOUS
    <3>2. only[b] = bar /\ {b} \in SUBSET Tbids /\ Saved({b}, only)
      BY <1>7, <2>1, <3>1 DEF Only
    <3>3. \A c \in Tbids : /\ GetTeaBar(c)' = IF c \in {b} THEN only[c] ELSE GetTeaBar(c)
                           /\ Exists(c)' = IF c \in {b} THEN only[c] # None ELSE Exists(c)
      BY <3>2, SavedGet
    <3>4. stored'[b] = bar
      <4>1. PICK lost \in SUBSET {b} :
              /\ stored' = [ c \in Tbids |-> IF c \in {b} \ lost THEN only[c] ELSE stored[c] ]
              /\ spoilt' = spoilt \cup lost
        BY <3>2 DEF Saved
      <4>2. lost = {}
        BY <4>1
      <4> QED BY <2>1, <3>2, <4>1, <4>2
    <3> QED BY <2>1, <2>2, <3>2, <3>3, <3>4 DEF Stays
  <2>4. Save(s, ops) /\ s.kind = "create" /\ s.tbids = {b}
    BY <1>2, <1>4, <1>7, <2>3 DEF Asked
  <2>5. s.kind \notin {"put", "cost"}
    BY <2>4
  <2>6. /\ ops[u] = << Add(b, u, 0) >> /\ \A x \in Users \ {u} : ops[x] = << >>
        /\ \A x \in Users : \A k \in DOMAIN ops[x] : ops[x][k] = Add(b, u, 0)
    <3>1. ops[u] = << Add(b, u, 0) >> /\ \A x \in Users \ {u} : ops[x] = << >>
      BY <1>2, <1>4 DEF For
    <3>2. ASSUME NEW x \in Users, NEW k \in DOMAIN ops[x] PROVE ops[x][k] = Add(b, u, 0)
      <4>1. x = u
        BY <3>1, <3>2
      <4> QED BY <3>1, <3>2, <4>1
    <3> QED BY <3>1, <3>2
  <2>7. Held(b) = 0 /\ Held(b)' = 0
    <3>1. \A k \in DOMAIN ops[u] : ops[u][k].n = 0
      BY <1>4, <2>6 DEF Add
    <3>2. In(End'[u].wallet.briefs, b) = 0
      BY <1>3, <1>4, <2>1, <2>4, <2>5, <3>1, NewHeld
    <3>3. Held(b)' = In(End'[u].wallet.briefs, b)
      BY <2>2, <2>3 DEF Held
    <3> QED BY <2>1, <3>2, <3>3 DEF Held
  <2>8. ASSUME NEW c \in Tbids \ {b} PROVE Held(c)' = Held(c)
    <3>1. ASSUME Exists(c), NEW x, x = GetTeaBar(c).master PROVE \A k \in DOMAIN ops[x] : Aside(ops[x][k], c)
      <4>1. x \in Users
        BY <3>1, ThereIs DEF Bar, IInv, Shape
      <4> QED BY <2>6, <2>8, <4>1 DEF Aside, Add
    <3>2. c \in Tbids /\ Stays(c)
      BY <2>3
    <3> QED BY <1>3, <2>4, <3>1, <3>2, HeldStays
  <2>9. ASSUME NEW x \in Users PROVE Purses'[x] = Purses[x]
    <3>1. \A k \in DOMAIN ops[x] : ops[x][k].field # "purse"
      BY <2>6 DEF Add
    <3> QED BY <1>3, <2>4, <2>5, <3>1, PurseStays
  <2>10. Balance'
    <3>1. spent' = spent
      BY <1>3 DEF atUser
    <3>2. \A c \in Tbids : Held(c)' = Held(c)
      BY <2>7, <2>8
    <3> QED BY <2>9, <3>1, <3>2, BalanceStays DEF Books
  <2>11. AllSeen'
    <3>1. \A j \in Slots : asked'[j] = asked[j] \/ asked'[j] = None
      BY <1>4 DEF IInv, Shape, AskedOK
    <3>2. \A c \in Given : c \in Tbids \ {b}
      BY <1>5, <2>1
    <3>3. \A c \in Tbids \ {b} : Exists(c)' = Exists(c)
      BY <2>3 DEF Stays
    <3> QED BY <2>8, <3>1, <3>2, <3>3, SeenKept DEF Books
  <2>12. Named'
    <3>1. s.tbids # {}
      BY <2>4
    <3> QED BY <2>4, <3>1, SaveNamed DEF Books
  <2> QED BY <2>10, <2>11, <2>12 DEF Books
<1> QED
  <2>1. \/ UNCHANGED updates /\ NoWrite
        \/ /\ ~(b > MaxTbid) /\ Saved({b}, Only(b, bar))
           /\ IF stored'[b] = None THEN UNCHANGED updates ELSE Save(s, ops)
    BY <1>0, <1>1, <1>2 DEF CreateGot
  <2>2. ~(b > MaxTbid) => b <= MaxTbid
    BY <1>0, <1>5, Numbers
  <2> QED BY <1>6, <1>7, <2>1, <2>2

-----------------------------------------------------------------------------
(* A transfer and the ledger *)

(* The fields of the messages about the bars given away to n: of the new   *)
(* master, with the chips, and of the old one, without.                    *)
GivenOps(so, given, n, x) ==
  { Del(so[k].tbid) : k \in given }
  \cup { Add(so[k].tbid, n, IF x = n THEN so[k].chips ELSE 0) : k \in given }

(* The joined lists have no other fields.                                  *)
LEMMA GivenFlat ==
  ASSUME NEW so, SeqLen(so), NEW given, NEW n, NEW o, NEW sn, NEW x, NEW F,
         F = [ k \in DOMAIN so |->
                 IF k \in given THEN (IF x = n THEN ToNewMaster(so[k], n, sn)
                                      ELSE IF x = o THEN ToOldMaster(so[k], n) ELSE << >>)
                 ELSE << >> ]
  PROVE  FlattenSeq(F) \in Seq(GivenOps(so, given, n, x))
<1>1. PICK A : A = GivenOps(so, given, n, x)
  OBVIOUS
<1>2. ASSUME NEW k \in DOMAIN so PROVE F[k] \in Seq(A)
  <2>0. << >> \in Seq(A)
    OBVIOUS
  <2>1. CASE k \in given /\ x = n
    <3>1. PICK d, a : d = Del(so[k].tbid) /\ a = Add(so[k].tbid, n, so[k].chips)
      OBVIOUS
    <3>2. d \in A /\ a \in A
      BY <1>1, <2>1, <3>1 DEF GivenOps
    <3>3. << d >> \in Seq(A) /\ << a >> \in Seq(A)
      BY <3>2
    <3>4. F[k] = (IF Has(sn, so[k].tbid) THEN << d >> ELSE << >>) \o << a >>
      BY <2>1, <3>1 DEF ToNewMaster
    <3>5. PICK p : p = IF Has(sn, so[k].tbid) THEN << d >> ELSE << >>
      OBVIOUS
    <3>6. p \in Seq(A) /\ F[k] = p \o << a >>
      BY <2>0, <3>3, <3>4, <3>5
    <3>7. p \o << a >> \in Seq(A)
      BY <3>3, <3>6, ConcatProperties
    <3> QED BY <3>6, <3>7
  <2>2. CASE k \in given /\ x # n /\ x = o
    <3>1. PICK d, a : d = Del(so[k].tbid) /\ a = Add(so[k].tbid, n, 0)
      OBVIOUS
    <3>2. d \in A /\ a \in A
      BY <1>1, <2>2, <3>1 DEF GivenOps
    <3>3. F[k] = << d, a >>
      BY <2>2, <3>1 DEF ToOldMaster
    <3>4. << d, a >> \in Seq(A)
      BY <3>2
    <3> QED BY <3>3, <3>4
  <2>3. CASE ~(k \in given /\ x \in {n, o})
    <3>1. F[k] = << >>
      BY <2>3
    <3> QED BY <2>0, <3>1
  <2> QED BY <2>1, <2>2, <2>3
<1>3. F \in Seq(Seq(A))
  <2>1. DOMAIN so = 1 .. Len(so) /\ Len(so) \in Nat
    BY DEF SeqLen
  <2>2. F = [ k \in 1 .. Len(so) |-> F[k] ]
    BY <2>1
  <2>3. F \in [1 .. Len(so) -> Seq(A)]
    BY <1>2, <2>1, <2>2
  <2> QED BY <2>1, <2>3 DEF Seq
<1> QED BY <1>1, <1>3, FlatIn

(* The new master will have the chips the old one was seen with.           *)
LEMMA GivenHeld ==
  ASSUME IInv, IInv', spoilt = {}, spoilt' = {}, UNCHANGED atUser, NEW s, NEW ops, Save(s, ops),
         s.kind \notin {"put", "cost"}, NEW b \in Tbids, Exists(b)', NEW n \in Users,
         GetTeaBar(b)'.master = n, Exists(b) => GetTeaBar(b).master # n, NEW c,
         \A k \in DOMAIN ops[n] : ops[n][k].field = "add" /\ ops[n][k].tbid = b => ops[n][k].n = c
  PROVE  Held(b)' = c
<1>1. PICK v, t : v = End[n].wallet.briefs /\ t = End'[n].wallet.briefs
  OBVIOUS
<1>2. Due(n, b)' = "own"
  <2>1. Sound(b)'
    BY DEF IInv
  <2>2. On(n, b)'
    BY <2>1 DEF Sound
  <2> QED BY <2>2 DEF Due
<1>3. Due(n, b) # "own"
  BY DEF Due, On
<1>4. Shows(v, n, b, Due(n, b)) /\ GoodEnd(End[n], Tbids)
  BY <1>1, EndsAre DEF EndsRight
<1>5. Shows(t, n, b, "own")
  <2>1. EndsRight'
    BY EndsWill
  <2>2. Shows(t, n, b, Due(n, b)')
    BY <1>1, <2>1 DEF EndsRight
  <2> QED BY <1>2, <2>2
<1>6. Of(t, b) # {} /\ \A x \in Of(t, b) : x.master = n
  <2>1. Has(t, b)
    BY <1>5 DEF Shows
  <2> QED BY <1>5, <2>1 DEF Shows, Has, Of
<1>7. \A x \in Of(v, b) : x.master # n
  BY <1>3, <1>4 DEF Shows, Of
<1>8. \A x \in Of(t, b) : x.chips = c
  <2>1. CASE ops[n] = << >>
    <3>1. t = v
      BY <1>1, <2>1, EndSave
    <3> QED BY <1>6, <1>7, <3>1
  <2>2. CASE ops[n] # << >>
    <3>1. PICK m : m.kind = s.kind /\ m.ops = ops[n] /\ MessageOK(m, Tbids) /\ End'[n] = Took(End[n], m)
      BY <2>2, EndSave
    <3>2. PICK e : e = End[n]
      OBVIOUS
    <3>3. m.kind \notin {"put", "cost"} /\ GoodEnd(e, Tbids) /\ t = Took(e, m).wallet.briefs
      BY <1>1, <1>4, <3>1, <3>2
    <3>4. \A x \in Of(Took(e, m).wallet.briefs, b) :
            \/ x \in Of(e.wallet.briefs, b)
            \/ \E k \in DOMAIN m.ops : m.ops[k].field = "add" /\ x = Brought(m.ops[k])
      BY <3>1, <3>3, TookPlain
    <3>5. ASSUME NEW x \in Of(t, b) PROVE x.chips = c
      <4>1. x \notin Of(v, b) /\ x.tbid = b
        BY <1>6, <1>7, <3>5 DEF Of
      <4>2. PICK k \in DOMAIN m.ops : m.ops[k].field = "add" /\ x = Brought(m.ops[k])
        BY <1>1, <3>2, <3>3, <3>4, <3>5, <4>1
      <4>3. m.ops[k].tbid = b /\ x.chips = m.ops[k].n
        BY <4>1, <4>2 DEF Brought
      <4> QED BY <3>1, <4>2, <4>3
    <3> QED BY <3>5
  <2> QED BY <2>1, <2>2
<1>9. In(t, b) = c
  BY <1>6, <1>8, InAll
<1> QED BY <1>1, <1>9 DEF Held

(* The answer to a transfer.                                               *)
LEMMA TransferBooks ==
  ASSUME IInv, IInv', Books, spoilt = {}, spoilt' = {}, NEW i \in Slots, TransferGot(i)
  PROVE  Books'
<1>0. PICK o, n : o = asked[i].by /\ n = asked[i].who
  OBVIOUS
<1>1. PICK so, sn : so = asked[i].seen[o] /\ sn = asked[i].seen[n]
  OBVIOUS
<1>2. PICK given : given = { k \in DOMAIN so : so[k].master = o /\ Exists(so[k].tbid) }
  OBVIOUS
<1>3. PICK to : to = { so[k].tbid : k \in given }
  OBVIOUS
<1>4. PICK bar : bar = [ b \in to |-> NewMaster(b, n) ]
  OBVIOUS
<1>5. PICK F : F = [ x \in Users |-> [ k \in DOMAIN so |->
                 IF k \in given THEN (IF x = n THEN ToNewMaster(so[k], n, sn)
                                      ELSE IF x = o THEN ToOldMaster(so[k], n) ELSE << >>)
                 ELSE << >> ]]
  OBVIOUS
<1>6. PICK ops : ops = [ x \in Users |-> FlattenSeq(F[x]) ]
  OBVIOUS
<1>7. Turn(i, "transfer") /\ Rest /\ Saved(to, bar) /\ Save(asked[i], ops)
  <2>1. ops = [ x \in Users |-> FlattenSeq([ k \in DOMAIN so |->
                 IF k \in given THEN (IF x = n THEN ToNewMaster(so[k], n, sn)
                                      ELSE IF x = o THEN ToOldMaster(so[k], n) ELSE << >>)
                 ELSE << >> ]) ]
    BY <1>5, <1>6
  <2>2. Turn(i, "transfer") /\ Rest
    BY DEF TransferGot
  <2>3. Saved(to, bar)
    BY <1>0, <1>1, <1>2, <1>3, <1>4 DEF TransferGot, TransferSaved
  <2>4. Save(asked[i], ops)
    BY <1>0, <1>1, <1>2, <2>1 DEF TransferGot
  <2> QED BY <2>2, <2>3, <2>4
<1>8. /\ asked[i] # None /\ asked' = [asked EXCEPT ![i] = None] /\ UNCHANGED atUser
      /\ asked[i].kind = "transfer" /\ SlotOK(asked[i], Given) /\ Given \subseteq Tbids
      /\ \A b \in asked[i].tbids : Sound(b) /\ (Exists(b) => Relies(asked[i], b) /\ GetTeaBar(b) \in Bar)
  BY <1>7, Answered DEF Rest
<1>9. /\ o \in Users /\ n \in Users /\ o # n /\ asked[i].tbids \in SUBSET Tbids /\ asked[i] \in Asked
      /\ \A k \in DOMAIN so : so[k].tbid \in asked[i].tbids
  BY <1>0, <1>1, <1>8 DEF SlotOK, Asked
<1>10. SeqLen(so)
  BY <1>1, <1>9, Seen
<1>11. to \subseteq asked[i].tbids /\ \A b \in to : Exists(b) /\ \E k \in given : so[k].tbid = b
  BY <1>2, <1>3, <1>9
<1>12. ASSUME NEW b \in to PROVE bar[b] \in Bar /\ bar[b].master = n /\ GetTeaBar(b).master = o
  <2>1. GetTeaBar(b) \in Bar /\ Relies(asked[i], b)
    BY <1>8, <1>11
  <2>2. bar[b] \in Bar /\ bar[b].master = n
    BY <1>4, <1>9, <2>1, NewMasterBar
  <2>3. Shows(so, o, b, Due(o, b))
    BY <1>0, <1>1, <1>8, <2>1 DEF Relies
  <2>4. PICK k \in given : so[k].tbid = b
    BY <1>11
  <2>5. k \in DOMAIN so /\ so[k].master = o
    BY <1>2
  <2>6. GetTeaBar(b).master = o
    BY <2>3, <2>4, <2>5, ShowsDue
  <2> QED BY <2>2, <2>6
<1>13. ASSUME NEW k \in given PROVE so[k].chips = Held(so[k].tbid)
  <2>1. PICK b : b = so[k].tbid
    OBVIOUS
  <2>2. k \in DOMAIN so /\ so[k].master = o /\ Exists(b) /\ b \in asked[i].tbids
    BY <1>2, <1>9, <2>1
  <2>3. SeenRight(asked[i], b)
    BY <1>8, <2>2 DEF Books, AllSeen
  <2> QED BY <1>0, <1>1, <1>8, <2>1, <2>2, <2>3 DEF SeenRight
<1>14. ASSUME NEW x \in Users PROVE ops[x] \in Seq(GivenOps(so, given, n, x))
  <2>1. PICK f : f = F[x]
    OBVIOUS
  <2>2. f = [ j \in DOMAIN so |->
               IF j \in given THEN (IF x = n THEN ToNewMaster(so[j], n, sn)
                                    ELSE IF x = o THEN ToOldMaster(so[j], n) ELSE << >>)
               ELSE << >> ]
    BY <1>5, <2>1
  <2>3. FlattenSeq(f) \in Seq(GivenOps(so, given, n, x))
    BY <1>10, <2>2, GivenFlat, ZenonT(60)
  <2> QED BY <1>6, <2>1, <2>3
<1>15. ASSUME NEW x \in Users, NEW k \in DOMAIN ops[x]
       PROVE  \E l \in given : \/ ops[x][k] = Del(so[l].tbid)
                               \/ ops[x][k] = Add(so[l].tbid, n, IF x = n THEN so[l].chips ELSE 0)
  <2>1. PICK A : A = GivenOps(so, given, n, x)
    OBVIOUS
  <2>2. ops[x] \in Seq(A)
    BY <1>14, <2>1
  <2>3. ops[x][k] \in A
    <3>1. PICK q : q = ops[x]
      OBVIOUS
    <3>2. q \in Seq(A) /\ k \in DOMAIN q
      BY <2>2, <3>1
    <3>3. DOMAIN q = 1 .. Len(q)
      BY <3>2, LenProperties
    <3> QED BY <3>1, <3>2, <3>3
  <2> QED BY <2>1, <2>3 DEF GivenOps
<1>16. \A c \in Tbids : /\ GetTeaBar(c)' = IF c \in to THEN bar[c] ELSE GetTeaBar(c)
                        /\ Exists(c)' = Exists(c)
  <2>1. to \in SUBSET Tbids
    BY <1>9, <1>11
  <2>2. \A c \in Tbids : /\ GetTeaBar(c)' = IF c \in to THEN bar[c] ELSE GetTeaBar(c)
                         /\ Exists(c)' = IF c \in to THEN bar[c] # None ELSE Exists(c)
    BY <1>7, <2>1, SavedGet
  <2>3. \A c \in to : bar[c] # None
    BY <1>12, Numbers
  <2> QED BY <1>11, <2>2, <2>3
<1>17. ASSUME NEW c \in Tbids PROVE Held(c)' = Held(c)
  <2>1. CASE c \in to
    <3>1. Exists(c)' /\ GetTeaBar(c)'.master = n /\ GetTeaBar(c).master # n
      BY <1>9, <1>11, <1>12, <1>16, <2>1
    <3>2. ASSUME NEW k \in DOMAIN ops[n], ops[n][k].field = "add", ops[n][k].tbid = c PROVE ops[n][k].n = Held(c)
      <4>1. PICK l \in given : \/ ops[n][k] = Del(so[l].tbid)
                               \/ ops[n][k] = Add(so[l].tbid, n, so[l].chips)
        BY <1>9, <1>15, <3>2
      <4>2. ops[n][k] = Add(so[l].tbid, n, so[l].chips)
        BY <3>2, <4>1 DEF Del
      <4>3. so[l].tbid = c /\ ops[n][k].n = so[l].chips
        BY <3>2, <4>2 DEF Add
      <4> QED BY <1>13, <4>3
    <3>3. PICK h : h = Held(c)
      OBVIOUS
    <3>4. asked[i].kind \notin {"put", "cost"}
      BY <1>8
    <3>5. Held(c)' = h
      BY <1>7, <1>8, <1>9, <3>1, <3>2, <3>3, <3>4, GivenHeld
    <3> QED BY <3>3, <3>5
  <2>2. CASE c \notin to
    <3>1. Stays(c)
      BY <1>16, <2>2 DEF Stays
    <3>2. ASSUME Exists(c), NEW x, x = GetTeaBar(c).master PROVE \A k \in DOMAIN ops[x] : Aside(ops[x][k], c)
      <4>1. x \in Users
        BY <3>2, ThereIs DEF Bar, IInv, Shape
      <4>2. ASSUME NEW k \in DOMAIN ops[x] PROVE ops[x][k].tbid \in to
        <5>1. PICK l \in given : \/ ops[x][k] = Del(so[l].tbid)
                                 \/ ops[x][k] = Add(so[l].tbid, n, IF x = n THEN so[l].chips ELSE 0)
          BY <1>15, <4>1, <4>2
        <5> QED BY <1>3, <5>1 DEF Del, Add
      <4> QED BY <2>2, <4>2 DEF Aside
    <3> QED BY <1>7, <1>8, <3>1, <3>2, HeldStays
  <2> QED BY <2>1, <2>2
<1>18. ASSUME NEW x \in Users PROVE Purses'[x] = Purses[x]
  <2>1. ASSUME NEW k \in DOMAIN ops[x] PROVE ops[x][k].field # "purse"
    <3>1. PICK l \in given : \/ ops[x][k] = Del(so[l].tbid)
                             \/ ops[x][k] = Add(so[l].tbid, n, IF x = n THEN so[l].chips ELSE 0)
      BY <1>15, <2>1
    <3> QED BY <3>1 DEF Del, Add
  <2>2. asked[i].kind \notin {"put", "cost"}
    BY <1>8
  <2> QED BY <1>7, <1>8, <2>1, <2>2, PurseStays
<1>19. Balance'
  <2>1. spent' = spent
    BY <1>8 DEF atUser
  <2> QED BY <1>17, <1>18, <2>1, BalanceStays DEF Books
<1>20. AllSeen'
  <2>1. \A j \in Slots : asked'[j] = asked[j] \/ asked'[j] = None
    BY <1>8 DEF IInv, Shape, AskedOK
  <2>2. \A c \in Given : c \in Tbids
    BY <1>8
  <2> QED BY <1>16, <1>17, <2>1, <2>2, SeenKept DEF Books
<1>21. Named'
  <2>1. asked[i].tbids # {} \/ \A x \in Users : ops[x] = << >>
    <3>1. CASE given = {}
      <4>1. ASSUME NEW x \in Users PROVE ops[x] = << >>
        <5>1. DOMAIN ops[x] = {}
          BY <1>15, <3>1
        <5>2. PICK A : ops[x] \in Seq(A)
          BY <1>14, <4>1
        <5>3. DOMAIN ops[x] = 1 .. Len(ops[x]) /\ Len(ops[x]) \in Nat
          BY <5>2, LenProperties
        <5>4. Len(ops[x]) = 0
          <6>1. PICK len : len = Len(ops[x])
            OBVIOUS
          <6>2. len \in Nat /\ 1 .. len = {}
            BY <5>1, <5>3, <6>1
          <6>3. ~(1 <= len)
            <7>1. 1 <= len => 1 \in 1 .. len
              BY <6>2
            <7> QED BY <6>2, <7>1
          <6> QED BY <6>1, <6>2, <6>3
        <5> QED BY <5>2, <5>4, EmptySeq
      <4> QED BY <4>1
    <3>2. CASE given # {}
      <4>1. PICK k \in given : TRUE
        BY <3>2
      <4>2. so[k].tbid \in to
        BY <1>3
      <4>3. so[k].tbid \in asked[i].tbids
        BY <1>11, <4>2
      <4> QED BY <4>3
    <3> QED BY <3>1, <3>2
  <2> QED BY <1>7, <2>1, SaveNamed DEF Books
<1> QED BY <1>19, <1>20, <1>21 DEF Books

-----------------------------------------------------------------------------
(* The ledger is kept *)

(* At first everybody has what he starts with, and there is no bar.        *)
LEMMA InitBooks ==
  ASSUME Init, IInv
  PROVE  Books
<1>1. /\ cached = [ b \in Tbids |-> None ] /\ stored = [ b \in Tbids |-> None ]
      /\ chips = [ u \in Users |-> StartChips ]
      /\ asked = [ i \in Slots |-> None ] /\ updates = [ u \in Users |-> << >> ] /\ spent = 0
  BY DEF Init
<1>2. AllSeen /\ Named
  BY <1>1 DEF AllSeen, Named
<1>3. StartChips \in Int
  BY TeaBarAssumption
<1>4. ASSUME NEW u \in Users PROVE Purses[u] = StartChips
  <2>1. PICK v : v = Now(u)
    OBVIOUS
  <2>2. Final(v, << >>) = v
    BY FinalEmpty
  <2>3. End[u] = Now(u)
    BY <1>1, <2>1, <2>2 DEF End
  <2>4. End[u].wallet.chips = StartChips /\ End[u].spent = 0
    BY <1>1, <2>3 DEF Now
  <2>5. StartChips + 0 = StartChips
    BY <1>3
  <2> QED BY <2>4, <2>5 DEF Purses
<1>5. ASSUME NEW b \in Tbids PROVE Tills[b] = 0
  BY <1>1 DEF Tills, Held, Exists, GetTeaBar
<1>6. PICK p, t : p = Purses /\ t = Tills
  OBVIOUS
<1>7. Total(p, Users) = StartChips * Cardinality(Users)
  BY <1>3, <1>4, <1>6, SumConstant, Sums
<1>8. Total(t, Tbids) = 0
  <2>1. Total(t, Tbids) = 0 * Cardinality(Tbids)
    BY <1>5, <1>6, SumConstant, Sums
  <2>2. Cardinality(Tbids) \in Nat
    BY Sums, FS_CardinalityType
  <2> QED BY <2>1, <2>2
<1>9. StartChips * Cardinality(Users) \in Int
  BY <1>3, TeaBarAssumption, FS_CardinalityType
<1>10. PICK total : total = StartChips * Cardinality(Users)
  OBVIOUS
<1>11. 0 + total + 0 = total
  BY <1>9, <1>10
<1>12. Balance
  BY <1>1, <1>6, <1>7, <1>8, <1>10, <1>11, Sums DEF Balance
<1> QED BY <1>2, <1>12 DEF Books

(* Nothing happens and the books stay.                                     *)
LEMMA StutterBooks ==
  ASSUME IInv, Books, UNCHANGED vars
  PROVE  Books'
<1>1. /\ cached' = cached /\ stored' = stored /\ briefs' = briefs /\ chips' = chips
      /\ spent' = spent /\ asked' = asked /\ updates' = updates
  BY DEF vars, bars, atUser
<1>2. \A b \in Tbids : Stays(b)
  BY <1>1, StaysAlone
<1>3. \A u \in Users : End'[u] = End[u]
  BY <1>1, EndUntouched
<1>4. Named'
  BY <1>1 DEF Books, Named
<1> QED BY <1>1, <1>2, <1>3, <1>4, QuietTime

(* What was spoilt stays so.                                               *)
LEMMA SpoiltStays ==
  ASSUME IInv, Next
  PROVE  spoilt \subseteq spoilt'
<1>1. \A kind, by, who, tbids, n : Ask(kind, by, who, tbids, n) => spoilt \subseteq spoilt'
  BY DEF Ask
<1>2. \A bs, bar : Saved(bs, bar) => spoilt \subseteq spoilt'
  BY DEF Saved
<1>3. (NotSaved \/ NoWrite) => spoilt \subseteq spoilt'
  BY DEF NotSaved, NoWrite
<1>4. ASSUME NEW u \in Users, Requests(u) PROVE spoilt \subseteq spoilt'
  BY <1>1, <1>4, RequestAsks
<1>5. (\E u \in Users : UpdateAtUser(u)) \/ (\E b \in Tbids : Evict(b)) => spoilt \subseteq spoilt'
  BY DEF UpdateAtUser, Evict
<1>6. ASSUME NEW u \in Users, NEW b \in Tbids, DropDone(u, b) PROVE spoilt \subseteq spoilt'
  BY <1>6, <1>2, <1>3 DEF DropDone
<1>7. ASSUME NEW i \in Slots, CreateGot(i) \/ ApplyGot(i) PROVE spoilt \subseteq spoilt'
  BY <1>7, <1>2, <1>3 DEF CreateGot, ApplyGot
<1>8. ASSUME NEW i \in Slots, AgreeGot(i) PROVE spoilt \subseteq spoilt'
  <2>1. NotSaved \/ NoWrite \/ spoilt' = spoilt \/ spoilt' = spoilt \cup {Bar1(asked[i])}
    BY <1>8 DEF AgreeGot
  <2> QED BY <1>3, <2>1
<1>9. ASSUME NEW i \in Slots, DropGot(i) \/ PutGot(i) \/ CostGot(i) PROVE spoilt \subseteq spoilt'
  BY <1>9, <1>3 DEF DropGot, PutGot, CostGot
<1>10. ASSUME NEW i \in Slots, ListGot(i) \/ RemoveGot(i) PROVE spoilt \subseteq spoilt'
  BY <1>10, <1>2, <1>3 DEF ListGot, RemoveGot
<1>11. ASSUME NEW i \in Slots, FreeGot(i) \/ TransferGot(i) PROVE spoilt \subseteq spoilt'
  BY <1>11, <1>2, <1>3 DEF FreeGot, TransferGot, TransferSaved
<1>12. Restart \/ SessionTimeout => spoilt \subseteq spoilt'
  BY DEF Restart, SessionTimeout
<1> QED
  BY <1>4, <1>5, <1>6, <1>7, <1>8, <1>9, <1>10, <1>11, <1>12 DEF Next, Requests

(* Every step keeps the books while nothing is spoilt.                     *)
LEMMA NextBooks ==
  ASSUME IInv, IInv', Books, spoilt = {}, spoilt' = {}, Next
  PROVE  Books'
<1>1. ASSUME NEW u \in Users, Requests(u) PROVE Books'
  BY <1>1, RequestBooks
<1>2. ASSUME NEW u \in Users, UpdateAtUser(u) PROVE Books'
  BY <1>2, UpdateBooks
<1>3. ASSUME NEW u \in Users, NEW b \in Tbids, DropDone(u, b) PROVE Books'
  BY <1>3, DropDoneBooks
<1>4. ASSUME NEW i \in Slots,
             \/ CreateGot(i) \/ ApplyGot(i) \/ AgreeGot(i) \/ DropGot(i) \/ ListGot(i) \/ PutGot(i)
             \/ RemoveGot(i) \/ FreeGot(i) \/ TransferGot(i) \/ CostGot(i)
      PROVE  Books'
  BY <1>4, CreateBooks, ApplyBooks, AgreeBooks, DropBooks, ListBooks, PutBooks, RemoveBooks,
     FreeBooks, TransferBooks, CostBooks
<1>5. ASSUME NEW b \in Tbids, Evict(b) PROVE Books'
  BY <1>5, EvictBooks
<1> QED
  BY <1>1, <1>2, <1>3, <1>4, <1>5, RestartBooks, TimeoutBooks DEF Next, Requests

(* So the ledger is kept.                                                  *)
LEMMA LedgerStep ==
  ASSUME IInv, Ledger, [Next]_vars
  PROVE  IInv' /\ Ledger'
<1>1. CASE Next
  <2>1. IInv'
    BY <1>1, NextStep
  <2>2. ASSUME spoilt' = {} PROVE Books'
    <3>1. spoilt = {}
      BY <1>1, <2>2, SpoiltStays
    <3> QED BY <1>1, <2>1, <2>2, <3>1, NextBooks DEF Ledger
  <2> QED BY <2>1, <2>2 DEF Ledger
<1>2. CASE UNCHANGED vars
  <2>1. IInv'
    BY <1>2, StutterStep
  <2>2. ASSUME spoilt' = {} PROVE Books'
    <3>1. spoilt = {}
      BY <1>2, <2>2 DEF vars
    <3> QED BY <1>2, <3>1, StutterBooks DEF Ledger
  <2> QED BY <2>1, <2>2 DEF Ledger
<1> QED BY <1>1, <1>2

(* The chips of a list of briefs are the chips of its bars, when it has    *)
(* one brief of each at most.                                              *)
LEMMA BriefsTotal ==
  ASSUME NEW s \in Seq(Brief), \A b \in Tbids : Once(s, b)
  PROVE  /\ IsFiniteSet(DOMAIN s)
         /\ Total([ k \in DOMAIN s |-> s[k].chips ], DOMAIN s)
              = Total([ b \in Tbids |-> In(s, b) ], Tbids)
<1>1. Len(s) \in Nat /\ DOMAIN s = 1 .. Len(s) /\ \A k \in DOMAIN s : s[k] \in Brief
  BY LenProperties
<1>2. PICK D : D = DOMAIN s
  OBVIOUS
<1>3. IsFiniteSet(D) /\ IsFiniteSet(Tbids)
  BY <1>1, <1>2, FS_Interval, Sums
<1>4. \A k \in D : s[k].tbid \in Tbids /\ s[k].chips \in Int
  BY <1>1, <1>2 DEF Brief
<1>5. PICK F : F = [ k \in D |-> [ b \in Tbids |-> IF s[k].tbid = b THEN s[k].chips ELSE 0 ] ]
  OBVIOUS
<1>6. F \in [D -> [Tbids -> Int]]
  BY <1>4, <1>5
<1>7. PICK G, H : /\ G = [ k \in D |-> Total(F[k], Tbids) ]
                  /\ H = [ b \in Tbids |-> Total([ k \in D |-> F[k][b] ], D) ]
  OBVIOUS
<1>8. Total(G, D) = Total(H, Tbids)
  BY <1>3, <1>6, <1>7, SumSwap
<1>9. ASSUME NEW k \in D PROVE G[k] = s[k].chips
  <2>1. PICK f, b : f = F[k] /\ b = s[k].tbid
    OBVIOUS
  <2>2. b \in Tbids /\ f[b] = s[k].chips /\ f[b] \in Int /\ \A c \in Tbids \ {b} : f[c] = 0
    BY <1>4, <1>5, <2>1
  <2>3. Total(f, Tbids) = f[b]
    BY <1>3, <2>2, SumOne
  <2> QED BY <1>7, <2>1, <2>2, <2>3
<1>10. ASSUME NEW b \in Tbids PROVE H[b] = In(s, b)
  <2>1. PICK f : f = [ k \in D |-> F[k][b] ]
    OBVIOUS
  <2>2. \A k \in D : f[k] = IF s[k].tbid = b THEN s[k].chips ELSE 0
    BY <1>5, <2>1
  <2>3. Total(f, D) = In(s, b)
    <3>1. ASSUME NEW k \in D, s[k].tbid = b PROVE Total(f, D) = In(s, b)
      <4>1. f[k] = s[k].chips /\ f[k] \in Int
        BY <1>4, <2>2, <3>1
      <4>2. \A l \in D \ {k} : f[l] = 0
        BY <1>2, <2>2, <3>1 DEF Once
      <4>3. Total(f, D) = f[k]
        BY <1>3, <4>1, <4>2, SumOne
      <4>4. Once(s, b) /\ k \in DOMAIN s
        BY <1>2
      <4>5. In(s, b) = s[k].chips
        BY <3>1, <4>4, InOne
      <4> QED BY <4>1, <4>3, <4>5
    <3>2. ASSUME \A k \in D : s[k].tbid # b PROVE Total(f, D) = In(s, b)
      <4>1. \A k \in D : f[k] = 0
        BY <2>2, <3>2
      <4>2. Total(f, D) = 0 * Cardinality(D)
        BY <1>3, <4>1, SumConstant
      <4>3. Cardinality(D) \in Nat
        BY <1>3, FS_CardinalityType
      <4>4. Total(f, D) = 0
        BY <4>2, <4>3
      <4>5. Of(s, b) = {}
        BY <1>2, <3>2 DEF Of
      <4> QED BY <4>4, <4>5 DEF In
    <3> QED BY <3>1, <3>2
  <2> QED BY <1>7, <2>1, <2>3
<1>11. G = [ k \in D |-> s[k].chips ]
  BY <1>7, <1>9
<1>12. H = [ b \in Tbids |-> In(s, b) ]
  BY <1>7, <1>10
<1> QED BY <1>2, <1>3, <1>8, <1>11, <1>12

(* When nothing is under way, what users will have is what they have.      *)
LEMMA RestEnds ==
  ASSUME IInv, Named, \A b \in Tbids : AtRest(b), NEW u \in Users
  PROVE  /\ End[u].wallet.briefs = briefs[u]
         /\ End[u].wallet.chips = chips[u] /\ End[u].spent = 0
<1>1. SeqLen(updates[u]) /\ updates[u] \in Seq(Update) /\ UpdatesOK
  BY QueueLen DEF IInv, Shape
<1>2. ASSUME NEW k \in DOMAIN updates[u] PROVE FALSE
  <2>1. PICK b : b \in updates[u][k].tbids
    BY DEF Named
  <2>2. b \in Tbids
    BY <1>1, <2>1, ShapeBars DEF UpdatesOK, MessageOK
  <2>3. << updates[u][k].kind, b >> \in Working /\ << updates[u][k].kind, b >>[2] = b
    BY <2>1, WorkingMessage
  <2> QED BY <2>2, <2>3 DEF AtRest
<1>3. updates[u] = << >>
  <2>1. PICK q : q = updates[u]
    OBVIOUS
  <2>2. q \in Seq(Update) /\ Len(q) \in Nat /\ DOMAIN q = 1 .. Len(q) /\ DOMAIN q = {}
    BY <1>1, <1>2, <2>1 DEF SeqLen
  <2>3. Len(q) = 0
    BY <2>2
  <2> QED BY <2>1, <2>2, <2>3, EmptySeq
<1>4. PICK v : v = Now(u)
  OBVIOUS
<1>5. Final(v, << >>) = v
  BY FinalEmpty
<1>6. End[u] = Now(u)
  BY <1>3, <1>4, <1>5 DEF End
<1> QED BY <1>6 DEF Now

(* Then the briefs hold what the bars do.                                  *)
LEMMA RestTotal ==
  ASSUME IInv, Named, spoilt = {}, \A b \in Tbids : AtRest(b)
  PROVE  Total([ u \in Users |-> Total([ b \in Tbids |-> In(briefs[u], b) ], Tbids) ], Users)
           = Total(Tills, Tbids)
<1>1. EndsRight /\ Shape
  BY EndsAre DEF IInv
<1>2. \A u \in Users : End[u].wallet.briefs = briefs[u]
  BY RestEnds
<1>3. ASSUME NEW u \in Users, NEW b \in Tbids
      PROVE  In(briefs[u], b) \in Int /\ Shows(briefs[u], u, b, Due(u, b))
  <2>1. GoodEnd(End[u], Tbids) /\ Shows(End[u].wallet.briefs, u, b, Due(u, b))
    BY <1>1 DEF EndsRight
  <2>2. In(End[u].wallet.briefs, b) \in Int
    BY <2>1, InInt
  <2> QED BY <1>2, <2>1, <2>2
<1>4. PICK F : F = [ u \in Users |-> [ b \in Tbids |-> In(briefs[u], b) ] ]
  OBVIOUS
<1>5. F \in [Users -> [Tbids -> Int]]
  BY <1>3, <1>4
<1>6. PICK G, H : /\ G = [ u \in Users |-> Total(F[u], Tbids) ]
                  /\ H = [ b \in Tbids |-> Total([ u \in Users |-> F[u][b] ], Users) ]
  OBVIOUS
<1>7. Total(G, Users) = Total(H, Tbids)
  BY <1>5, <1>6, SumSwap, Sums
<1>8. G = [ u \in Users |-> Total([ b \in Tbids |-> In(briefs[u], b) ], Tbids) ]
  BY <1>4, <1>6
<1>9. ASSUME NEW b \in Tbids PROVE H[b] = Held(b)
  <2>1. PICK f : f = [ u \in Users |-> F[u][b] ]
    OBVIOUS
  <2>2. \A u \in Users : f[u] = In(briefs[u], b) /\ f[u] \in Int
    BY <1>3, <1>4, <2>1
  <2>3. ASSUME NEW u \in Users, ~Exists(b) \/ GetTeaBar(b).master # u PROVE f[u] = 0
    <3>1. Due(u, b) # "own"
      BY <2>3 DEF Due, On
    <3>2. PICK x : x = Due(u, b)
      OBVIOUS
    <3>3. Shows(briefs[u], u, b, x) /\ x # "own"
      BY <1>3, <3>1, <3>2
    <3>4. In(briefs[u], b) = 0
      BY <3>3, InNone
    <3> QED BY <2>2, <3>4
  <2>4. CASE Exists(b)
    <3>1. PICK m : m = GetTeaBar(b).master
      OBVIOUS
    <3>2. m \in Users
      BY <1>1, <2>4, <3>1, ThereIs DEF Shape, Bar
    <3>3. \A u \in Users \ {m} : f[u] = 0
      BY <2>3, <3>1
    <3>4. Total(f, Users) = f[m]
      BY <2>2, <3>2, <3>3, SumOne, Sums
    <3>5. Held(b) = In(briefs[m], b)
      BY <1>2, <2>4, <3>1, <3>2 DEF Held
    <3> QED BY <1>6, <2>1, <2>2, <3>2, <3>4, <3>5
  <2>5. CASE ~Exists(b)
    <3>1. \A u \in Users : f[u] = 0
      BY <2>3, <2>5
    <3>2. Total(f, Users) = 0 * Cardinality(Users)
      BY <3>1, SumConstant, Sums
    <3>3. Cardinality(Users) \in Nat
      BY Sums, FS_CardinalityType
    <3>4. Total(f, Users) = 0
      BY <3>2, <3>3
    <3> QED BY <1>6, <2>1, <2>5, <3>4 DEF Held
  <2> QED BY <2>4, <2>5
<1>10. H = Tills
  BY <1>6, <1>9 DEF Tills
<1> QED BY <1>7, <1>8, <1>10

(* While nothing was spoilt, what was put into bars, taken out, given away *)
(* or freed with a bar is with a user or a bar, or was spent, once nothing *)
(* is under way: the ledger of what users will have adds up at any moment. *)
THEOREM Conservation == Spec => []ChipsConserved
<1>1. Init => IInv /\ Ledger
  <2> SUFFICES ASSUME Init PROVE IInv /\ Ledger
    OBVIOUS
  <2>1. IInv
    BY InitIInv
  <2> QED BY <2>1, InitBooks DEF Ledger
<1>2. IInv /\ Ledger => ChipsConserved
  <2> SUFFICES ASSUME IInv, Ledger, spoilt = {}, \A b \in Tbids : AtRest(b)
               PROVE  spent + SumFunction([ u \in Users |-> Worth(u) ])
                        = StartChips * Cardinality(Users)
    BY DEF ChipsConserved
  <2>1. Balance /\ Named
    BY DEF Ledger, Books
  <2>2. PICK w, p, h : /\ w = [ u \in Users |-> Worth(u) ] /\ p = Purses
                       /\ h = [ u \in Users |-> Total([ b \in Tbids |-> In(briefs[u], b) ], Tbids) ]
    OBVIOUS
  <2>3. ASSUME NEW u \in Users PROVE p[u] \in Int /\ h[u] \in Int /\ w[u] = p[u] + h[u]
    <3>1. PICK s : s = briefs[u]
      OBVIOUS
    <3>2. s \in Seq(Brief) /\ chips[u] \in Int
      BY <3>1 DEF IInv, Shape, UserOK
    <3>3. End[u].wallet.briefs = s /\ End[u].wallet.chips = chips[u] /\ End[u].spent = 0
      BY <2>1, <3>1, RestEnds
    <3>4. \A b \in Tbids : Once(s, b) /\ In(s, b) \in Int
      <4> SUFFICES ASSUME NEW b \in Tbids PROVE Once(s, b) /\ In(s, b) \in Int
        OBVIOUS
      <4>1. GoodEnd(End[u], Tbids) /\ Shows(End[u].wallet.briefs, u, b, Due(u, b))
        BY EndsAre DEF EndsRight
      <4>2. In(End[u].wallet.briefs, b) \in Int
        BY <4>1, InInt
      <4> QED BY <3>3, <4>1, <4>2 DEF Shows
    <3>5. PICK g, e : g = [ b \in Tbids |-> In(s, b) ] /\ e = [ k \in DOMAIN s |-> s[k].chips ]
      OBVIOUS
    <3>6. Total(e, DOMAIN s) = Total(g, Tbids)
      BY <3>2, <3>4, <3>5, BriefsTotal
    <3>7. Total(g, Tbids) \in Int
      BY <3>4, <3>5, SumInt, Sums
    <3>8. DOMAIN e = DOMAIN s
      BY <3>5
    <3>9. SumFunction(e) = Total(e, DOMAIN s)
      BY <3>8 DEF SumFunction, Total
    <3>10. w[u] = chips[u] + SumFunction(e)
      BY <2>2, <3>1, <3>5 DEF Worth
    <3>11. p[u] = chips[u]
      BY <2>2, <3>2, <3>3 DEF Purses
    <3>12. h[u] = Total(g, Tbids)
      BY <2>2, <3>1, <3>5
    <3> QED BY <3>2, <3>6, <3>7, <3>9, <3>10, <3>11, <3>12
  <2>4. Total(w, Users) = Total(p, Users) + Total(h, Users)
    BY <2>3, SumPlus, Sums
  <2>5. Total(h, Users) = Total(Tills, Tbids)
    BY <2>1, <2>2, RestTotal
  <2>6. SumFunction(w) = Total(w, Users)
    <3>1. DOMAIN w = Users
      BY <2>2
    <3> QED BY <3>1 DEF SumFunction, Total
  <2>7. Total(p, Users) \in Int /\ Total(h, Users) \in Int /\ spent \in Int
    BY <2>3, SumInt, Sums DEF IInv, Shape, UserOK
  <2>8. spent + Total(p, Users) + Total(h, Users) = StartChips * Cardinality(Users)
    BY <2>1, <2>2, <2>5, Sums DEF Balance
  <2>9. spent + SumFunction(w) = StartChips * Cardinality(Users)
    <3>1. PICK a, c, t : a = Total(p, Users) /\ c = Total(h, Users) /\ t = StartChips * Cardinality(Users)
      OBVIOUS
    <3>2. spent + (a + c) = t
      BY <2>7, <2>8, <3>1
    <3> QED BY <2>4, <2>6, <3>1, <3>2
  <2> QED BY <2>2, <2>9
<1>3. IInv /\ Ledger /\ [Next]_vars => (IInv /\ Ledger)'
  BY LedgerStep
<1> QED
  BY <1>1, <1>2, <1>3, PTL DEF Spec
=============================================================================
