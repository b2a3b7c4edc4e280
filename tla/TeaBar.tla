------------------------------- MODULE TeaBar -------------------------------
(***************************************************************************)
(* Tea bars (clubs): TeaBarManager and the handlers of the teabar server.  *)
(* Who belongs to a bar is kept twice: as `users` of the bar, in the       *)
(* memory of the teabar server and in its Redis, and as a brief of the bar *)
(* with each user, in the user server.  The chips of a bar are in the      *)
(* brief of its master.  No request locks a bar or a user: a handler reads *)
(* briefs, comes back, and sends what it made of them.                     *)
(*                                                                         *)
(* The teabar server reaches the user server over one route, so a read     *)
(* waits for the updates of the same user before it.  Tables, records,     *)
(* pay types and descriptions of bars are left out.                        *)
(***************************************************************************)
EXTENDS Integers, FiniteSets, SequencesExt

CONSTANTS
  Users,
  MaxTbid,      \* bound: bars created in one behaviour
  MaxUserBars,  \* MAX_USER_TEA_BAR_MUM
  MaxUsers,     \* MAX_TEA_BAR_USER_NUM
  MaxApply,     \* MAX_TEA_BAR_APPLY_USER_NUM
  StartChips,   \* chips of each user at first
  Concurrent,   \* bound: requests whose read is on its way
  MaxRequests,  \* bound: requests in one behaviour
  MaxFaults,    \* bound: timeouts, restarts, failed writes to Redis
  None          \* no user, no bar, no session

Tbids == 1 .. MaxTbid
Slots == 1 .. Concurrent

(* PBTeaBarData: how often a user is in users, and who applied.            *)
Bar   == [ master : Users, users : [Users -> Nat], applied : SUBSET Users ]

ASSUME TeaBarAssumption ==
  /\ MaxTbid \in Nat /\ Concurrent \in Nat /\ StartChips \in Nat
  /\ MaxUserBars \in Nat /\ MaxUsers \in Nat /\ MaxApply \in Nat
  /\ MaxRequests \in Nat /\ MaxFaults \in Nat
  /\ IsFiniteSet(Users) /\ None \notin Users \cup Tbids /\ None \notin Bar

(* TeaBarBriefData.                                                        *)
Brief == [ tbid : Tbids, master : Users, chips : Nat ]
(* A field of an update: a brief added or deleted, chips of a bar, chips   *)
(* of the user.                                                            *)
Op    == [ field : {"add", "del", "bar", "purse"}, tbid : Tbids \cup {None},
           master : Users \cup {None}, n : Int ]

Kinds  == {"create", "apply", "agree", "refuse", "drop", "list", "put", "remove",
           "free", "transfer", "cost"}
(* A session that waits for what it reads: `by` asks, the bars tbids and   *)
(* the user `who` are what it is about, seen is what comes back.           *)
Asked  == [ kind : Kinds, by : Users, who : Users, tbids : SUBSET Tbids,
            n : {-1, 0, 1}, seen : [Users -> Seq(Brief)], purse : Nat ]
Update == [ kind : Kinds, tbids : SUBSET Tbids, live : BOOLEAN, ops : Seq(Op) ]

VARIABLES
  max_tbid,     \* _max_tbid
  cached,       \* _tea_bar_map
  stored,       \* Redis of the teabar server
  briefs, chips,\* user server: brief_data and chips of a user
  asked,        \* sessions with what they read
  updates,      \* for each user, the updates on their way
  drops,        \* drop sessions whose update was done
  spent,        \* chips the room was granted for tables
  requests, faults, \* how many there were
  spoilt        \* history: bars about which two requests overlapped that may
                \* spoil each other, or to which a fault happened

bars   == << max_tbid, cached, stored >>
atUser == << briefs, chips, spent >>
vars   == << bars, atUser, asked, updates, drops, requests, faults, spoilt >>

TypeOK ==
  /\ max_tbid \in 0 .. MaxTbid
  /\ cached \in [Tbids -> Bar \cup {None}] /\ stored \in [Tbids -> Bar \cup {None}]
  /\ \A b \in Tbids : b > max_tbid => cached[b] = None /\ stored[b] = None
  /\ briefs \in [Users -> Seq(Brief)] /\ chips \in [Users -> Nat]
  /\ asked \in [Slots -> Asked \cup {None}]
  /\ updates \in [Users -> Seq(Update)]
  /\ drops \subseteq Users \X Tbids
  /\ spent \in Nat /\ requests \in 0 .. MaxRequests /\ faults \in 0 .. MaxFaults
  /\ spoilt \subseteq Tbids

Init ==
  /\ max_tbid = 0
  /\ cached = [ b \in Tbids |-> None ] /\ stored = [ b \in Tbids |-> None ]
  /\ briefs = [ u \in Users |-> << >> ] /\ chips = [ u \in Users |-> StartChips ]
  /\ asked = [ i \in Slots |-> None ] /\ updates = [ u \in Users |-> << >> ]
  /\ drops = {} /\ spent = 0 /\ requests = 0 /\ faults = 0 /\ spoilt = {}

-----------------------------------------------------------------------------
(* TeaBarManager *)

(* GetTeaBar.  A bar that is only in Redis is loaded; a read of Redis is   *)
(* assumed to succeed.                                                     *)
GetTeaBar(b) == IF cached[b] # None THEN cached[b] ELSE stored[b]
Exists(b)    == GetTeaBar(b) # None
Member(u, b) == GetTeaBar(b).users[u] > 0
UsersSize(b) == LET users == GetTeaBar(b).users IN FoldSet(LAMBDA u, n : n + users[u], 0, Users)

(* AddUser does not look whether the user is there; DeleteUser takes the   *)
(* first entry.                                                            *)
AddUser(bar, u)    == [bar EXCEPT !.users[u] = @ + 1]
DeleteUser(bar, u) == [bar EXCEPT !.users[u] = IF @ = 0 THEN 0 ELSE @ - 1]

(* The bars bs are changed in memory and saved; Redis may fail.            *)
Saved(bs, bar) ==
  /\ cached' = [ b \in Tbids |-> IF b \in bs THEN bar[b] ELSE cached[b] ]
  /\ \E lost \in SUBSET bs :
       /\ faults' = faults + Cardinality(lost) /\ faults' <= MaxFaults
       /\ stored' = [ b \in Tbids |-> IF b \in bs \ lost THEN bar[b] ELSE stored[b] ]
       /\ spoilt' = spoilt \cup lost
NotSaved == UNCHANGED << stored, faults, spoilt >>
NoWrite  == UNCHANGED << cached, stored, faults, spoilt >>
Only(b, bar) == [ x \in {b} |-> bar ]

-----------------------------------------------------------------------------
(* Sessions *)

Has(s, b)   == \E i \in DOMAIN s : s[i].tbid = b
At(s, b)    == SelectInSeq(s, LAMBDA x : x.tbid = b)
TbidsOf(s)  == { s[i].tbid : i \in DOMAIN s }

(* Requests in work, and the bars they are about.                          *)
Working ==
  (UNION { {asked[i].kind} \X asked[i].tbids : i \in { j \in Slots : asked[j] # None } })
  \cup (UNION { UNION { {updates[u][k].kind} \X updates[u][k].tbids : k \in DOMAIN updates[u] }
                : u \in Users })
  \cup ({"drop"} \X { d[2] : d \in drops })

(* Requests about the same bar that may spoil each other.                  *)
Conflicts ==
  { {"list", "drop"}, {"list", "remove"}, {"agree", "remove"}, {"drop"}, {"drop", "remove"},
    {"transfer"}, {"transfer", "agree"}, {"transfer", "drop"}, {"transfer", "remove"},
    {"put", "free"}, {"put", "transfer"}, {"cost", "free"}, {"cost", "transfer"} }

(* A request is checked and its users are read, behind their updates.      *)
Ask(kind, by, who, tbids, n) ==
  /\ requests < MaxRequests /\ requests' = requests + 1
  /\ updates[by] = << >> /\ updates[who] = << >>
  /\ spoilt' = spoilt \cup
       { b \in tbids : \E w \in Working : w[2] = b /\ {kind, w[1]} \in Conflicts }
  /\ \E i \in Slots :
       /\ asked[i] = None /\ \A j \in Slots : j < i => asked[j] # None
       /\ asked' = [asked EXCEPT ![i] =
            [ kind |-> kind, by |-> by, who |-> who, tbids |-> tbids, n |-> n,
              seen |-> [ u \in Users |-> IF u \in {by, who} THEN briefs[u] ELSE << >> ],
              purse |-> IF kind = "put" THEN chips[by] ELSE 0 ]]
  /\ UNCHANGED << bars, atUser, updates, drops, faults >>

Turn(i, kind) == asked[i] # None /\ asked[i].kind = kind /\ asked' = [asked EXCEPT ![i] = None]
Bar1(s)       == CHOOSE b \in s.tbids : TRUE

Add(b, master, n) == [ field |-> "add", tbid |-> b, master |-> master, n |-> n ]
Del(b)            == [ field |-> "del", tbid |-> b, master |-> None, n |-> 0 ]
BarChips(b, n)    == [ field |-> "bar", tbid |-> b, master |-> None, n |-> n ]
Purse(n)          == [ field |-> "purse", tbid |-> None, master |-> None, n |-> n ]

(* EN_Handler_Save: one message to each user with something to do.         *)
Save(s, ops) ==
  updates' = [ u \in Users |->
    IF ops[u] = << >> THEN updates[u]
    ELSE Append(updates[u],
                [ kind |-> s.kind, tbids |-> s.tbids, live |-> TRUE, ops |-> ops[u] ]) ]
For(u, ops) == [ x \in Users |-> IF x = u THEN ops ELSE << >> ]

Rest == UNCHANGED << max_tbid, atUser, drops, requests >>

-----------------------------------------------------------------------------
(* What becomes of a session that got what it read.  An update that fails  *)
(* a check of its handler ends the session without a change.               *)

RequestCreate(u) == max_tbid < MaxTbid /\ Ask("create", u, u, {}, 0)

(* When Redis fails the new bar stays in memory, its creator in it.  The   *)
(* number is written to Redis too (SetMaxTbid), and nobody looks whether   *)
(* that succeeds: a number given twice, after a restart that follows, is   *)
(* not modelled.                                                           *)
CreateGot(i) ==
  LET s == asked[i]  u == s.by  b == max_tbid + 1
      bar == [ master |-> u, users |-> [ x \in Users |-> IF x = u THEN 1 ELSE 0 ], applied |-> {} ]
  IN
  /\ Turn(i, "create")
  /\ UNCHANGED << atUser, drops, requests >>
  /\ IF Len(s.seen[u]) >= MaxUserBars \/ b > MaxTbid
     THEN UNCHANGED << max_tbid, updates >> /\ NoWrite
     ELSE /\ max_tbid' = b
          /\ Saved({b}, Only(b, bar))
          /\ IF stored'[b] = None THEN UNCHANGED updates
             ELSE Save([s EXCEPT !.tbids = {b}], For(u, << Add(b, u, 0) >>))

RequestApply(u, b) == Exists(b) /\ Ask("apply", u, u, {b}, 0)

(* An application is kept in memory only.                                  *)
ApplyGot(i) ==
  LET s == asked[i]  u == s.by  b == Bar1(s)  bar == GetTeaBar(b) IN
  /\ Turn(i, "apply") /\ Rest /\ UNCHANGED updates
  /\ IF /\ Len(s.seen[u]) < MaxUserBars
        /\ Exists(b) /\ UsersSize(b) < MaxUsers /\ Cardinality(bar.applied) < MaxApply
        /\ u \notin bar.applied /\ ~Member(u, b)
     THEN cached' = [cached EXCEPT ![b] = [bar EXCEPT !.applied = @ \cup {u}]] /\ NotSaved
     ELSE NoWrite

RequestAgree(m, u, b, yes) ==
  /\ Exists(b) /\ GetTeaBar(b).master = m
  /\ UsersSize(b) < MaxUsers /\ u \in GetTeaBar(b).applied
  /\ Ask(IF yes THEN "agree" ELSE "refuse", m, u, {b}, 0)

(* AddUser saves the bar before the application is deleted, and that is    *)
(* not saved; when Redis fails the user is in the bar all the same, and no *)
(* brief is added.                                                         *)
M_AgreeGot(i) ==
  LET s == asked[i]  u == s.who  b == Bar1(s)  bar == GetTeaBar(b)
      answered == [cached EXCEPT ![b] = [bar EXCEPT !.applied = @ \ {u}]]
  IN
  /\ Turn(i, "agree") \/ Turn(i, "refuse")
  /\ Rest
  /\ IF Exists(b) /\ ~Has(s.seen[u], b) /\ s.kind = "agree"
     THEN /\ Saved({b}, Only(b, AddUser(answered[b], u)))
          /\ Save(s, For(u, << Add(b, bar.master, 0) >>))
     ELSE UNCHANGED updates /\ NoWrite
AgreeGot(i) ==
  LET s == asked[i]  u == s.who  b == Bar1(s)  bar == GetTeaBar(b)
      answered == [cached EXCEPT ![b] = [bar EXCEPT !.applied = @ \ {u}]]
      tooMany  == Len(s.seen[u]) >= MaxUserBars
      full     == UsersSize(b) >= MaxUsers
  IN
  /\ Turn(i, "agree") \/ Turn(i, "refuse")
  /\ Rest
  /\ IF ~(Exists(b) /\ u \in bar.applied) THEN UNCHANGED updates /\ NoWrite
     ELSE IF tooMany \/ s.kind = "refuse" \/ (~full /\ Has(s.seen[u], b))
     THEN cached' = answered /\ NotSaved /\ UNCHANGED updates
     ELSE IF full THEN UNCHANGED updates /\ NoWrite
     ELSE \/ /\ cached' = [answered EXCEPT ![b] = AddUser(@, u)]
             /\ stored' = [stored EXCEPT ![b] = AddUser(bar, u)]
             /\ Save(s, For(u, << Add(b, bar.master, 0) >>))
             /\ UNCHANGED << faults, spoilt >>
          \/ /\ faults < MaxFaults /\ faults' = faults + 1 /\ spoilt' = spoilt \cup {b}
             /\ cached' = [cached EXCEPT ![b] = AddUser(bar, u)]
             /\ UNCHANGED << stored, updates >>

RequestDrop(u, b) == Has(briefs[u], b) /\ Ask("drop", u, u, {b}, 0)

(* A user at a table of the bar is refused.                                *)
DropGot(i) ==
  LET s == asked[i]  u == s.by  b == Bar1(s) IN
  /\ Turn(i, "drop") /\ Rest /\ NoWrite
  /\ \/ UNCHANGED updates
     \/ /\ Has(s.seen[u], b) /\ Exists(b) /\ GetTeaBar(b).master # u
        /\ Save(s, For(u, << Del(b) >>))

(* CRequestApplyDropTeaBar::ProcessUpdateSucc: the bar follows when the    *)
(* brief is gone.                                                          *)
DropDone(u, b) ==
  /\ << u, b >> \in drops /\ drops' = drops \ {<< u, b >>}
  /\ IF Exists(b) /\ Member(u, b) THEN Saved({b}, Only(b, DeleteUser(GetTeaBar(b), u)))
     ELSE NoWrite
  /\ UNCHANGED << max_tbid, atUser, asked, updates, requests >>

RequestList(u) == briefs[u] # << >> /\ Ask("list", u, u, TbidsOf(briefs[u]), 0)

(* CRequestTeaBarList puts a user into the bars he has a brief of.         *)
ListGot(i) ==
  LET s == asked[i]  u == s.by
      missing == { b \in s.tbids : Exists(b) /\ ~Member(u, b) }
  IN
  /\ Turn(i, "list") /\ Rest /\ UNCHANGED updates
  /\ Saved(missing, [ b \in missing |-> AddUser(GetTeaBar(b), u) ])

RequestPut(m, b, n) == Exists(b) /\ GetTeaBar(b).master = m /\ Ask("put", m, m, {b}, n)

PutGot(i) ==
  LET s == asked[i]  u == s.by  b == Bar1(s) IN
  /\ Turn(i, "put") /\ Rest /\ NoWrite
  /\ IF /\ Has(s.seen[u], b)
        /\ IF s.n > 0 THEN s.purse >= s.n ELSE s.seen[u][At(s.seen[u], b)].chips + s.n >= 0
     THEN Save(s, For(u, << BarChips(b, s.n), Purse(-s.n) >>))
     ELSE UNCHANGED updates

RequestRemove(m, u, b) ==
  Exists(b) /\ GetTeaBar(b).master = m /\ u # m /\ Ask("remove", m, u, {b}, 0)

RemoveGot(i) ==
  LET s == asked[i]  u == s.who  b == Bar1(s) IN
  /\ Turn(i, "remove") /\ Rest
  /\ IF ~Exists(b) THEN UNCHANGED updates /\ NoWrite
     ELSE /\ IF Member(u, b) THEN Saved({b}, Only(b, DeleteUser(GetTeaBar(b), u))) ELSE NoWrite
          /\ Save(s, For(u, IF Has(s.seen[u], b) THEN << Del(b) >> ELSE << >>))

RequestFree(u, b) == Has(briefs[u], b) /\ Ask("free", u, u, {b}, 0)

(* The master gets the chips he was seen with, everybody in users loses    *)
(* his brief, and the bar is deleted whatever Redis says.                  *)
FreeGot(i) ==
  LET s == asked[i]  u == s.by  b == Bar1(s)
      brief == s.seen[u][At(s.seen[u], b)]
  IN
  /\ Turn(i, "free") /\ Rest
  /\ IF Has(s.seen[u], b) /\ brief.master = u /\ Exists(b) /\ GetTeaBar(b).master = u
     THEN /\ Saved({b}, Only(b, None))
          /\ Save(s, [ x \in Users |->
               (IF x = u /\ brief.chips > 0 THEN << Purse(brief.chips) >> ELSE << >>)
               \o [ k \in 1 .. GetTeaBar(b).users[x] |-> Del(b) ] ])
     ELSE UNCHANGED updates /\ NoWrite

RequestTransfer(o, n) ==
  briefs[o] # << >> /\ o # n /\ Ask("transfer", o, n, TbidsOf(briefs[o]), 0)

(* Every bar of the old master goes to the new one, chips and all; the old *)
(* master stays a member.                                                  *)
NewMaster(b, n) ==
  LET bar == [GetTeaBar(b) EXCEPT !.master = n] IN IF Member(n, b) THEN bar ELSE AddUser(bar, n)

M_TransferSaved(to, n) ==
  /\ cached' = [ b \in Tbids |-> IF b \in to THEN NewMaster(b, n) ELSE cached[b] ]
  /\ stored' = [ b \in Tbids |-> IF b \in to /\ ~Member(n, b) THEN NewMaster(b, n) ELSE stored[b] ]
  /\ UNCHANGED << faults, spoilt >>
TransferSaved(to, n) == Saved(to, [ b \in to |-> NewMaster(b, n) ])

M_ToOldMaster(brief, n) == << Del(brief.tbid), Add(brief.tbid, n, brief.chips) >>
ToOldMaster(brief, n)   == << Del(brief.tbid), Add(brief.tbid, n, 0) >>
ToNewMaster(brief, n, seen) ==
  (IF Has(seen, brief.tbid) THEN << Del(brief.tbid) >> ELSE << >>)
  \o << Add(brief.tbid, n, brief.chips) >>

TransferGot(i) ==
  LET s == asked[i]  o == s.by  n == s.who
      given == { k \in DOMAIN s.seen[o] : s.seen[o][k].master = o /\ Exists(s.seen[o][k].tbid) }
      each(brief, x) == IF x = n THEN ToNewMaster(brief, n, s.seen[n])
                        ELSE IF x = o THEN ToOldMaster(brief, n) ELSE << >>
  IN
  /\ Turn(i, "transfer") /\ Rest
  /\ TransferSaved({ s.seen[o][k].tbid : k \in given }, n)
  /\ Save(s, [ x \in Users |-> FlattenSeq([ k \in DOMAIN s.seen[o] |->
       IF k \in given THEN each(s.seen[o][k], x) ELSE << >> ]) ])

(* The room takes chips of a bar for a table: it reads the brief of the    *)
(* master the client names.                                                *)
RequestCost(m, b) == Has(briefs[m], b) /\ Ask("cost", m, m, {b}, 0)

CostGot(i) ==
  LET s == asked[i]  m == s.by  b == Bar1(s) IN
  /\ Turn(i, "cost") /\ Rest /\ NoWrite
  /\ IF Has(s.seen[m], b) /\ s.seen[m][At(s.seen[m], b)].chips >= 1
     THEN Save(s, For(m, << BarChips(b, -1) >>)) ELSE UNCHANGED updates

-----------------------------------------------------------------------------
(* The user server *)

(* A field is done, or fails.  Chips for a bar without a brief are thrown  *)
(* away.                                                                   *)
Done(w, op) ==
  LET k == At(w.briefs, op.tbid) IN
  CASE op.field = "add" ->
         [w EXCEPT !.briefs = Append(@, [ tbid |-> op.tbid, master |-> op.master, chips |-> op.n ])]
    [] op.field = "del" /\ Has(w.briefs, op.tbid) -> [w EXCEPT !.briefs = RemoveAt(@, k)]
    [] op.field = "bar" /\ Has(w.briefs, op.tbid) -> [w EXCEPT !.briefs[k].chips = @ + op.n]
    [] op.field = "purse" -> [w EXCEPT !.chips = @ + op.n]
    [] OTHER -> w

M_Fits(w) == w.chips >= 0
Fits(w) == w.chips >= 0 /\ \A k \in DOMAIN w.briefs : w.briefs[k].chips >= 0

(* CReuqestUpdateUserData::OnUpdateData: all fields of a message, or none. *)
M_AllDone(w, ops) ==
  LET after[k \in 0 .. Len(ops)] ==
        IF k = 0 THEN w
        ELSE IF Fits(Done(after[k - 1], ops[k])) THEN Done(after[k - 1], ops[k])
        ELSE after[k - 1]
  IN after[Len(ops)]
AllDone(w, ops) ==
  LET after[k \in 0 .. Len(ops)] ==
        IF k = 0 THEN w
        ELSE IF Fits(after[k - 1]) THEN Done(after[k - 1], ops[k]) ELSE after[k - 1]
  IN after[Len(ops)]

UpdateAtUser(u) ==
  /\ updates[u] # << >>
  /\ LET m == Head(updates[u])
         new == AllDone([ briefs |-> briefs[u], chips |-> chips[u] ], m.ops)
     IN /\ updates' = [updates EXCEPT ![u] = Tail(@)]
        /\ IF Fits(new)
           THEN /\ briefs' = [briefs EXCEPT ![u] = new.briefs]
                /\ chips' = [chips EXCEPT ![u] = new.chips]
                /\ spent' = IF m.kind = "cost" THEN spent + 1 ELSE spent
                /\ drops' = IF m.kind = "drop" /\ m.live THEN drops \cup {u} \X m.tbids ELSE drops
           ELSE UNCHANGED << briefs, chips, spent, drops >>
  /\ UNCHANGED << bars, asked, requests, faults, spoilt >>

-----------------------------------------------------------------------------
(* Time and faults *)

(* A day without a request about the bar, or a new bar: CreateTeaBar does  *)
(* not stamp it, so the next timer evicts it unless a request did, even    *)
(* while the creator's brief is on its way.                                *)
Evict(b) ==
  /\ cached[b] # None
  /\ \A i \in Slots : asked[i] # None => b \notin asked[i].tbids
  /\ \A w \in Working : w[2] = b => w[1] = "create"
  /\ cached' = [cached EXCEPT ![b] = None]
  /\ UNCHANGED << max_tbid, stored, atUser, asked, updates, drops, requests, faults, spoilt >>

Dropping == { w[2] : w \in { x \in Working : x[1] = "drop" } }

(* The teabar server stops and starts; updates it asked for are done.      *)
Restart ==
  /\ faults < MaxFaults /\ faults' = faults + 1
  /\ cached' = [ b \in Tbids |-> None ]
  /\ asked' = [ i \in Slots |-> IF asked[i] # None /\ asked[i].kind = "cost" THEN asked[i] ELSE None ]
  /\ updates' = [ u \in Users |->
       [ k \in DOMAIN updates[u] |-> [updates[u][k] EXCEPT !.live = FALSE] ]]
  /\ drops' = {} /\ spoilt' = spoilt \cup Dropping
  /\ UNCHANGED << max_tbid, stored, atUser, requests >>

(* A session times out, while it reads or while it saves.                  *)
SessionTimeout ==
  /\ faults < MaxFaults /\ faults' = faults + 1
  /\ \/ /\ \E i \in Slots : asked[i] # None /\ asked' = [asked EXCEPT ![i] = None]
        /\ UNCHANGED << updates, spoilt >>
     \/ /\ \E u \in Users : \E k \in DOMAIN updates[u] :
             /\ updates[u][k].live /\ updates' = [updates EXCEPT ![u][k].live = FALSE]
             /\ spoilt' = spoilt \cup IF updates[u][k].kind = "drop" THEN updates[u][k].tbids ELSE {}
        /\ UNCHANGED asked
  /\ UNCHANGED << bars, atUser, drops, requests >>

Next ==
  \/ \E u \in Users :
       \/ RequestCreate(u) \/ RequestList(u) \/ UpdateAtUser(u)
       \/ \E v \in Users : RequestTransfer(u, v)
       \/ \E b \in Tbids :
            \/ RequestApply(u, b) \/ RequestDrop(u, b) \/ DropDone(u, b) \/ RequestFree(u, b)
            \/ RequestCost(u, b) \/ \E n \in {-1, 1} : RequestPut(u, b, n)
            \/ \E v \in Users : \/ RequestRemove(u, v, b)
                                \/ \E yes \in BOOLEAN : RequestAgree(u, v, b, yes)
  \/ \E i \in Slots :
       \/ CreateGot(i) \/ ApplyGot(i) \/ AgreeGot(i) \/ DropGot(i) \/ ListGot(i) \/ PutGot(i)
       \/ RemoveGot(i) \/ FreeGot(i) \/ TransferGot(i) \/ CostGot(i)
  \/ \E b \in Tbids : Evict(b)
  \/ Restart \/ SessionTimeout

Spec == Init /\ [][Next]_vars

-----------------------------------------------------------------------------
(* Properties *)

AtRest(b) == \A w \in Working : w[2] # b

(* Who is in a bar has one brief of it, and who has a brief is in the bar, *)
(* once: nobody is in twice by two answers to his application, and nobody  *)
(* is left with the brief of a bar that was freed.                         *)
MembersAgree ==
  \A b \in Tbids \ spoilt : AtRest(b) =>
    \A u \in Users :
      LET n == Cardinality({ k \in DOMAIN briefs[u] : briefs[u][k].tbid = b }) IN
      /\ n <= 1
      /\ n = IF Exists(b) THEN GetTeaBar(b).users[u] ELSE 0

(* Chips of a bar are with its master, who is in it.                       *)
MasterHoldsTheChips ==
  \A b \in Tbids \ spoilt : AtRest(b) /\ Exists(b) =>
    \A u \in Users : \A k \in DOMAIN briefs[u] :
      briefs[u][k].tbid = b =>
        IF u = GetTeaBar(b).master THEN briefs[u][k].master = u ELSE briefs[u][k].chips = 0

(* A user's chips, in his purse and in the briefs he has.                  *)
Worth(u) == chips[u] + SumFunction([ k \in DOMAIN briefs[u] |-> briefs[u][k].chips ])
(* What is taken from a purse is in a bar or was spent on tables: no chip  *)
(* is lost or made by putting, taking, transferring and freeing.           *)
ChipsConserved ==
  spoilt = {} /\ (\A b \in Tbids : AtRest(b)) =>
    spent + SumFunction([ u \in Users |-> Worth(u) ]) = StartChips * Cardinality(Users)

(* A bar that leaves memory comes back from Redis as it was, except that   *)
(* applications are kept in memory only.                                   *)
SurvivesRestart ==
  \A b \in Tbids \ spoilt : cached[b] # None =>
    /\ stored[b] # None
    /\ stored[b].master = cached[b].master /\ stored[b].users = cached[b].users
=============================================================================
