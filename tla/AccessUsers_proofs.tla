------------------------- MODULE AccessUsers_proofs -------------------------
(***************************************************************************)
(* Proofs about AccessUsers: what the maps of a connect server hold is     *)
(* alive and bound to the key it is found under, for any servers,          *)
(* connections, accounts and user ids, any number of logins and requests,  *)
(* and messages in any order; the one way out is named, a second user id   *)
(* for a connection that has one.  Two facts carry it: an entry is of a connection of its   *)
(* own server, so that the erase at a close finds it, and a connection     *)
(* that is bound to a user id has the account of that user.  With them it  *)
(* is also found, as long as no login of its account fails.                *)
(***************************************************************************)
EXTENDS AccessUsers, TLAPS

(* An entry is of a connection of this server.                             *)
AtHome ==
  \A s \in Servers :
    /\ \A a \in Accounts : accountmap[s][a] # None => ServerOf[accountmap[s][a]] = s
    /\ \A u \in Users : tokenmap[s][u] # None => ServerOf[tokenmap[s][u]] = s

(* A connection that is bound to an account has one, and one that may play *)
(* has a user id.                                                          *)
Named == \A t \in Tokens : /\ token[t].bind_account => token[t].account \in Accounts
                           /\ token[t].authorized => token[t].uid \in Users

IInv == TypeOK /\ NothingDangles /\ AtHome /\ Named /\ NobodyIsCutOff

-----------------------------------------------------------------------------
(* Erasing keys leaves the other entries of the server, and all of the     *)
(* other servers, as they are.                                             *)
LEMMA AccountsWithout ==
  ASSUME NEW map \in [Servers -> [Accounts -> Tokens \cup {None}]], NEW s \in Servers, NEW keys
  PROVE  /\ Without(map, s, keys) \in [Servers -> [Accounts -> Tokens \cup {None}]]
         /\ \A r \in Servers, k \in Accounts :
              Without(map, s, keys)[r][k] = IF r = s /\ k \in keys THEN None ELSE map[r][k]
BY DEF Without

(* The same of _tokenmap.                                                  *)
LEMMA UsersWithout ==
  ASSUME NEW map \in [Servers -> [Users -> Tokens \cup {None}]], NEW s \in Servers, NEW keys
  PROVE  /\ Without(map, s, keys) \in [Servers -> [Users -> Tokens \cup {None}]]
         /\ \A r \in Servers, k \in Users :
              Without(map, s, keys)[r][k] = IF r = s /\ k \in keys THEN None ELSE map[r][k]
BY DEF Without

(* Erasing accounts and then binding one.                                  *)
LEMMA BindFacts ==
  ASSUME NEW map \in [Servers -> [Accounts -> Tokens \cup {None}]], NEW s \in Servers, NEW keys,
         NEW a \in Accounts, NEW t \in Tokens
  PROVE  /\ [Without(map, s, keys) EXCEPT ![s][a] = t]
              \in [Servers -> [Accounts -> Tokens \cup {None}]]
         /\ \A r \in Servers, k \in Accounts :
              [Without(map, s, keys) EXCEPT ![s][a] = t][r][k] =
                IF r = s THEN IF k = a THEN t ELSE IF k \in keys THEN None ELSE map[r][k]
                ELSE map[r][k]
BY DEF Without

(* Account and Uid are an account and its user id, and a close goes        *)
(* through a server.                                                       *)
LEMMA Owners ==
  ASSUME TypeOK, Named, NEW t \in Tokens
  PROVE  /\ Account(t) \subseteq Accounts /\ Uid(t) \subseteq Users
         /\ \A users \in SUBSET Users : GoneFrom(t, users) \subseteq Through
<1>1. Account(t) \subseteq Accounts /\ Uid(t) \subseteq Users
  <2>1. token[t].bind_account => token[t].account \in Accounts
    BY DEF Named
  <2>2. token[t].bind_uid => token[t].uid \in Users
    BY DEF TypeOK
  <2> QED BY <2>1, <2>2 DEF Account, Uid
<1>2. ServerOf[t] \in Servers
  BY AccessAssumption
<1> QED BY <1>1, <1>2 DEF GoneFrom, Through

(* Two connections of a server with an account that no failed login        *)
(* disowned are one.                                                       *)
LEMMA OnlyOne ==
  ASSUME NobodyIsCutOff, NEW t \in Tokens, NEW r \in Tokens, NEW a,
         ServerOf[t] = ServerOf[r], token[t].bind_account, token[t].account = a,
         token[r].bind_account, token[r].account = a, a \notin disowned
  PROVE  t = r
BY DEF NobodyIsCutOff

(* An account stays disowned while a connection has it.                    *)
LEMMA StillDisowned ==
  ASSUME StillHad(disowned), NEW r \in Tokens, NEW u,
         token'[r].bind_account, token'[r].account = u, u \notin disowned'
  PROVE  u \notin disowned
BY DEF StillHad

-----------------------------------------------------------------------------

(* Before the first connection nothing is bound.                           *)
LEMMA AccessInit == Init => IInv
<1> SUFFICES ASSUME Init PROVE IInv
  OBVIOUS
<1>1. Released \in Token /\ ~Released.bind_uid
  BY DEF Released, Fresh, Token
<1>2. TypeOK
  BY <1>1, AccessAssumption DEF Init, TypeOK, Through
<1>3. NothingDangles /\ AtHome /\ Named /\ NobodyIsCutOff
  BY DEF Init, NothingDangles, AtHome, Named, NobodyIsCutOff, Released, Fresh
<1> QED BY <1>2, <1>3 DEF IInv

(* A closed connection has no entry, so opening it disturbs none.          *)
LEMMA ConnectKeeps == ASSUME IInv, NEW t \in Tokens, Connect(t) PROVE IInv'
<1>1. /\ token' = [token EXCEPT ![t] = Fresh] /\ ~token[t].open
      /\ accountmap' = accountmap /\ tokenmap' = tokenmap
  BY DEF Connect, index
<1>2. Fresh \in Token /\ ~Fresh.bind_uid
  BY DEF Fresh, Token
<1>3. TypeOK'
  <2>1. token' \in [Tokens -> Token]
    BY <1>1, <1>2 DEF IInv, TypeOK
  <2>2. requests' \in 0 .. MaxRequests
    BY AccessAssumption DEF Connect, Request, IInv, TypeOK
  <2> QED BY <1>1, <1>2, <2>1, <2>2 DEF Connect, index, game, net, IInv, TypeOK
<1>4. NothingDangles'
  <2>1. overbound' = overbound /\ token \in [Tokens -> Token]
    BY DEF Connect, IInv, TypeOK
  <2> QED BY <1>1, <2>1 DEF IInv, NothingDangles, TypeOK
<1>5. AtHome'
  BY <1>1 DEF IInv, AtHome
<1>6. Named'
  BY <1>1 DEF IInv, Named, Fresh, TypeOK
<1>7. NobodyIsCutOff'
  <2>1. disowned' = disowned /\ token \in [Tokens -> Token]
    BY DEF Connect, IInv, TypeOK
  <2>2. ~Fresh.bind_account /\ ~Fresh.bind_uid
    BY DEF Fresh
  <2> QED BY <1>1, <2>1, <2>2 DEF IInv, NobodyIsCutOff
<1> QED BY <1>3, <1>4, <1>5, <1>6, <1>7 DEF IInv

(* What is of a connection goes with it: its entries are at its server     *)
(* under just the keys that are erased.                                    *)
LEMMA CloseKeeps == ASSUME IInv, NEW t \in Tokens, Close(t) PROVE IInv'
<1> USE DEF IInv
<1>1. /\ token' = [token EXCEPT ![t] = Released]
      /\ accountmap' = Without(accountmap, ServerOf[t], Account(t))
      /\ tokenmap' = Without(tokenmap, ServerOf[t], Uid(t))
      /\ ServerOf[t] \in Servers
  BY AccessAssumption DEF Close
<1>2. Released \in Token /\ ~Released.bind_uid
  BY DEF Released, Fresh, Token
<1>3. /\ accountmap' \in [Servers -> [Accounts -> Tokens \cup {None}]]
      /\ \A r \in Servers, u \in Accounts :
           accountmap'[r][u] = IF r = ServerOf[t] /\ u \in Account(t) THEN None ELSE accountmap[r][u]
      /\ tokenmap' \in [Servers -> [Users -> Tokens \cup {None}]]
      /\ \A r \in Servers, u \in Users :
           tokenmap'[r][u] = IF r = ServerOf[t] /\ u \in Uid(t) THEN None ELSE tokenmap[r][u]
  <2>1. /\ accountmap \in [Servers -> [Accounts -> Tokens \cup {None}]]
        /\ tokenmap \in [Servers -> [Users -> Tokens \cup {None}]]
    BY DEF TypeOK
  <2>2. /\ accountmap' \in [Servers -> [Accounts -> Tokens \cup {None}]]
        /\ \A r \in Servers, u \in Accounts :
             accountmap'[r][u] = IF r = ServerOf[t] /\ u \in Account(t) THEN None ELSE accountmap[r][u]
    BY <1>1, <2>1, AccountsWithout, SMTT(30)
  <2>3. /\ tokenmap' \in [Servers -> [Users -> Tokens \cup {None}]]
        /\ \A r \in Servers, u \in Users :
             tokenmap'[r][u] = IF r = ServerOf[t] /\ u \in Uid(t) THEN None ELSE tokenmap[r][u]
    BY <1>1, <2>1, UsersWithout, SMTT(30)
  <2> QED BY <2>2, <2>3
<1>4. TypeOK'
  <2>1. token' \in [Tokens -> Token]
    BY <1>1, <1>2 DEF TypeOK
  <2>2. \A r \in Tokens : token'[r].bind_uid =>
           /\ token'[r].authorized /\ token'[r].bind_account /\ token'[r].uid \in Users
           /\ token'[r].account = AccountOf[token'[r].uid]
    BY <1>1, <1>2 DEF TypeOK
  <2>3. requests' \in 0 .. MaxRequests
    BY AccessAssumption DEF Close, Request, TypeOK
  <2>4. closes' \subseteq Through
    BY Owners DEF Close, TypeOK
  <2>5. disowned' \subseteq Accounts /\ overbound' = overbound
    BY DEF Close, StillHad, TypeOK
  <2> QED BY <1>3, <2>1, <2>2, <2>3, <2>4, <2>5 DEF Close, game, TypeOK
<1>5. NothingDangles' /\ AtHome'
  <2>1. ASSUME NEW s \in Servers, NEW a \in Accounts, accountmap'[s][a] # None
        PROVE  accountmap'[s][a] = accountmap[s][a] /\ accountmap[s][a] # t
    <3>1. accountmap[s][a] # None /\ accountmap'[s][a] = accountmap[s][a]
      BY <1>3, <2>1
    <3>2. accountmap[s][a] = t => s = ServerOf[t] /\ a \in Account(t)
      BY <3>1 DEF NothingDangles, AtHome, Account
    <3> QED BY <1>3, <2>1, <3>1, <3>2
  <2>2. ASSUME NEW s \in Servers, NEW u \in Users, tokenmap'[s][u] # None
        PROVE  tokenmap'[s][u] = tokenmap[s][u] /\ (<< u, s >> \notin overbound => tokenmap[s][u] # t)
    <3>1. tokenmap[s][u] # None /\ tokenmap'[s][u] = tokenmap[s][u]
      BY <1>3, <2>2
    <3>2. tokenmap[s][u] = t /\ << u, s >> \notin overbound => s = ServerOf[t] /\ u \in Uid(t)
      BY <3>1 DEF NothingDangles, AtHome, Uid
    <3> QED BY <1>3, <2>2, <3>1, <3>2
  <2>3. overbound' = overbound /\ \A r \in Tokens \ {t} : token'[r] = token[r]
    <3>1. overbound' = overbound
      BY DEF Close
    <3>2. \A r \in Tokens \ {t} : token'[r] = token[r]
      BY <1>1 DEF TypeOK
    <3> QED BY <3>1, <3>2
  <2>4. AtHome'
    <3>1. \A s \in Servers, a \in Accounts : accountmap'[s][a] # None => ServerOf[accountmap'[s][a]] = s
      BY <2>1 DEF AtHome
    <3>2. \A s \in Servers, u \in Users : tokenmap'[s][u] # None => ServerOf[tokenmap'[s][u]] = s
      BY <2>2 DEF AtHome
    <3> QED BY <3>1, <3>2 DEF AtHome
  <2>5. ASSUME NEW s \in Servers, NEW a \in Accounts, accountmap'[s][a] # None
        PROVE  /\ token'[accountmap'[s][a]].open /\ token'[accountmap'[s][a]].bind_account
               /\ token'[accountmap'[s][a]].account = a
    <3>1. /\ accountmap'[s][a] = accountmap[s][a] /\ accountmap[s][a] # t
          /\ accountmap[s][a] # None /\ accountmap[s][a] \in Tokens
      BY <2>1, <2>5 DEF TypeOK
    <3>2. LET k == token[accountmap[s][a]] IN k.open /\ k.bind_account /\ k.account = a
      BY <3>1 DEF NothingDangles
    <3> QED BY <2>3, <3>1, <3>2
  <2>6. ASSUME NEW s \in Servers, NEW u \in Users, tokenmap'[s][u] # None, << u, s >> \notin overbound'
        PROVE  /\ token'[tokenmap'[s][u]].open /\ token'[tokenmap'[s][u]].bind_uid
               /\ token'[tokenmap'[s][u]].uid = u
    <3>1. /\ tokenmap'[s][u] = tokenmap[s][u] /\ tokenmap[s][u] # t
          /\ tokenmap[s][u] # None /\ tokenmap[s][u] \in Tokens
      BY <2>2, <2>3, <2>6 DEF TypeOK
    <3>2. LET k == token[tokenmap[s][u]] IN k.open /\ k.bind_uid /\ k.uid = u
      BY <2>3, <2>6, <3>1 DEF NothingDangles
    <3> QED BY <2>3, <3>1, <3>2
  <2> QED BY <2>4, <2>5, <2>6 DEF NothingDangles
<1>6. Named'
  BY <1>1 DEF Named, Released, Fresh, TypeOK
<1>7. ASSUME NEW r \in Tokens, token'[r].bind_account, token'[r].account \notin disowned'
      PROVE  /\ accountmap'[ServerOf[r]][token'[r].account] = r
             /\ token'[r].bind_uid => tokenmap'[ServerOf[r]][token'[r].uid] = r
  <2> DEFINE a == token'[r].account
             u == token'[r].uid
  <2>1. ~Released.bind_account /\ token'[t] = Released
    BY <1>1 DEF Released, Fresh, TypeOK
  <2>2. r # t /\ token'[r] = token[r] /\ ServerOf[r] \in Servers
    BY <1>1, <1>7, <2>1, AccessAssumption DEF TypeOK
  <2>3. a \notin disowned
    BY <1>7, StillDisowned DEF Close
  <2>4. /\ accountmap[ServerOf[r]][a] = r /\ a \in Accounts
        /\ token[r].bind_uid => tokenmap[ServerOf[r]][u] = r /\ u \in Users /\ a = AccountOf[u]
    BY <1>7, <2>2, <2>3 DEF NobodyIsCutOff, TypeOK, Named
  <2>5. ServerOf[r] = ServerOf[t] => ~(token[t].bind_account /\ token[t].account = a)
    BY <1>7, <2>2, <2>3, OnlyOne
  <2>6. ServerOf[r] = ServerOf[t] => a \notin Account(t)
    BY <2>5 DEF Account
  <2>7. ServerOf[r] = ServerOf[t] /\ token[r].bind_uid => u \notin Uid(t)
    BY <2>4, <2>5 DEF Uid, TypeOK
  <2> QED BY <1>3, <2>2, <2>4, <2>6, <2>7
<1>8. NobodyIsCutOff'
  BY <1>7 DEF NobodyIsCutOff
<1> QED BY <1>4, <1>5, <1>6, <1>8

(* A login takes the account from the connection that had it, and what was *)
(* of another account or user from its own; every entry it leaves is of a  *)
(* connection it does not release, except those it has just made.          *)
LEMMA RequestLoginKeeps ==
  ASSUME IInv, NEW t \in Tokens, NEW v \in Users, NEW named \in BOOLEAN,
         RequestLogin(t, v, named)
  PROVE  IInv'
<1> USE DEF IInv
<1> DEFINE s    == ServerOf[t]
           a    == AccountOf[v]
           old  == Replaced(t, a)
           gone == (UNION { Account(r) : r \in old }) \cup
                   (IF token[t].account # a THEN Account(t) ELSE {})
           lost == Unbound(t, a, named)
           uids == lost \cup UNION { Uid(r) : r \in old }
<1>0. s \in Servers /\ a \in Accounts
  BY AccessAssumption
<1>1. /\ accountmap' = [Without(accountmap, s, gone) EXCEPT ![s][a] = t]
      /\ tokenmap' = Without(tokenmap, s, uids)
  BY DEF RequestLogin
<1>2. /\ Released \in Token /\ ~Released.bind_uid /\ ~Released.bind_account
      /\ ~Released.authorized
      /\ token[t] \in Token /\ token[t].open
  BY DEF Released, Fresh, Token, RequestLogin, TypeOK
<1>3. /\ accountmap' \in [Servers -> [Accounts -> Tokens \cup {None}]]
      /\ \A r \in Servers, u \in Accounts :
           accountmap'[r][u] = IF r = s THEN IF u = a THEN t
                                             ELSE IF u \in gone THEN None ELSE accountmap[r][u]
                               ELSE accountmap[r][u]
      /\ tokenmap' \in [Servers -> [Users -> Tokens \cup {None}]]
      /\ \A r \in Servers, u \in Users :
           tokenmap'[r][u] = IF r = s /\ u \in uids THEN None ELSE tokenmap[r][u]
  <2>1. /\ accountmap \in [Servers -> [Accounts -> Tokens \cup {None}]]
        /\ tokenmap \in [Servers -> [Users -> Tokens \cup {None}]]
    BY DEF TypeOK
  <2> HIDE DEF gone, uids, a, s
  <2>2. /\ accountmap' \in [Servers -> [Accounts -> Tokens \cup {None}]]
        /\ \A r \in Servers, u \in Accounts :
             accountmap'[r][u] = IF r = s THEN IF u = a THEN t
                                               ELSE IF u \in gone THEN None ELSE accountmap[r][u]
                                 ELSE accountmap[r][u]
    BY <1>0, <1>1, <2>1, BindFacts
  <2>3. /\ tokenmap' \in [Servers -> [Users -> Tokens \cup {None}]]
        /\ \A r \in Servers, u \in Users :
             tokenmap'[r][u] = IF r = s /\ u \in uids THEN None ELSE tokenmap[r][u]
    BY <1>0, <1>1, <2>1, UsersWithout
  <2> QED BY <2>2, <2>3
<1>4. old \subseteq Tokens \ {t}
      /\ \A r \in old : r = accountmap[s][a] /\ Account(r) = {a}
  <2> DEFINE before == accountmap[s][a]
  <2>1. before \in Tokens \cup {None}
    BY <1>0 DEF TypeOK
  <2>2. before # None => Account(before) = {a}
    BY <1>0 DEF NothingDangles, Account
  <2>3. old = IF before \in {None, t} THEN {} ELSE {before}
    BY DEF Replaced
  <2> HIDE DEF before, old
  <2> QED BY <2>1, <2>2, <2>3 DEF before
<1>5. token[t].bind_uid /\ lost = {} => token[t].account = a
  BY DEF Unbound, Uid, TypeOK
<1> DEFINE mine == [token[t] EXCEPT !.bind_account = TRUE, !.account = a,
                                    !.bind_uid = @ /\ lost = {}]
<1>6. token' = [ r \in Tokens |-> IF r = t THEN mine ELSE IF r \in old THEN Released ELSE token[r] ]
  BY DEF RequestLogin
<1>7. /\ mine \in Token
      /\ mine.open /\ mine.bind_account /\ mine.account = a
      /\ mine.uid = token[t].uid /\ mine.authorized = token[t].authorized
      /\ mine.bind_uid <=> token[t].bind_uid /\ lost = {}
  <2> HIDE DEF lost, a
  <2> QED BY <1>0, <1>2 DEF Token
<1>8. /\ token' \in [Tokens -> Token]
      /\ token'[t] = mine
      /\ \A r \in Tokens \ {t} : token'[r] = IF r \in old THEN Released ELSE token[r]
  <2> HIDE DEF mine, old
  <2> QED BY <1>2, <1>6, <1>7 DEF TypeOK
<1>9. closes' = closes \cup UNION { GoneFrom(r, {token[r].uid} \ {None}) : r \in old }
  BY DEF RequestLogin
<1>10. PICK i \in Slots :
         logins' = [logins EXCEPT ![i] = [ at |-> s, user |-> v, stage |-> "asked" ]]
  BY DEF RequestLogin
<1>18. overbound' = overbound
  BY DEF RequestLogin
<1> HIDE DEF mine, old, lost, gone, uids, s, a
<1>11. Named'
  <2> SUFFICES ASSUME NEW r \in Tokens
      PROVE  /\ token'[r].bind_account => token'[r].account \in Accounts
             /\ token'[r].authorized => token'[r].uid \in Users
    BY DEF Named
  <2>1. /\ token[r].bind_account => token[r].account \in Accounts
        /\ token[r].authorized => token[r].uid \in Users
    BY DEF Named
  <2> QED BY <1>0, <1>2, <1>7, <1>8, <2>1
<1>12. TypeOK'
  <2>1. ASSUME NEW r \in Tokens, token'[r].bind_uid
        PROVE  /\ token'[r].authorized /\ token'[r].bind_account /\ token'[r].uid \in Users
               /\ token'[r].account = AccountOf[token'[r].uid]
    <3>1. CASE r = t
      BY <1>5, <1>7, <1>8, <2>1, <3>1 DEF TypeOK
    <3>2. CASE r # t
      BY <1>2, <1>8, <2>1, <3>2 DEF TypeOK
    <3> QED BY <3>1, <3>2
  <2>2. requests' \in 0 .. MaxRequests
    <3>1. Request /\ requests \in 0 .. MaxRequests
      BY DEF RequestLogin, TypeOK
    <3> QED BY <3>1, AccessAssumption DEF Request
  <2>3. closes' \subseteq Through
    <3>1. ASSUME NEW r \in old PROVE GoneFrom(r, {token[r].uid} \ {None}) \subseteq Through
      <4>1. token[r] \in Token
        BY <1>4 DEF TypeOK
      <4>2. {token[r].uid} \ {None} \in SUBSET Users
        BY <4>1 DEF Token
      <4> QED BY <1>4, <4>2, Owners
    <3>2. closes \subseteq Through
      BY DEF TypeOK
    <3> QED BY <1>9, <3>1, <3>2
  <2>4. logins' \in [Slots -> Login \cup {None}]
    BY <1>0, <1>10 DEF TypeOK, Login
  <2>5. disowned' \subseteq Accounts
    BY DEF RequestLogin, StillHad, TypeOK
  <2>6. UNCHANGED << game, posChanges, tells >>
    BY DEF RequestLogin
  <2> QED BY <1>3, <1>8, <1>18, <2>1, <2>2, <2>3, <2>4, <2>5, <2>6 DEF game, TypeOK
<1>13. ASSUME NEW r \in Servers, NEW u \in Accounts, accountmap'[r][u] # None
       PROVE  /\ token'[accountmap'[r][u]].open
              /\ token'[accountmap'[r][u]].bind_account
              /\ token'[accountmap'[r][u]].account = u
              /\ ServerOf[accountmap'[r][u]] = r
  <2>1. CASE r = s /\ u = a
    <3>1. accountmap'[r][u] = t
      BY <1>3, <2>1
    <3> QED BY <1>7, <1>8, <2>1, <3>1 DEF s
  <2>2. CASE ~(r = s /\ u = a)
    <3> DEFINE k == accountmap[r][u]
    <3>1. accountmap'[r][u] = k /\ k # None /\ k \in Tokens /\ (r = s => u \notin gone)
      BY <1>3, <1>13, <2>2 DEF TypeOK
    <3>2. token[k].open /\ token[k].bind_account /\ token[k].account = u /\ ServerOf[k] = r
      BY <3>1 DEF NothingDangles, AtHome
    <3>3. k # t
      <4> SUFFICES ASSUME k = t PROVE FALSE
        OBVIOUS
      <4>1. r = s /\ u # a
        BY <2>2, <3>2 DEF s
      <4>2. token[t].account # a /\ Account(t) = {u}
        BY <3>2, <4>1 DEF Account
      <4>3. u \in gone
        <5>1. Account(t) \subseteq gone
          BY <4>2 DEF gone
        <5> QED BY <4>2, <5>1
      <4> QED BY <3>1, <4>1, <4>3
    <3>4. k \notin old
      <4> SUFFICES ASSUME k \in old PROVE FALSE
        OBVIOUS
      <4>1. k = accountmap[s][a] /\ Account(k) = {a}
        BY <1>4
      <4>2. ServerOf[k] = s
        BY <1>0, <3>1, <4>1 DEF AtHome
      <4>3. u = a
        BY <3>2, <4>1 DEF Account
      <4> QED BY <2>2, <3>2, <4>2, <4>3
    <3>5. token'[k] = token[k]
      BY <1>8, <3>1, <3>3, <3>4
    <3> QED BY <3>1, <3>2, <3>5
  <2> QED BY <2>1, <2>2
<1>14. ASSUME NEW r \in Servers, NEW u \in Users, tokenmap'[r][u] # None, << u, r >> \notin overbound'
       PROVE  /\ token'[tokenmap'[r][u]].open
              /\ token'[tokenmap'[r][u]].bind_uid
              /\ token'[tokenmap'[r][u]].uid = u
  <2> DEFINE k == tokenmap[r][u]
  <2>1. tokenmap'[r][u] = k /\ k # None /\ k \in Tokens /\ (r = s => u \notin uids)
    BY <1>3, <1>14 DEF TypeOK
  <2>2. token[k].open /\ token[k].bind_uid /\ token[k].uid = u /\ ServerOf[k] = r
    BY <1>14, <1>18, <2>1 DEF NothingDangles, AtHome
  <2>3. k \notin old
    <3> SUFFICES ASSUME k \in old PROVE FALSE
      OBVIOUS
    <3>1. ServerOf[k] = s
      BY <1>0, <1>4, <2>1 DEF AtHome
    <3>2. u \in Uid(k)
      BY <2>2 DEF Uid
    <3> QED BY <2>1, <2>2, <3>1, <3>2 DEF uids
  <2>4. k = t => lost = {}
    <3> SUFFICES ASSUME k = t, lost # {} PROVE FALSE
      OBVIOUS
    <3>1. lost = Uid(t) /\ u \in Uid(t)
      BY <2>2 DEF lost, Unbound, Uid
    <3> QED BY <2>1, <2>2, <3>1 DEF uids, s
  <2>5. CASE k = t
    BY <1>7, <1>8, <2>1, <2>2, <2>4, <2>5
  <2>6. CASE k # t
    <3>1. token'[k] = token[k]
      BY <1>8, <2>1, <2>3, <2>6
    <3> QED BY <2>1, <2>2, <3>1
  <2> QED BY <2>5, <2>6
<1>15. NothingDangles' /\ AtHome'
  <2>1. \A r \in Servers, u \in Users : tokenmap'[r][u] # None => ServerOf[tokenmap'[r][u]] = r
    BY <1>3 DEF AtHome
  <2>2. AtHome'
    BY <1>13, <2>1 DEF AtHome
  <2> QED BY <1>13, <1>14, <2>2 DEF NothingDangles
<1>16. ASSUME NEW r \in Tokens, token'[r].bind_account, token'[r].account \notin disowned'
       PROVE  /\ accountmap'[ServerOf[r]][token'[r].account] = r
              /\ token'[r].bind_uid => tokenmap'[ServerOf[r]][token'[r].uid] = r
  <2>1. token'[r].account \notin disowned /\ ServerOf[r] \in Servers
    BY <1>16, StillDisowned, AccessAssumption DEF RequestLogin
  <2>2. \A q \in old : q \in Tokens /\ ServerOf[q] = s /\ token[q].bind_account /\ token[q].account = a
    <3> SUFFICES ASSUME NEW q \in old
        PROVE q \in Tokens /\ ServerOf[q] = s /\ token[q].bind_account /\ token[q].account = a
      OBVIOUS
    <3>1. q = accountmap[s][a] /\ q \in Tokens
      BY <1>4
    <3>2. q # None
      BY <3>1, AccessAssumption
    <3> QED BY <1>0, <3>1, <3>2 DEF NothingDangles, AtHome
  <2>3. CASE r = t
    <3>1. token'[r].account = a /\ ServerOf[r] = s /\ accountmap'[s][a] = r
      BY <1>0, <1>3, <1>7, <1>8, <2>3 DEF s
    <3>2. ASSUME token'[r].bind_uid PROVE tokenmap'[ServerOf[r]][token'[r].uid] = r
      <4>1. token[t].bind_uid /\ lost = {} /\ token[t].account = a /\ token'[r].uid = token[t].uid
        BY <1>5, <1>7, <1>8, <2>3, <3>2
      <4>2. token[t].bind_account /\ token[t].uid \in Users
        BY <4>1 DEF TypeOK
      <4>3. accountmap[s][a] = t /\ tokenmap[s][token[t].uid] = t
        BY <2>1, <3>1, <4>1, <4>2 DEF NobodyIsCutOff, s
      <4>4. old = {}
        BY <1>4, <4>3
      <4>5. uids = {}
        BY <4>1, <4>4 DEF uids
      <4> QED BY <1>0, <1>3, <2>3, <3>1, <4>1, <4>2, <4>3, <4>5
    <3> QED BY <3>1, <3>2
  <2>4. CASE r # t
    <3> DEFINE b == token[r].account
               u == token[r].uid
    <3>1. token'[r] = token[r] /\ r \notin old
      BY <1>2, <1>8, <1>16, <2>4
    <3>2. /\ accountmap[ServerOf[r]][b] = r /\ b \in Accounts /\ b \notin disowned
          /\ token[r].bind_uid => tokenmap[ServerOf[r]][u] = r /\ u \in Users /\ b = AccountOf[u]
      BY <1>16, <2>1, <3>1 DEF NobodyIsCutOff, TypeOK, Named
    <3>3. CASE ServerOf[r] # s
      BY <1>3, <2>1, <3>1, <3>2, <3>3
    <3>4. CASE ServerOf[r] = s
      <4>1. b # a
        <5> SUFFICES ASSUME b = a PROVE FALSE
          OBVIOUS
        <5>1. r \in Replaced(t, a)
          BY <2>4, <3>2, <3>4, AccessAssumption DEF Replaced, s
        <5> QED BY <3>1, <5>1 DEF old
      <4>2. ~(token[t].bind_account /\ token[t].account = b)
        BY <1>16, <2>4, <3>1, <3>2, <3>4, OnlyOne DEF s
      <4>3. b \notin Account(t) /\ (token[r].bind_uid => u \notin Uid(t))
        BY <3>2, <4>2 DEF Account, Uid, TypeOK
      <4>4. \A q \in old : b \notin Account(q) /\ (token[r].bind_uid => u \notin Uid(q))
        BY <2>2, <3>2, <4>1 DEF Account, Uid, TypeOK
      <4>5. b \notin gone
        BY <4>3, <4>4 DEF gone
      <4>6. lost \subseteq Uid(t)
        BY DEF lost, Unbound
      <4>7. token[r].bind_uid => u \notin uids
        BY <4>3, <4>4, <4>6 DEF uids
      <4> QED BY <1>0, <1>3, <3>1, <3>2, <3>4, <4>1, <4>5, <4>7
    <3> QED BY <3>3, <3>4
  <2> QED BY <2>3, <2>4
<1>17. NobodyIsCutOff'
  BY <1>16 DEF NobodyIsCutOff
<1> QED BY <1>11, <1>12, <1>15, <1>17

(* The answer binds the user id to the connection that has the account:    *)
(* whatever else is bound to it has the same account, and is that one.     *)
LEMMA LoginOkKeeps == ASSUME IInv, NEW i \in Slots, LoginOk(i) PROVE IInv'
<1> USE DEF IInv
<1> DEFINE l == logins[i]
           a == AccountOf[l.user]
           t == accountmap[l.at][a]
           mine == [token[t] EXCEPT !.bind_uid = TRUE, !.uid = l.user,
                                    !.authorized = TRUE, !.pos = "hall"]
<1>1. l \in Login /\ l.at \in Servers /\ l.user \in Users /\ a \in Accounts
  <2>1. l \in Login /\ l.at \in Servers /\ l.user \in Users
    BY DEF LoginOk, TypeOK, Login
  <2> QED BY <2>1, AccessAssumption
<1>2. t \in Tokens /\ t # None
  <2>1. t # None
    BY DEF LoginOk
  <2>2. accountmap \in [Servers -> [Accounts -> Tokens \cup {None}]]
    BY DEF TypeOK
  <2> HIDE DEF l, a
  <2>3. t \in Tokens \cup {None}
    BY <1>1, <2>2
  <2> QED BY <2>1, <2>3
<1>3. /\ token[t] \in Token /\ token[t].open /\ token[t].bind_account
      /\ token[t].account = a /\ ServerOf[t] = l.at
  <2> HIDE DEF l, a
  <2>1. token[t].open /\ token[t].bind_account /\ token[t].account = a
    BY <1>1, <1>2 DEF NothingDangles
  <2>2. ServerOf[t] = l.at
    BY <1>1, <1>2 DEF AtHome
  <2>3. token[t] \in Token
    BY <1>2 DEF TypeOK
  <2> QED BY <2>1, <2>2, <2>3
<1>4. /\ token' = [token EXCEPT ![t].bind_uid = TRUE, ![t].uid = l.user,
                                ![t].authorized = TRUE, ![t].pos = "hall"]
      /\ tokenmap' = [tokenmap EXCEPT ![l.at][l.user] = t]
      /\ logins' = [logins EXCEPT ![i] = None]
      /\ overbound' = (overbound \ {<< l.user, l.at >>}) \cup (Overwritten(t, l.user) \X {l.at})
      /\ UNCHANGED << accountmap, game, net, disowned, requests >>
  BY DEF LoginOk
<1>16. accountmap[l.at][AccountOf[l.user]] = t /\ a = AccountOf[l.user]
  OBVIOUS
<1> HIDE DEF t, l, a
<1>5. mine \in Token /\ mine.open /\ mine.bind_account /\ mine.account = a
      /\ mine.bind_uid /\ mine.uid = l.user /\ mine.authorized
  BY <1>1, <1>3 DEF Token
<1>6. token' = [token EXCEPT ![t] = mine]
  BY <1>2, <1>3, <1>4 DEF TypeOK, Token
<1> HIDE DEF mine
<1>7. token' \in [Tokens -> Token] /\ token'[t] = mine /\ \A r \in Tokens \ {t} : token'[r] = token[r]
  BY <1>2, <1>5, <1>6 DEF TypeOK
<1>8. /\ tokenmap' \in [Servers -> [Users -> Tokens \cup {None}]]
      /\ \A r \in Servers, u \in Users :
           tokenmap'[r][u] = IF r = l.at /\ u = l.user THEN t ELSE tokenmap[r][u]
  BY <1>1, <1>2, <1>4 DEF TypeOK
<1>9. TypeOK'
  <2>1. \A r \in Tokens : token'[r].bind_uid =>
          /\ token'[r].authorized /\ token'[r].bind_account /\ token'[r].uid \in Users
          /\ token'[r].account = AccountOf[token'[r].uid]
    BY <1>1, <1>5, <1>7, <1>16 DEF TypeOK
  <2>2. logins' \in [Slots -> Login \cup {None}]
    BY <1>4 DEF TypeOK
  <2>3. overbound' \subseteq Through
    <3>1. Uid(t) \subseteq Users
      BY <1>2, Owners
    <3> QED BY <1>1, <1>4, <3>1 DEF Overwritten, Through, TypeOK
  <2> QED BY <1>4, <1>7, <1>8, <2>1, <2>2, <2>3 DEF game, net, TypeOK
<1>10. Named'
  BY <1>1, <1>5, <1>7 DEF Named
<1>11. ASSUME NEW r \in Servers, NEW u \in Accounts, accountmap'[r][u] # None
       PROVE  /\ token'[accountmap'[r][u]].open
              /\ token'[accountmap'[r][u]].bind_account
              /\ token'[accountmap'[r][u]].account = u
              /\ ServerOf[accountmap'[r][u]] = r
  <2> DEFINE k == accountmap[r][u]
  <2>1. accountmap'[r][u] = k /\ k # None /\ k \in Tokens
    BY <1>4, <1>11 DEF TypeOK
  <2>2. token[k].open /\ token[k].bind_account /\ token[k].account = u /\ ServerOf[k] = r
    BY <2>1 DEF NothingDangles, AtHome
  <2>3. k = t => u = a
    BY <1>3, <2>2
  <2> QED BY <1>5, <1>7, <2>1, <2>2, <2>3
<1>12. ASSUME NEW r \in Servers, NEW u \in Users, tokenmap'[r][u] # None, << u, r >> \notin overbound'
       PROVE  /\ token'[tokenmap'[r][u]].open
              /\ token'[tokenmap'[r][u]].bind_uid
              /\ token'[tokenmap'[r][u]].uid = u
  <2>1. CASE r = l.at /\ u = l.user
    BY <1>3, <1>5, <1>7, <1>8, <2>1
  <2>2. CASE ~(r = l.at /\ u = l.user)
    <3> DEFINE k == tokenmap[r][u]
    <3>1. tokenmap'[r][u] = k /\ k # None /\ k \in Tokens
      BY <1>8, <1>12, <2>2 DEF TypeOK
    <3>2. << u, r >> \notin overbound /\ ~(r = l.at /\ u \in Overwritten(t, l.user))
      BY <1>4, <1>12, <2>2
    <3>3. token[k].open /\ token[k].bind_uid /\ token[k].uid = u /\ ServerOf[k] = r
      BY <3>1, <3>2 DEF NothingDangles, AtHome
    <3>4. k # t
      <4> SUFFICES ASSUME k = t PROVE FALSE
        OBVIOUS
      <4>1. r = l.at /\ u # l.user
        BY <1>3, <2>2, <3>3
      <4>2. AccountOf[u] = AccountOf[l.user]
        BY <1>3, <1>16, <3>1, <3>3 DEF TypeOK
      <4>3. u \in Uid(t)
        BY <3>3 DEF Uid
      <4> QED BY <3>2, <4>1, <4>2, <4>3 DEF Overwritten
    <3> QED BY <1>7, <3>1, <3>3, <3>4
  <2> QED BY <2>1, <2>2
<1>13. NothingDangles' /\ AtHome'
  <2>1. \A r \in Servers, u \in Users : tokenmap'[r][u] # None => ServerOf[tokenmap'[r][u]] = r
    BY <1>3, <1>8 DEF AtHome
  <2>2. AtHome'
    BY <1>11, <2>1 DEF AtHome
  <2> QED BY <1>11, <1>12, <2>2 DEF NothingDangles
<1>14. ASSUME NEW r \in Tokens, token'[r].bind_account, token'[r].account \notin disowned'
       PROVE  /\ accountmap'[ServerOf[r]][token'[r].account] = r
              /\ token'[r].bind_uid => tokenmap'[ServerOf[r]][token'[r].uid] = r
  <2> DEFINE b == token[r].account
             u == token[r].uid
  <2>1. ServerOf[r] \in Servers /\ accountmap' = accountmap /\ disowned' = disowned
    BY <1>4, AccessAssumption
  <2>2. token'[r].account = b /\ token[r].bind_account
    BY <1>3, <1>5, <1>7, <1>14
  <2>3. accountmap[ServerOf[r]][b] = r /\ b \in Accounts /\ b \notin disowned
    BY <1>14, <2>1, <2>2 DEF NobodyIsCutOff, Named
  <2>4. CASE r = t
    BY <1>1, <1>3, <1>5, <1>7, <1>8, <2>1, <2>2, <2>3, <2>4
  <2>5. CASE r # t
    <3>1. token'[r] = token[r] /\ ~(ServerOf[r] = l.at /\ b = a)
      <4>1. token'[r] = token[r]
        BY <1>7, <2>5
      <4>2. ASSUME ServerOf[r] = l.at, b = a PROVE FALSE
        <5>1. accountmap[l.at][a] = t /\ accountmap[l.at][a] = r
          BY <1>16, <2>3, <4>2
        <5> QED BY <2>5, <5>1
      <4> QED BY <4>1, <4>2
    <3>2. token[r].bind_uid => tokenmap[ServerOf[r]][u] = r /\ u \in Users /\ b = AccountOf[u]
      BY <2>2, <2>3 DEF NobodyIsCutOff, TypeOK
    <3>3. token[r].bind_uid => ~(ServerOf[r] = l.at /\ u = l.user)
      BY <1>16, <3>1, <3>2
    <3> QED BY <1>8, <2>1, <2>2, <2>3, <3>1, <3>2, <3>3
  <2> QED BY <2>4, <2>5
<1>15. NobodyIsCutOff'
  BY <1>14 DEF NobodyIsCutOff
<1> QED BY <1>9, <1>10, <1>13, <1>15

(* A failed login only erases.                                             *)
LEMMA LoginFailedKeeps == ASSUME IInv, NEW i \in Slots, LoginFailed(i) PROVE IInv'
<1> USE DEF IInv
<1> DEFINE l == logins[i]
           a == AccountOf[l.user]
           t == accountmap[l.at][a]
           keys == Account(t)
<1>1. l.at \in Servers /\ a \in Accounts
  <2>1. l.at \in Servers /\ l.user \in Users
    BY DEF LoginFailed, TypeOK, Login
  <2> QED BY <2>1, AccessAssumption
<1>2. /\ accountmap' = Without(accountmap, l.at, keys)
      /\ disowned' = disowned \cup {a} /\ logins' = [logins EXCEPT ![i] = None]
      /\ UNCHANGED << token, tokenmap, game, net, overbound, requests >>
  BY DEF LoginFailed
<1>6. keys \subseteq {a}
  BY <1>1 DEF Account, NothingDangles, LoginFailed
<1> HIDE DEF l, a, t, keys
<1>3. /\ accountmap' \in [Servers -> [Accounts -> Tokens \cup {None}]]
      /\ \A r \in Servers, u \in Accounts :
           accountmap'[r][u] = IF r = l.at /\ u \in keys THEN None ELSE accountmap[r][u]
  <2>1. accountmap \in [Servers -> [Accounts -> Tokens \cup {None}]]
    BY DEF TypeOK
  <2> QED BY <1>1, <1>2, <2>1, AccountsWithout
<1>4. TypeOK'
  BY <1>1, <1>2, <1>3 DEF TypeOK, game, net
<1>5. NothingDangles' /\ AtHome' /\ Named'
  BY <1>2, <1>3 DEF NothingDangles, AtHome, Named
<1>7. NobodyIsCutOff'
  <2>1. \A r \in Tokens : ServerOf[r] \in Servers
    BY AccessAssumption
  <2> QED BY <1>2, <1>3, <1>6, <2>1 DEF NobodyIsCutOff, Named
<1> QED BY <1>4, <1>5, <1>7

(* A position is all that a message of the game changes of a connection.   *)
LEMMA PosChangeKeeps ==
  ASSUME IInv, NEW u \in Users, NEW s \in Servers, PosChange(u, s) PROVE IInv'
<1> USE DEF IInv
<1>1. /\ token' = [ t \in Tokens |-> IF t = tokenmap[s][u] THEN [token[t] EXCEPT !.pos = "game"]
                                     ELSE token[t] ]
      /\ posChanges' = posChanges \ {<< u, s >>}
      /\ UNCHANGED << index, logins, game, tells, closes, disowned, overbound, requests >>
  BY DEF PosChange
<1>2. token' \in [Tokens -> Token] /\
      \A t \in Tokens : /\ token'[t].open = token[t].open
                        /\ token'[t].bind_account = token[t].bind_account
                        /\ token'[t].account = token[t].account
                        /\ token'[t].bind_uid = token[t].bind_uid
                        /\ token'[t].uid = token[t].uid
                        /\ token'[t].authorized = token[t].authorized
  <2>1. ASSUME NEW t \in Tokens
        PROVE  /\ token'[t] \in Token
               /\ token'[t].open = token[t].open
               /\ token'[t].bind_account = token[t].bind_account
               /\ token'[t].account = token[t].account
               /\ token'[t].bind_uid = token[t].bind_uid
               /\ token'[t].uid = token[t].uid
               /\ token'[t].authorized = token[t].authorized
    <3>1. token[t] \in Token
      BY DEF TypeOK
    <3>2. token'[t] = IF t = tokenmap[s][u] THEN [token[t] EXCEPT !.pos = "game"] ELSE token[t]
      BY <1>1
    <3> QED BY <3>1, <3>2 DEF Token
  <2> QED BY <1>1, <2>1
<1>3. TypeOK'
  BY <1>1, <1>2 DEF TypeOK, index, game
<1>4. NothingDangles' /\ AtHome' /\ Named'
  BY <1>1, <1>2 DEF NothingDangles, AtHome, Named, index, TypeOK
<1>5. NobodyIsCutOff'
  BY <1>1, <1>2 DEF NobodyIsCutOff, index
<1> QED BY <1>3, <1>4, <1>5

(* What leaves the connections and their maps alone leaves the rest to the *)
(* types.                                                                  *)
LEMMA Elsewhere ==
  ASSUME IInv, UNCHANGED << token, index, disowned, overbound >>, TypeOK'
  PROVE  IInv'
BY DEF IInv, NothingDangles, AtHome, Named, NobodyIsCutOff, index

(* The ends of a login's session keep IInv, whether the hall answers, the  *)
(* answer is lost or comes to nobody.                                      *)
LEMMA LoginSessionKeeps ==
  ASSUME IInv, NEW i \in Slots, HallAnswers(i) \/ LoginLost(i) \/ LoginMissed(i)
  PROVE  IInv'
<1>1. UNCHANGED << token, index, game, net, disowned, overbound, requests >>
  BY DEF HallAnswers, LoginLost, LoginMissed
<1>2. logins' \in [Slots -> Login \cup {None}]
  <2>1. CASE HallAnswers(i)
    <3>1. PICK stage \in {"ok", "failed"} : logins' = [logins EXCEPT ![i].stage = stage]
      BY <2>1 DEF HallAnswers
    <3>2. logins[i] \in Login
      BY <2>1 DEF HallAnswers, IInv, TypeOK
    <3>3. [logins[i] EXCEPT !.stage = stage] \in Login
      BY <3>2 DEF Login
    <3> QED BY <3>1, <3>3 DEF IInv, TypeOK
  <2>2. CASE LoginLost(i) \/ LoginMissed(i)
    BY <2>2 DEF LoginLost, LoginMissed, IInv, TypeOK
  <2> QED BY <2>1, <2>2
<1> QED BY <1>1, <1>2, Elsewhere DEF IInv, TypeOK, index, game, net

(* A request to enter a game keeps IInv.                                   *)
LEMMA RequestEnterKeeps == ASSUME IInv, NEW t \in Tokens, RequestEnter(t) PROVE IInv'
<1>1. UNCHANGED << token, index, logins, seat, net, disowned, overbound >>
  BY DEF RequestEnter
<1>2. enters' \subseteq Through
  <2>1. token[t] \in Token /\ ServerOf[t] \in Servers
    BY AccessAssumption DEF IInv, TypeOK
  <2>2. token[t].uid \in Users
    <3>1. token[t].authorized
      BY DEF RequestEnter
    <3> QED BY <3>1 DEF IInv, Named
  <2> QED BY <2>1, <2>2 DEF RequestEnter, IInv, TypeOK, Through
<1>3. requests' \in 0 .. MaxRequests
  <2>1. Request /\ requests \in 0 .. MaxRequests
    BY DEF RequestEnter, IInv, TypeOK
  <2> QED BY <2>1, AccessAssumption DEF Request
<1> QED BY <1>1, <1>2, <1>3, Elsewhere DEF IInv, TypeOK, index, net

(* Leaving and telling need no connect server, the rest is through one.    *)
LEMMA GameUserKeeps == ASSUME IInv, NEW u \in Users, GameLeaves(u) \/ GameTells(u) PROVE IInv'
<1>1. CASE GameLeaves(u)
  <2>1. UNCHANGED << token, index, logins, enters, net, disowned, overbound, requests >>
    BY <1>1 DEF GameLeaves
  <2>2. seat' = [seat EXCEPT ![u] = [ state |-> "out", conn |-> None ]]
    BY <1>1 DEF GameLeaves
  <2>3. TypeOK'
    BY <2>1, <2>2 DEF IInv, TypeOK, index, net
  <2> QED BY <2>1, <2>3, Elsewhere
<1>2. CASE GameTells(u)
  <2>1. UNCHANGED << token, index, logins, game, posChanges, closes, disowned, overbound, requests >>
    BY <1>2 DEF GameTells
  <2>2. tells' = tells \cup {<< u, seat[u].conn >>} /\ seat[u].state = "on"
    BY <1>2 DEF GameTells
  <2>3. seat[u].conn \in Servers
    BY <2>2 DEF IInv, TypeOK
  <2>4. tells' \subseteq Through
    BY <2>2, <2>3 DEF IInv, TypeOK, Through
  <2> QED BY <2>1, <2>4, Elsewhere DEF IInv, TypeOK, index, game
<1> QED BY <1>1, <1>2

(* What the games do and send keeps IInv: they touch no connection's       *)
(* account.                                                                *)
LEMMA GameServerKeeps ==
  ASSUME IInv, NEW u \in Users, NEW s \in Servers,
         GameSeats(u, s) \/ GameRefuses(u, s) \/ Deliver(u, s) \/ HandlerClose(u, s)
  PROVE  IInv'
<1>1. UNCHANGED << token, index, logins, disowned, overbound, requests >>
  BY DEF GameSeats, GameRefuses, Deliver, HandlerClose, game
<1>2. << u, s >> \in Through
  BY DEF Through
<1>3. CASE GameSeats(u, s)
  <2>1. /\ seat' = [seat EXCEPT ![u] = [ state |-> "on", conn |-> s ]]
        /\ enters' \subseteq enters /\ posChanges' = posChanges \cup {<< u, s >>}
        /\ UNCHANGED << tells, closes >>
    BY <1>3 DEF GameSeats
  <2>2. /\ seat' \in [Users -> [ state : {"out", "on", "off"}, conn : Servers \cup {None} ]]
        /\ \A v \in Users : seat'[v].state = "out" <=> seat'[v].conn = None
    BY <2>1, AccessAssumption DEF IInv, TypeOK
  <2> QED BY <1>1, <1>2, <2>1, <2>2, Elsewhere DEF IInv, TypeOK, index
<1>4. CASE GameRefuses(u, s)
  <2>1. enters' \subseteq enters /\ UNCHANGED << seat, net >>
    BY <1>4 DEF GameRefuses
  <2> QED BY <1>1, <2>1, Elsewhere DEF IInv, TypeOK, index, net
<1>5. CASE Deliver(u, s)
  <2>1. tells' \subseteq tells /\ UNCHANGED << game, posChanges >>
    BY <1>5 DEF Deliver
  <2>2. closes' \subseteq closes \cup {<< u, s >>}
    BY <1>5 DEF Deliver
  <2> QED BY <1>1, <1>2, <2>1, <2>2, Elsewhere DEF IInv, TypeOK, index, game
<1>6. CASE HandlerClose(u, s)
  <2>1. closes' \subseteq closes /\ UNCHANGED << enters, posChanges, tells >>
    BY <1>6 DEF HandlerClose
  <2>2. seat' = seat \/ (seat[u].state # "out" /\ seat' = [seat EXCEPT ![u].state = "off"])
    BY <1>6 DEF HandlerClose
  <2>3. /\ seat' \in [Users -> [ state : {"out", "on", "off"}, conn : Servers \cup {None} ]]
        /\ \A v \in Users : seat'[v].state = "out" <=> seat'[v].conn = None
    <3>1. /\ seat \in [Users -> [ state : {"out", "on", "off"}, conn : Servers \cup {None} ]]
          /\ \A v \in Users : seat[v].state = "out" <=> seat[v].conn = None
      BY DEF IInv, TypeOK
    <3>2. CASE seat' = seat
      BY <3>1, <3>2
    <3>3. CASE seat[u].state # "out" /\ seat' = [seat EXCEPT ![u].state = "off"]
      <4>1. seat[u].conn \in Servers
        BY <3>1, <3>3
      <4>2. \A v \in Users : /\ seat'[v].conn = seat[v].conn
                            /\ seat'[v].state = IF v = u THEN "off" ELSE seat[v].state
        BY <3>1, <3>3
      <4>3. seat' \in [Users -> [ state : {"out", "on", "off"}, conn : Servers \cup {None} ]]
        BY <3>1, <3>3
      <4> QED BY <3>1, <4>1, <4>2, <4>3, AccessAssumption
    <3> QED BY <2>2, <3>2, <3>3
  <2> QED BY <1>1, <2>1, <2>3, Elsewhere DEF IInv, TypeOK, index
<1> QED BY <1>3, <1>4, <1>5, <1>6

-----------------------------------------------------------------------------

(* Every step keeps IInv.                                                  *)
LEMMA AccessNext == IInv /\ [Next]_vars => IInv'
<1> SUFFICES ASSUME IInv, [Next]_vars PROVE IInv'
  OBVIOUS
<1>1. ASSUME NEW t \in Tokens, Connect(t) \/ Close(t) \/ RequestEnter(t) PROVE IInv'
  BY <1>1, ConnectKeeps, CloseKeeps, RequestEnterKeeps
<1>2. ASSUME NEW t \in Tokens, NEW u \in Users, NEW named \in BOOLEAN, RequestLogin(t, u, named)
      PROVE  IInv'
  BY <1>2, RequestLoginKeeps
<1>3. ASSUME NEW i \in Slots,
             HallAnswers(i) \/ LoginLost(i) \/ LoginOk(i) \/ LoginFailed(i) \/ LoginMissed(i)
      PROVE  IInv'
  BY <1>3, LoginSessionKeeps, LoginOkKeeps, LoginFailedKeeps
<1>4. ASSUME NEW u \in Users, NEW s \in Servers,
             \/ GameSeats(u, s) \/ GameRefuses(u, s)
             \/ PosChange(u, s) \/ Deliver(u, s) \/ HandlerClose(u, s)
      PROVE  IInv'
  BY <1>4, GameServerKeeps, PosChangeKeeps
<1>5. CASE UNCHANGED vars
  BY <1>5 DEF vars, index, game, net, IInv, TypeOK, NothingDangles, AtHome, Named, NobodyIsCutOff
<1>6. ASSUME NEW u \in Users, GameLeaves(u) \/ GameTells(u) PROVE IInv'
  BY <1>6, GameUserKeeps
<1> QED BY <1>1, <1>2, <1>3, <1>4, <1>5, <1>6 DEF Next

(* A connection bound to a user id is authorized and has the account of    *)
(* that id (ProcessResponseMsg, RequestLogin and the releases); a seat in  *)
(* the game is out just when it has no connect server.                     *)
THEOREM AccessTyped == Spec => []TypeOK
<1>1. Spec => []IInv
  BY AccessInit, AccessNext, PTL DEF Spec
<1>2. IInv => TypeOK
  BY DEF IInv
<1> QED BY <1>1, <1>2, PTL

(* An entry of _accountmap or _tokenmap is always of an open connection    *)
(* bound to just that account or user id: no close, replacement or late    *)
(* answer leaves a released ConnectHandlerToken in a map, except under a   *)
(* user id whose connection an answer gave another id of the account.      *)
THEOREM NothingEverDangles == Spec => []NothingDangles
<1>1. Spec => []IInv
  BY AccessInit, AccessNext, PTL DEF Spec
<1>2. IInv => NothingDangles
  BY DEF IInv
<1> QED BY <1>1, <1>2, PTL

(* Who is bound on a connect server is found there: another connection's   *)
(* close, login or replacement never erases his entries, unless a login of *)
(* his account failed and left its connection the flag (LoginFailed).      *)
THEOREM NobodyIsEverCutOff == Spec => []NobodyIsCutOff
<1>1. Spec => []IInv
  BY AccessInit, AccessNext, PTL DEF Spec
<1>2. IInv => NobodyIsCutOff
  BY DEF IInv
<1> QED BY <1>1, <1>2, PTL
=============================================================================
