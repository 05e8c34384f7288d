--------------------------- MODULE AccountsProofs ---------------------------
(***************************************************************************)
(* Proofs about Accounts, for any mailboxes, names, passwords, tabs,       *)
(* browsers and databases.                                                 *)
(***************************************************************************)
EXTENDS Accounts, SequenceTheorems, TLAPS

(* What is known of a request by its stage: TypeOK alone is not inductive, *)
(* because an account is made of what a signup carries.                    *)
FormOK(r) ==
    /\ r.stage \in {"lookup", "insert"} => r.ident \in Address /\ r.name \in Names
    /\ r.stage = "granted" => r.tab \in Tabs /\ r.of \in Accounts

TypeInv == TypeOK /\ \A r \in requests : FormOK(r)

StoreOK == index \in {"none", "built", "failed"} /\ users \in Seq(Account)

RequestsOK == requests \subseteq Request /\ \A r \in requests : FormOK(r)

PagesOK ==
    /\ token \in [Browsers -> Token]
    /\ page \in [Tabs -> Urls \union {"closed", "starting"}]
    /\ user \in [Tabs -> Accounts \union {Nobody}]
    /\ me \in [Tabs -> Token]
    /\ writer \in [Browsers -> Tabs \union {Gone}]

SubmittedOK == sent \in 0..MaxRequests /\ given \in [Browsers -> SUBSET Passwords]

LEMMA TypeParts == TypeInv <=> StoreOK /\ RequestsOK /\ PagesOK /\ SubmittedOK
BY DEF TypeInv, TypeOK, StoreOK, RequestsOK, PagesOK, SubmittedOK

LEMMA TypePartsNext == TypeInv' <=> StoreOK' /\ RequestsOK' /\ PagesOK' /\ SubmittedOK'
BY DEF TypeInv, TypeOK, StoreOK, RequestsOK, PagesOK, SubmittedOK

-----------------------------------------------------------------------------
(* What the steps of a request do to the set of requests.                  *)

LEMMA RefuseType ==
    ASSUME RequestsOK, NEW r \in requests, Refuse(r), UNCHANGED users
    PROVE  RequestsOK'
BY DEF RequestsOK, FormOK, Refuse, Request, Accounts

LEMMA InsertType ==
    ASSUME RequestsOK, NEW r \in requests, r.stage = "lookup", Insert(r), UNCHANGED users
    PROVE  RequestsOK'
<1> DEFINE q == [r EXCEPT !.stage = "insert"]
<1>1. r \in Request /\ FormOK(r)
  BY DEF RequestsOK
<1>2. q \in Request /\ q.stage = "insert" /\ q.ident = r.ident /\ q.name = r.name
  BY <1>1 DEF Request
<1>3. FormOK(q)
  BY <1>1, <1>2 DEF FormOK
<1>4. requests' = (requests \ {r}) \union {q}
  BY DEF Insert
<1> HIDE DEF q
<1> QED BY <1>2, <1>3, <1>4 DEF RequestsOK, FormOK, Request, Accounts

(* The account may be the one that the step makes.                         *)
LEMMA GrantType ==
    ASSUME RequestsOK, NEW r \in requests, NEW a \in Accounts', Grant(r, a),
           Accounts \subseteq Accounts'
    PROVE  RequestsOK'
<1> DEFINE q == [r EXCEPT !.stage = "granted", !.of = a]
<1>1. \A s \in requests : s \in Request' /\ FormOK(s)'
  BY DEF RequestsOK, FormOK, Request
<1>2. r \in Request
  BY DEF RequestsOK
<1>3. q \in Request' /\ q.stage = "granted" /\ q.of = a /\ q.tab = r.tab
  BY <1>2 DEF Request
<1>4. CASE r.tab = Gone
  BY <1>1, <1>4 DEF Grant, RequestsOK
<1>5. CASE r.tab # Gone
  <2>1. q.tab \in Tabs
    BY <1>2, <1>3, <1>5 DEF Request
  <2>2. FormOK(q)'
    BY <1>3, <2>1 DEF FormOK
  <2>3. requests' = (requests \ {r}) \union {q}
    BY <1>5 DEF Grant
  <2> HIDE DEF q
  <2> QED BY <1>1, <1>3, <2>2, <2>3 DEF RequestsOK
<1> QED BY <1>4, <1>5

LEMMA OrphanType ==
    ASSUME RequestsOK, NEW R \in SUBSET requests,
           requests' = (requests \ R) \union Orphan(R), UNCHANGED users
    PROVE  RequestsOK'
<1>1. ASSUME NEW r \in R, InHandler(r)
      PROVE  [r EXCEPT !.tab = Gone] \in Request /\ FormOK([r EXCEPT !.tab = Gone])
  <2>1. r \in Request /\ FormOK(r)
    BY DEF RequestsOK
  <2> DEFINE q == [r EXCEPT !.tab = Gone]
  <2>2. q \in Request /\ q.stage = r.stage /\ q.ident = r.ident /\ q.name = r.name
    BY <2>1 DEF Request
  <2>3. r.stage # "granted"
    BY <1>1 DEF InHandler
  <2> HIDE DEF q
  <2>4. FormOK(q)
    BY <2>1, <2>2, <2>3 DEF FormOK
  <2> QED BY <2>2, <2>4 DEF q
<1>2. Orphan(R) \subseteq Request /\ \A q \in Orphan(R) : FormOK(q)
  BY <1>1 DEF Orphan
<1> QED BY <1>2 DEF RequestsOK, FormOK, Request, Accounts

(* A new account is a document of the collection.                          *)
LEMMA NewUserType ==
    ASSUME RequestsOK, NEW r \in requests, r.stage = "insert"
    PROVE  NewUser(r) \in Account
BY DEF RequestsOK, FormOK, NewUser, Account, Request

LEMMA StoreGrows ==
    ASSUME StoreOK, NEW u \in Account, users' = Append(users, u)
    PROVE  /\ users' \in Seq(Account)
           /\ Len(users') = Len(users) + 1 /\ Len(users) \in Nat
           /\ Accounts' = Accounts \union {Len(users) + 1}
           /\ \A a \in Accounts : users'[a] = users[a]
           /\ users'[Len(users) + 1] = u
<1>1. users \in Seq(Account) /\ Len(users) \in Nat
  BY DEF StoreOK
<1>2. users' \in Seq(Account) /\ Len(users') = Len(users) + 1
  BY <1>1
<1>3. Accounts' = Accounts \union {Len(users) + 1}
  BY <1>1, <1>2 DEF Accounts
<1>4. \A a \in Accounts : users'[a] = users[a]
  BY <1>1 DEF Accounts
<1>5. users'[Len(users) + 1] = u
  BY <1>1
<1> QED BY <1>1, <1>2, <1>3, <1>4, <1>5

-----------------------------------------------------------------------------
LEMMA TypeInit == Init => TypeInv
<1> SUFFICES ASSUME Init PROVE TypeInv
  OBVIOUS
<1>1. StoreOK
  BY DatabasesAssumption DEF Init, StoreOK
<1>2. RequestsOK /\ SubmittedOK
  BY RequestsAssumption DEF Init, RequestsOK, SubmittedOK
<1>3. PagesOK
  BY DEF Init, PagesOK, Token
<1> QED BY <1>1, <1>2, <1>3, TypeParts

LEMMA ServerType ==
    ASSUME TypeInv, NEW r \in requests,
           SignupLookup(r) \/ SignupInsert(r) \/ LoginFind(r) \/ HandlerFails(r)
    PROVE  TypeInv'
<1>1. StoreOK /\ RequestsOK /\ PagesOK /\ SubmittedOK
  BY TypeParts
<1>2. CASE UNCHANGED <<server, pages, sent, given>> /\ (Refuse(r)
             \/ (r.stage = "lookup" /\ Insert(r)) \/ \E a \in Accounts : Grant(r, a))
  <2>1. UNCHANGED users /\ Accounts' = Accounts
    BY <1>2 DEF server, Accounts
  <2>2. RequestsOK'
    BY <1>1, <1>2, <2>1, RefuseType, InsertType, GrantType
  <2>3. StoreOK' /\ PagesOK' /\ SubmittedOK'
    BY <1>1, <1>2, <2>1 DEF server, pages, StoreOK, PagesOK, SubmittedOK, Token
  <2> QED BY <2>2, <2>3, TypePartsNext
<1>3. CASE SignupInsert(r)
  <2>1. users' = Append(users, NewUser(r)) /\ NewUser(r) \in Account
    BY <1>1, <1>3, NewUserType DEF SignupInsert
  <2>2. /\ users' \in Seq(Account)
        /\ Accounts' = Accounts \union {Len(users) + 1}
    BY <1>1, <2>1, StoreGrows
  <2>3. RequestsOK'
    <3>1. CASE Grant(r, Len(users) + 1)
      BY <1>1, <2>2, <3>1, GrantType
    <3>2. CASE Refuse(r)
      <4>1. \A s \in requests : s \in Request' /\ FormOK(s)'
        BY <1>1, <2>2 DEF RequestsOK, FormOK, Request
      <4> QED BY <3>2, <4>1 DEF Refuse, RequestsOK
    <3> QED BY <1>3, <3>1, <3>2 DEF SignupInsert
  <2>4. StoreOK'
    BY <1>1, <1>3, <2>2 DEF SignupInsert, StoreOK
  <2>5. PagesOK' /\ SubmittedOK'
    BY <1>1, <1>3, <2>2 DEF SignupInsert, pages, PagesOK, SubmittedOK, Token
  <2> QED BY <2>3, <2>4, <2>5, TypePartsNext
<1>4. CASE LoginFind(r)
  <2>1. Matches(r.ident) \subseteq Accounts
    BY <1>1 DEF Matches, Accounts, StoreOK
  <2> QED BY <1>2, <1>4, <2>1 DEF LoginFind
<1>5. CASE SignupLookup(r)
  BY <1>2, <1>5 DEF SignupLookup
<1>6. CASE HandlerFails(r)
  BY <1>2, <1>6 DEF HandlerFails
<1> QED BY <1>3, <1>4, <1>5, <1>6

LEMMA BrowserType == \A t \in Tabs : BrowserOf[t] \in Browsers
BY DEF Browsers

LEMMA LandingType == \A url \in Urls, in \in BOOLEAN : Landing(url, in) \in Urls
BY DEF Urls, Landing

(* What a tab does to its own page and to the token.                       *)
LEMMA PageType ==
    ASSUME TypeInv, UNCHANGED server, RequestsOK', SubmittedOK', NEW t \in Tabs,
           UNCHANGED page \/ \E p \in Urls \union {"closed", "starting"} : Show(t, p),
           user' = user \/ \E a \in Accounts \union {Nobody} : user' = [user EXCEPT ![t] = a],
           me' = me \/ \E k \in Token : me' = [me EXCEPT ![t] = k],
           (\E k \in Token : SetToken(t, k)) \/ UNCHANGED <<token, writer>>
    PROVE  TypeInv'
<1>1. StoreOK' /\ Token' = Token /\ Accounts' = Accounts
  BY TypeParts DEF server, StoreOK, Token, Accounts
<1>2. PagesOK
  BY TypeParts
<1>3. page' \in [Tabs -> Urls \union {"closed", "starting"}]
  BY <1>2 DEF PagesOK, Show
<1>4. user' \in [Tabs -> Accounts \union {Nobody}]
  BY <1>2 DEF PagesOK
<1>5. me' \in [Tabs -> Token]
  BY <1>2 DEF PagesOK
<1>6. token' \in [Browsers -> Token] /\ writer' \in [Browsers -> Tabs \union {Gone}]
  BY <1>2, BrowserType DEF PagesOK, SetToken
<1>7. PagesOK'
  BY <1>1, <1>3, <1>4, <1>5, <1>6 DEF PagesOK
<1> QED BY <1>1, <1>7, TypePartsNext

(* A new request is well-typed, and a form has sent it.                    *)
LEMMA SendType ==
    ASSUME TypeInv, NEW t \in Tabs, SubmitSignup(t) \/ SubmitLogin(t)
    PROVE  TypeInv'
<1>1. StoreOK /\ RequestsOK /\ PagesOK /\ SubmittedOK
  BY TypeParts
<1>2. PICK r : Send(t, r) /\ (r \in Request /\ FormOK(r)) /\ r.password \in Passwords
  <2>1. sent \in 0..MaxRequests /\ Nobody \in Accounts \union {Nobody}
    BY <1>1 DEF SubmittedOK
  <2>2. CASE SubmitSignup(t)
    <3>1. PICK e \in Address, n \in Names, p \in Passwords :
            Send(t, [id |-> sent, tab |-> t, ident |-> e, name |-> n,
                     password |-> p, stage |-> "lookup", of |-> Nobody])
      BY <2>2 DEF SubmitSignup
    <3> DEFINE r == [id |-> sent, tab |-> t, ident |-> e, name |-> n,
                     password |-> p, stage |-> "lookup", of |-> Nobody]
    <3>2. r \in Request /\ FormOK(r) /\ r.password \in Passwords
      BY <2>1 DEF Request, FormOK
    <3> QED BY <3>1, <3>2
  <2>3. CASE SubmitLogin(t)
    <3>1. PICK i \in Address \union Names, p \in Passwords :
            Send(t, [id |-> sent, tab |-> t, ident |-> i, name |-> i,
                     password |-> p, stage |-> "find", of |-> Nobody])
      BY <2>3 DEF SubmitLogin
    <3> DEFINE r == [id |-> sent, tab |-> t, ident |-> i, name |-> i,
                     password |-> p, stage |-> "find", of |-> Nobody]
    <3>2. r \in Request /\ FormOK(r) /\ r.password \in Passwords
      BY <2>1 DEF Request, FormOK
    <3> QED BY <3>1, <3>2
  <2> QED BY <2>2, <2>3
<1>3. UNCHANGED <<index, users, token, page, user, me, writer>> /\ Accounts' = Accounts
  BY <1>2 DEF Send, server, pages, Accounts
<1>4. StoreOK' /\ PagesOK'
  BY <1>1, <1>3 DEF StoreOK, PagesOK, Token
<1>5. requests' = requests \union {r}
  BY <1>2 DEF Send
<1>6. RequestsOK'
  BY <1>1, <1>2, <1>3, <1>5 DEF RequestsOK, FormOK, Request
<1>7. sent' \in 0..MaxRequests
  BY <1>1, <1>2, RequestsAssumption DEF Send, SubmittedOK
<1>8. given' \in [Browsers -> SUBSET Passwords]
  BY <1>1, <1>2, BrowserType DEF Send, SubmittedOK
<1> QED BY <1>4, <1>6, <1>7, <1>8, TypePartsNext DEF SubmittedOK

LEMMA TypeNext == TypeInv /\ [Next]_vars => TypeInv'
<1> SUFFICES ASSUME TypeInv, [Next]_vars PROVE TypeInv'
  OBVIOUS
<1>1. StoreOK /\ RequestsOK /\ PagesOK /\ SubmittedOK
  BY TypeParts
<1>2. NoToken \in Token /\ Nobody \in Accounts \union {Nobody}
  BY DEF Token
<1>3. ASSUME UNCHANGED <<server, requests, sent, given>>
      PROVE  RequestsOK' /\ SubmittedOK'
  BY <1>1, <1>3 DEF server, RequestsOK, FormOK, Request, Accounts, SubmittedOK
<1>4. CASE EnsureIndexes
  <2>1. StoreOK' /\ Accounts' = Accounts
    BY <1>1, <1>4 DEF EnsureIndexes, StoreOK, Accounts
  <2>2. RequestsOK' /\ SubmittedOK' /\ PagesOK'
    BY <1>1, <1>4, <2>1 DEF EnsureIndexes, pages, RequestsOK, FormOK, Request,
                            SubmittedOK, PagesOK, Token
  <2> QED BY <2>1, <2>2, TypePartsNext
<1>5. ASSUME NEW r \in requests,
             SignupLookup(r) \/ SignupInsert(r) \/ LoginFind(r) \/ HandlerFails(r)
      PROVE  TypeInv'
  BY <1>5, ServerType
<1>6. ASSUME NEW r \in requests, Granted(r) PROVE TypeInv'
  <2>1. r.tab \in Tabs /\ r.of \in Accounts
    BY <1>1, <1>6 DEF RequestsOK, FormOK, Granted
  <2>2. TokenFor(r.of) \in Token
    BY <2>1 DEF TokenFor, Token
  <2>3. RequestsOK'
    BY <1>1, <1>6, RefuseType DEF Granted, server
  <2>4. SubmittedOK'
    BY <1>1, <1>6 DEF Granted, SubmittedOK
  <2>5. Show(r.tab, "dashboard") /\ "dashboard" \in Urls
    BY <1>6 DEF Granted, Urls
  <2> QED BY <1>6, <2>1, <2>2, <2>3, <2>4, <2>5, PageType DEF Granted
<1>7. ASSUME NEW r \in requests, ConnectionLost(r) PROVE TypeInv'
  <2>1. RequestsOK'
    BY <1>1, <1>7, OrphanType DEF ConnectionLost, server
  <2>2. StoreOK' /\ PagesOK' /\ SubmittedOK'
    BY <1>1, <1>7 DEF ConnectionLost, server, pages, StoreOK, PagesOK, SubmittedOK,
                      Token, Accounts
  <2> QED BY <2>1, <2>2, TypePartsNext
<1>8. ASSUME NEW t \in Tabs, Open(t) PROVE TypeInv'
  <2>1. RequestsOK' /\ SubmittedOK' /\ UNCHANGED server
    BY <1>3, <1>8 DEF Open
  <2>2. token[BrowserOf[t]] \in Token
    BY <1>1, BrowserType DEF PagesOK
  <2>3. \E p \in Urls \union {"closed", "starting"} : Show(t, p)
    BY <1>8, LandingType DEF Open
  <2>4. me' = me \/ \E k \in Token : me' = [me EXCEPT ![t] = k]
    BY <1>8, <2>2 DEF Open
  <2> QED BY <1>8, <2>1, <2>3, <2>4, PageType DEF Open
<1>9. ASSUME NEW t \in Tabs, MeSucceeds(t) PROVE TypeInv'
  <2>1. RequestsOK' /\ SubmittedOK' /\ UNCHANGED server
    BY <1>3, <1>9 DEF MeSucceeds
  <2>2. me[t] \in Token
    BY <1>1 DEF PagesOK
  <2>3. me[t].of \in Accounts \union {Nobody}
    BY <2>2 DEF Token, NoToken
  <2>4. \E p \in Urls \union {"closed", "starting"} : Show(t, p)
    BY <1>9, LandingType DEF MeSucceeds
  <2> QED BY <1>2, <1>9, <2>1, <2>3, <2>4, PageType DEF MeSucceeds
<1>10. ASSUME NEW t \in Tabs, MeFails(t) PROVE TypeInv'
  <2>1. RequestsOK' /\ SubmittedOK' /\ UNCHANGED server
    BY <1>3, <1>10 DEF MeFails
  <2>2. \E p \in Urls \union {"closed", "starting"} : Show(t, p)
    BY <1>10, LandingType DEF MeFails
  <2> QED BY <1>2, <1>10, <2>1, <2>2, PageType DEF MeFails
<1>11. ASSUME NEW t \in Tabs, NEW url \in Urls, Visit(t, url) PROVE TypeInv'
  <2>1. RequestsOK' /\ SubmittedOK' /\ UNCHANGED server
    BY <1>3, <1>11 DEF Visit
  <2>2. \E p \in Urls \union {"closed", "starting"} : Show(t, p)
    BY <1>11, LandingType DEF Visit, SignedIn
  <2> QED BY <1>11, <2>1, <2>2, PageType DEF Visit
<1>12. ASSUME NEW t \in Tabs, SubmitSignup(t) \/ SubmitLogin(t) PROVE TypeInv'
  BY <1>12, SendType
<1>13. ASSUME NEW t \in Tabs, Logout(t) PROVE TypeInv'
  <2>1. RequestsOK' /\ SubmittedOK' /\ UNCHANGED server
    BY <1>3, <1>13 DEF Logout
  <2>2. Show(t, "form") /\ "form" \in Urls
    BY <1>13 DEF Logout, Urls
  <2> QED BY <1>2, <1>13, <2>1, <2>2, PageType DEF Logout, LogoutOf
<1>14. ASSUME NEW t \in Tabs, Close(t) PROVE TypeInv'
  <2> DEFINE mine == {r \in requests : r.tab = t}
  <2>1. requests' = (requests \ mine) \union Orphan(mine) /\ UNCHANGED server
    BY <1>14 DEF Close
  <2>2. RequestsOK'
    <3> HIDE DEF mine
    <3> QED BY <1>1, <2>1, OrphanType DEF mine, server
  <2>3. SubmittedOK'
    BY <1>1, <1>14 DEF Close, SubmittedOK
  <2> QED BY <1>2, <1>14, <2>1, <2>2, <2>3, PageType DEF Close
<1>15. ASSUME NEW b \in Browsers, Expires(b) PROVE TypeInv'
  <2>1. RequestsOK' /\ SubmittedOK' /\ UNCHANGED server
    BY <1>3, <1>15 DEF Expires
  <2>2. token[b] \in Token /\ token[b] # NoToken
    BY <1>1, <1>15 DEF PagesOK, Expires, NoToken
  <2>3. [token[b] EXCEPT !.fresh = FALSE] \in Token
    BY <2>2 DEF Token
  <2>4. token' \in [Browsers -> Token]
    BY <1>1, <1>15, <2>3 DEF PagesOK, Expires
  <2>5. StoreOK' /\ PagesOK'
    BY <1>1, <1>15, <2>4 DEF Expires, server, StoreOK, PagesOK, Token, Accounts
  <2> QED BY <2>1, <2>5, TypePartsNext
<1>16. CASE UNCHANGED vars
  BY <1>16 DEF vars, TypeInv, TypeOK, FormOK, Request, Token, Accounts
<1> QED BY <1>4, <1>5, <1>6, <1>7, <1>8, <1>9, <1>10, <1>11, <1>12, <1>13, <1>14,
           <1>15, <1>16 DEF Next

LEMMA TypeAlways == Spec => []TypeInv
BY TypeInit, TypeNext, PTL DEF Spec

(* Every reachable state of every instance is well-typed.                  *)
THEOREM TypeCorrect == Spec => []TypeOK
<1>1. TypeInv => TypeOK
  BY DEF TypeInv
<1> QED BY <1>1, TypeAlways, PTL

-----------------------------------------------------------------------------
(* One account per mailbox.  Stored addresses are in lower case, so that   *)
(* two of one mailbox are equal, and the index then keeps them apart.      *)

Unique == index = "built" =>
    \A a, b \in Accounts : users[a].mail = users[b].mail => a = b

LEMMA LowerOfStored == \A u \in Account : Lower(u.mail) = u.mail
BY DEF Account, Lower, Address

LEMMA UniqueInit == Init => Unique
<1> SUFFICES ASSUME Init PROVE Unique
  OBVIOUS
<1>1. users \in Databases /\ users \in Seq(Account)
  BY DatabasesAssumption DEF Init
<1>2. DOMAIN users = Accounts
  BY <1>1 DEF Accounts
<1> QED BY <1>1, <1>2, DatabasesAssumption DEF Unique

LEMMA UniqueNext == TypeInv /\ Unique /\ [Next]_vars => Unique'
<1> SUFFICES ASSUME TypeInv, Unique, [Next]_vars PROVE Unique'
  OBVIOUS
<1>1. StoreOK /\ RequestsOK /\ DOMAIN users = Accounts
  BY TypeParts DEF StoreOK, Accounts
<1>2. CASE UNCHANGED server
  BY <1>2 DEF Unique, server, Accounts
<1>3. CASE EnsureIndexes
  BY <1>1, <1>3 DEF EnsureIndexes, Duplicates, Unique, Accounts
<1>4. ASSUME NEW r \in requests, SignupInsert(r), index = "built" PROVE Unique'
  <2> DEFINE u == NewUser(r)
  <2>1. users' = Append(users, u) /\ u \in Account
    BY <1>1, <1>4, NewUserType DEF SignupInsert
  <2>2. \A a \in Accounts : users[a].mail # u.mail
    BY <1>1, <1>4 DEF SignupInsert, IndexRefuses, WithMail
  <2> HIDE DEF u
  <2>3. /\ Accounts' = Accounts \union {Len(users) + 1}
        /\ \A a \in Accounts : users'[a] = users[a]
        /\ users'[Len(users) + 1] = u
    BY <1>1, <2>1, StoreGrows
  <2> QED BY <1>4, <2>2, <2>3 DEF Unique
<1>5. ASSUME NEW r \in requests, SignupInsert(r), index # "built" PROVE Unique'
  BY <1>5 DEF SignupInsert, Unique
<1>6. ASSUME Next, ~EnsureIndexes, \A r \in requests : ~SignupInsert(r)
      PROVE  UNCHANGED server
  BY <1>6 DEF Next, SignupLookup, LoginFind, HandlerFails, Granted, ConnectionLost,
              Open, MeSucceeds, MeFails, SubmitSignup, SubmitLogin, Send, Logout,
              Close, Visit, Expires
<1>7. CASE UNCHANGED vars
  BY <1>2, <1>7 DEF vars, server
<1> QED BY <1>2, <1>3, <1>4, <1>5, <1>6, <1>7

(* No number of signups at the same time, whatever case the address was    *)
(* typed in, gives a mailbox two accounts once the index is there.         *)
THEOREM OneAccount == Spec => []OneAccountPerMail
<1>1. TypeInv /\ Unique => OneAccountPerMail
  <2> SUFFICES ASSUME TypeInv, Unique PROVE OneAccountPerMail
    OBVIOUS
  <2>1. DOMAIN users = Accounts /\ \A a \in Accounts : users[a] \in Account
    BY TypeParts DEF StoreOK, Accounts
  <2>2. \A a \in Accounts : Lower(users[a].mail) = users[a].mail
    BY <2>1, LowerOfStored
  <2> QED BY <2>1, <2>2 DEF OneAccountPerMail, Unique
<1> QED BY <1>1, TypeAlways, UniqueInit, UniqueNext, PTL DEF Spec

-----------------------------------------------------------------------------
(* Sessions.  A request carries a password that was submitted from the     *)
(* browser of its tab, and a starting tab a token that the browser had.    *)

RequestEarned(r) == r.tab # Gone =>
    r.password \in given[BrowserOf[r.tab]] /\ Earned(r.of, BrowserOf[r.tab])

TokensEarned ==
    /\ \A b \in Browsers : Earned(token[b].of, b)
    /\ \A t \in Tabs : Earned(user[t], BrowserOf[t]) /\ Earned(me[t].of, BrowserOf[t])

Sessions == TokensEarned /\ \A r \in requests : RequestEarned(r)

LEMMA SessionsInit == Init => Sessions
<1> SUFFICES ASSUME Init PROVE Sessions
  OBVIOUS
<1>1. \A t \in Tabs : BrowserOf[t] \in Browsers
  BY BrowserType
<1> QED BY <1>1 DEF Init, Sessions, TokensEarned, Earned, NoToken

(* What was earned stays so: accounts are not changed, and nothing that    *)
(* was submitted is forgotten.                                             *)
Kept ==
    /\ Accounts \subseteq Accounts' /\ \A a \in Accounts : users'[a] = users[a]
    /\ \A b \in Browsers : given[b] \subseteq given'[b]

LEMMA EarnedStays ==
    ASSUME Kept, NEW b \in Browsers, NEW a \in Accounts \union {Nobody}, Earned(a, b)
    PROVE  Earned(a, b)'
BY DEF Kept, Earned

LEMMA AlwaysKept == TypeInv /\ [Next]_vars => Kept
<1> SUFFICES ASSUME TypeInv, [Next]_vars PROVE Kept
  OBVIOUS
<1>1. StoreOK /\ RequestsOK /\ SubmittedOK
  BY TypeParts
<1>2. ASSUME UNCHANGED <<users, given>> PROVE Kept
  BY <1>2 DEF Kept, Accounts
<1>3. ASSUME NEW r \in requests, SignupInsert(r) PROVE Kept
  <2>1. users' = Append(users, NewUser(r)) /\ NewUser(r) \in Account
    BY <1>1, <1>3, NewUserType DEF SignupInsert
  <2>2. /\ Accounts' = Accounts \union {Len(users) + 1}
        /\ \A a \in Accounts : users'[a] = users[a]
    BY <1>1, <2>1, StoreGrows
  <2> QED BY <1>3, <2>2 DEF SignupInsert, Kept
<1>4. ASSUME NEW t \in Tabs, NEW r, Send(t, r) PROVE Kept
  BY <1>1, <1>4, BrowserType DEF Send, server, Kept, Accounts, SubmittedOK
<1>5. ASSUME NEW t \in Tabs, SubmitSignup(t) \/ SubmitLogin(t) PROVE Kept
  BY <1>4, <1>5 DEF SubmitSignup, SubmitLogin
<1>6. ASSUME Next, \A r \in requests : ~SignupInsert(r),
             \A t \in Tabs : ~SubmitSignup(t) /\ ~SubmitLogin(t)
      PROVE  UNCHANGED <<users, given>>
  BY <1>6 DEF Next, EnsureIndexes, SignupLookup, LoginFind, HandlerFails, Granted,
              ConnectionLost, Open, MeSucceeds, MeFails, Logout, Close, Visit, Expires,
              server
<1>7. CASE UNCHANGED vars
  BY <1>2, <1>7 DEF vars
<1> QED BY <1>2, <1>3, <1>5, <1>6, <1>7

(* A step that makes no new token, user, or request.                       *)
LEMMA SessionsKept ==
    ASSUME TypeInv, Sessions, Kept,
           \A b \in Browsers : token'[b].of \in {token[b].of, Nobody},
           \A t \in Tabs : user'[t] \in {user[t], Nobody} \/ user'[t] = me[t].of,
           \A t \in Tabs : me'[t].of \in {me[t].of, Nobody, token[BrowserOf[t]].of}
    PROVE  TokensEarned'
<1>1. \A t \in Tabs : BrowserOf[t] \in Browsers
  BY BrowserType
<1>2. \A k \in Token : k.of \in Accounts \union {Nobody}
  BY DEF Token, NoToken
<1>3. PagesOK
  BY TypeParts
<1>4. \A b \in Browsers : token[b].of \in Accounts \union {Nobody}
  BY <1>2, <1>3 DEF PagesOK
<1>5. \A t \in Tabs : user[t] \in Accounts \union {Nobody}
                      /\ me[t].of \in Accounts \union {Nobody}
  BY <1>2, <1>3 DEF PagesOK
<1>7. \A t \in Tabs : /\ (user[t] # Nobody =>
                           users'[user[t]].password \in given'[BrowserOf[t]])
                      /\ (me[t].of # Nobody =>
                           users'[me[t].of].password \in given'[BrowserOf[t]])
  <2> TAKE t \in Tabs
  <2>1. Earned(user[t], BrowserOf[t]) /\ Earned(me[t].of, BrowserOf[t])
    BY DEF Sessions, TokensEarned
  <2> QED BY <1>1, <1>5, <2>1 DEF Kept, Earned
<1>8. \A b \in Browsers : token[b].of # Nobody =>
                            users'[token[b].of].password \in given'[b]
  <2> TAKE b \in Browsers
  <2>1. Earned(token[b].of, b)
    BY DEF Sessions, TokensEarned
  <2> QED BY <1>4, <2>1 DEF Kept, Earned
<1> QED BY <1>1, <1>7, <1>8 DEF TokensEarned, Earned

(* Requests that were earned stay so.                                      *)
LEMMA RequestsKept ==
    ASSUME TypeInv, Sessions, Kept
    PROVE  \A r \in requests : RequestEarned(r)'
<1>1. \A t \in Tabs : BrowserOf[t] \in Browsers
  BY BrowserType
<1>2. RequestsOK
  BY TypeParts
<1> SUFFICES ASSUME NEW r \in requests PROVE RequestEarned(r)'
  OBVIOUS
<1>3. RequestEarned(r)
  BY DEF Sessions
<1>4. r.tab \in Tabs \union {Gone} /\ r.of \in Accounts \union {Nobody}
  BY <1>2 DEF RequestsOK, Request
<1> QED BY <1>1, <1>3, <1>4 DEF RequestEarned, Earned, Kept

LEMMA GrantEarned ==
    ASSUME TypeInv, Sessions, Kept, NEW r \in requests, NEW a, Grant(r, a),
           users'[a].password = r.password
    PROVE  \A q \in requests' : RequestEarned(q)'
<1>1. \A q \in requests : RequestEarned(q)'
  BY RequestsKept
<1> DEFINE g == [r EXCEPT !.stage = "granted", !.of = a]
<1>2. r \in Request
  BY TypeParts DEF RequestsOK
<1>3. g.tab = r.tab /\ g.of = a /\ g.password = r.password
  BY <1>2 DEF Request
<1>4. requests' \subseteq requests \union {g}
  BY DEF Grant
<1>5. RequestEarned(g)'
  <2> HIDE DEF g
  <2> QED BY <1>1, <1>3 DEF RequestEarned, Earned
<1> HIDE DEF g
<1> QED BY <1>1, <1>4, <1>5

LEMMA OrphansEarned ==
    ASSUME TypeInv, Sessions, Kept, NEW R \in SUBSET requests,
           requests' = (requests \ R) \union Orphan(R)
    PROVE  \A q \in requests' : RequestEarned(q)'
<1>1. \A r \in requests : RequestEarned(r)'
  BY RequestsKept
<1>2. \A q \in Orphan(R) : q.tab = Gone
  BY TypeParts DEF Orphan, RequestsOK, Request
<1> QED BY <1>1, <1>2 DEF RequestEarned

LEMMA SessionsNext == TypeInv /\ Sessions /\ [Next]_vars => Sessions'
<1> SUFFICES ASSUME TypeInv, Sessions, [Next]_vars PROVE Sessions'
  OBVIOUS
<1>1. StoreOK /\ RequestsOK /\ PagesOK /\ SubmittedOK /\ Kept
  BY TypeParts, AlwaysKept
<1>2. \A r \in requests : RequestEarned(r)'
  BY <1>1, RequestsKept
<1>3. \A t \in Tabs : BrowserOf[t] \in Browsers
  BY BrowserType
<1>4. ASSUME UNCHANGED pages PROVE TokensEarned'
  BY <1>1, <1>4, SessionsKept DEF pages
<1>0. /\ token \in [Browsers -> Token] /\ me \in [Tabs -> Token]
      /\ user \in [Tabs -> Accounts \union {Nobody}]
  BY <1>1 DEF PagesOK
<1>5. ASSUME TokensEarned', requests' \subseteq requests PROVE Sessions'
  BY <1>2, <1>5 DEF Sessions
<1>6. ASSUME NEW r \in requests, SignupLookup(r) PROVE Sessions'
  <2>1. TokensEarned'
    BY <1>4, <1>6 DEF SignupLookup
  <2>2. CASE Refuse(r)
    BY <1>5, <2>1, <2>2 DEF Refuse
  <2>3. CASE Insert(r)
    <3> DEFINE g == [r EXCEPT !.stage = "insert"]
    <3>1. r \in Request
      BY <1>1 DEF RequestsOK
    <3>2. g.tab = r.tab /\ g.of = r.of /\ g.password = r.password
      BY <3>1 DEF Request
    <3>3. requests' = (requests \ {r}) \union {g}
      BY <2>3 DEF Insert
    <3> HIDE DEF g
    <3>4. RequestEarned(g)'
      BY <1>2, <3>2 DEF RequestEarned, Earned
    <3> QED BY <1>2, <2>1, <3>3, <3>4 DEF Sessions
  <2> QED BY <1>6, <2>2, <2>3 DEF SignupLookup
<1>7. ASSUME NEW r \in requests, SignupInsert(r) PROVE Sessions'
  <2>1. TokensEarned'
    BY <1>4, <1>7 DEF SignupInsert
  <2>2. CASE Refuse(r)
    BY <1>5, <2>1, <2>2 DEF Refuse
  <2>3. CASE Grant(r, Len(users) + 1)
    <3>1. users' = Append(users, NewUser(r)) /\ NewUser(r) \in Account
      BY <1>1, <1>7, NewUserType DEF SignupInsert
    <3>2. users'[Len(users) + 1] = NewUser(r)
      BY <1>1, <3>1, StoreGrows
    <3>3. users'[Len(users) + 1].password = r.password
      BY <3>2 DEF NewUser
    <3> QED BY <1>1, <2>1, <2>3, <3>3, GrantEarned DEF Sessions
  <2> QED BY <1>7, <2>2, <2>3 DEF SignupInsert
<1>8. ASSUME NEW r \in requests, LoginFind(r) PROVE Sessions'
  <2>1. TokensEarned' /\ users' = users
    BY <1>4, <1>8 DEF LoginFind, server
  <2>2. CASE Refuse(r)
    BY <1>5, <2>1, <2>2 DEF Refuse
  <2>3. ASSUME NEW a \in Matches(r.ident), PasswordFits(a, r), Grant(r, a)
        PROVE  Sessions'
    BY <1>1, <2>1, <2>3, GrantEarned DEF PasswordFits, Sessions
  <2> QED BY <1>8, <2>2, <2>3 DEF LoginFind
<1>9. ASSUME NEW r \in requests, HandlerFails(r) PROVE Sessions'
  BY <1>4, <1>5, <1>9 DEF HandlerFails, Refuse
<1>10. ASSUME NEW r \in requests, Granted(r) PROVE Sessions'
  <2>1. r.tab \in Tabs /\ r.tab # Gone
    BY <1>1, <1>10, GoneAssumption DEF RequestsOK, FormOK, Granted
  <2>2. Earned(r.of, BrowserOf[r.tab])
    BY <2>1 DEF Sessions, RequestEarned
  <2>3. UNCHANGED <<users, given, me>> /\ requests' \subseteq requests
    BY <1>10 DEF Granted, server, Refuse
  <2>4. \A b \in Browsers : token'[b] = token[b]
                           \/ (b = BrowserOf[r.tab] /\ token'[b].of = r.of)
    <3>1. token' = [token EXCEPT ![BrowserOf[r.tab]] = TokenFor(r.of)]
      BY <1>10 DEF Granted, SetToken
    <3>2. TokenFor(r.of).of = r.of
      BY DEF TokenFor
    <3> QED BY <1>0, <3>1, <3>2
  <2>5. \A t \in Tabs : user'[t] = user[t] \/ (t = r.tab /\ user'[t] = r.of)
    <3>1. user' = [user EXCEPT ![r.tab] = r.of]
      BY <1>10 DEF Granted
    <3> QED BY <1>0, <3>1
  <2>6. TokensEarned'
    BY <2>2, <2>3, <2>4, <2>5 DEF Sessions, TokensEarned, Earned
  <2> QED BY <1>5, <2>3, <2>6
<1>11. ASSUME NEW r \in requests, ConnectionLost(r) PROVE Sessions'
  BY <1>1, <1>4, <1>11, OrphansEarned DEF ConnectionLost, Sessions
<1>12. ASSUME NEW t \in Tabs, Open(t) \/ MeSucceeds(t) \/ MeFails(t) \/ Logout(t) \/ Close(t)
                              \/ \E url \in Urls : Visit(t, url)
       PROVE  TokensEarned'
  <2>1. \A b \in Browsers : token'[b].of \in {token[b].of, Nobody}
    <3>1. token' = token \/ token' = [token EXCEPT ![BrowserOf[t]] = NoToken]
      BY <1>12 DEF Open, MeSucceeds, MeFails, Logout, LogoutOf, Close, Visit, SetToken
    <3>2. NoToken.of = Nobody
      BY DEF NoToken
    <3> QED BY <1>0, <1>3, <3>1, <3>2
  <2>2. \A s \in Tabs : user'[s] \in {user[s], Nobody} \/ user'[s] = me[s].of
    <3>1. \/ user' = user
          \/ user' = [user EXCEPT ![t] = Nobody]
          \/ user' = [user EXCEPT ![t] = me[t].of]
      BY <1>12 DEF Open, MeSucceeds, MeFails, Logout, LogoutOf, Close, Visit
    <3> QED BY <1>0, <3>1
  <2>3. \A s \in Tabs : me'[s].of \in {me[s].of, Nobody, token[BrowserOf[s]].of}
    <3>1. \/ me' = me
          \/ me' = [me EXCEPT ![t] = NoToken]
          \/ me' = [me EXCEPT ![t] = token[BrowserOf[t]]]
      BY <1>12 DEF Open, MeSucceeds, MeFails, Logout, LogoutOf, Close, Visit
    <3>2. NoToken.of = Nobody
      BY DEF NoToken
    <3> QED BY <1>0, <3>1, <3>2
  <2> QED BY <1>1, <2>1, <2>2, <2>3, SessionsKept
<1>13. ASSUME NEW t \in Tabs, Open(t) \/ MeSucceeds(t) \/ MeFails(t) \/ Logout(t)
                              \/ \E url \in Urls : Visit(t, url)
       PROVE  Sessions'
  BY <1>5, <1>12, <1>13 DEF Open, MeSucceeds, MeFails, Logout, Visit
<1>14. ASSUME NEW t \in Tabs, Close(t) PROVE Sessions'
  <2> DEFINE mine == {r \in requests : r.tab = t}
  <2>1. requests' = (requests \ mine) \union Orphan(mine)
    BY <1>14 DEF Close
  <2>2. \A q \in requests' : RequestEarned(q)'
    <3> HIDE DEF mine
    <3> QED BY <1>1, <2>1, OrphansEarned DEF mine
  <2> QED BY <1>12, <1>14, <2>2 DEF Sessions
<1>15. ASSUME NEW t \in Tabs, NEW r, Send(t, r), r.tab = t, r.of = Nobody PROVE Sessions'
  <2>1. UNCHANGED pages /\ requests' = requests \union {r}
    BY <1>15 DEF Send
  <2>2. r.password \in given'[BrowserOf[t]]
    BY <1>1, <1>3, <1>15 DEF Send, SubmittedOK
  <2>3. RequestEarned(r)'
    BY <1>15, <2>2 DEF RequestEarned, Earned
  <2> QED BY <1>2, <1>4, <2>1, <2>3 DEF Sessions
<1>16. ASSUME NEW t \in Tabs, SubmitSignup(t) \/ SubmitLogin(t) PROVE Sessions'
  BY <1>15, <1>16 DEF SubmitSignup, SubmitLogin
<1>17. ASSUME NEW b \in Browsers, Expires(b) PROVE Sessions'
  <2> DEFINE k == [token[b] EXCEPT !.fresh = FALSE]
  <2>1. k.of = token[b].of
    <3>1. token[b] = NoToken \/ token[b] \in [of : Accounts, fresh : BOOLEAN]
      BY <1>0 DEF Token
    <3>2. CASE token[b] = NoToken
      BY <3>2 DEF NoToken
    <3>3. CASE token[b] \in [of : Accounts, fresh : BOOLEAN]
      BY <3>3
    <3> QED BY <3>1, <3>2, <3>3
  <2>2. \A c \in Browsers : token'[c].of = token[c].of
    <3>1. token' = [token EXCEPT ![b] = k]
      BY <1>17 DEF Expires
    <3> HIDE DEF k
    <3> QED BY <1>0, <2>1, <3>1
  <2>3. UNCHANGED <<user, me, requests>>
    BY <1>17 DEF Expires
  <2> QED BY <1>1, <1>5, <2>2, <2>3, SessionsKept
<1>18. CASE EnsureIndexes \/ UNCHANGED vars
  BY <1>4, <1>5, <1>18 DEF EnsureIndexes, vars, pages
<1> QED BY <1>6, <1>7, <1>8, <1>9, <1>10, <1>11, <1>13, <1>14, <1>16, <1>17, <1>18 DEF Next

(* A browser never holds a token, and a tab never shows an account, whose  *)
(* password was not submitted from this browser.                           *)
THEOREM SessionsAreEarned == Spec => []SessionIsEarned
<1>1. TypeInv /\ Sessions => SessionIsEarned
  BY DEF Sessions, TokensEarned, RequestEarned, SessionIsEarned
<1> QED BY <1>1, TypeAlways, SessionsInit, SessionsNext, PTL DEF Spec

-----------------------------------------------------------------------------
(* What a tab shows.  A tab that was closed or is starting shows nobody,   *)
(* and getMe was sent with the token of the tab that wrote it last.        *)

Last(t) == writer[BrowserOf[t]] = t

TabAgrees(t) ==
    /\ ~Ready(t) => user[t] = Nobody
    /\ page[t] = "starting" /\ Last(t) => me[t].of = token[BrowserOf[t]].of
    /\ Ready(t) /\ Last(t) => user[t] = token[BrowserOf[t]].of
    /\ Last(t) /\ page[t] = "dashboard" => user[t] # Nobody

Agrees == \A t \in Tabs : TabAgrees(t)

LEMMA AgreesInit == Init => Agrees
BY DEF Init, Agrees, TabAgrees, Ready, Urls

(* The other tabs: of them nothing changes, but the writer may be t now.   *)
LEMMA OthersAgree ==
    ASSUME TypeInv, Agrees, NEW t \in Tabs, NEW s \in Tabs, s # t,
           page' = page \/ \E p : Show(t, p),
           user' = user \/ \E a : user' = [user EXCEPT ![t] = a],
           me' = me \/ \E k : me' = [me EXCEPT ![t] = k],
           UNCHANGED <<token, writer>> \/ \E k : SetToken(t, k)
    PROVE  TabAgrees(s)'
<1>1. PagesOK /\ BrowserOf[s] \in Browsers /\ BrowserOf[t] \in Browsers
  BY TypeParts, BrowserType
<1>2. page'[s] = page[s] /\ user'[s] = user[s] /\ me'[s] = me[s]
  BY <1>1 DEF PagesOK, Show
<1>3. \/ token'[BrowserOf[s]] = token[BrowserOf[s]] /\ writer'[BrowserOf[s]] = writer[BrowserOf[s]]
      \/ writer'[BrowserOf[s]] = t
  BY <1>1 DEF PagesOK, SetToken
<1>4. TabAgrees(s)
  BY DEF Agrees
<1> QED BY <1>2, <1>3, <1>4 DEF TabAgrees, Last, Ready

LEMMA AgreesNext == TypeInv /\ Agrees /\ [Next]_vars => Agrees'
<1> SUFFICES ASSUME TypeInv, Agrees, [Next]_vars PROVE Agrees'
  OBVIOUS
<1>1. StoreOK /\ RequestsOK /\ PagesOK
  BY TypeParts
<1>2. /\ token \in [Browsers -> Token] /\ me \in [Tabs -> Token]
      /\ user \in [Tabs -> Accounts \union {Nobody}]
      /\ page \in [Tabs -> Urls \union {"closed", "starting"}]
      /\ writer \in [Browsers -> Tabs \union {Gone}]
  BY <1>1 DEF PagesOK
<1>3. Nobody \notin Accounts /\ NoToken.of = Nobody
      /\ \A k \in Token : k # NoToken => k.of \in Accounts
  BY <1>1 DEF Accounts, Nobody, NoToken, Token, StoreOK
<1>4. \A t \in Tabs : TabAgrees(t) /\ BrowserOf[t] \in Browsers
  BY BrowserType DEF Agrees
<1>5. CASE UNCHANGED pages
  BY <1>5 DEF pages, Agrees, TabAgrees, Ready, Last
<1>6. ASSUME NEW t \in Tabs, Open(t) PROVE Agrees'
  <2>1. \A s \in Tabs : s # t => TabAgrees(s)'
    BY <1>6, OthersAgree DEF Open
  <2>2. TabAgrees(t)'
    <3>1. UNCHANGED <<token, user, writer>> /\ user[t] = Nobody
      BY <1>4, <1>6 DEF Open, TabAgrees, Ready, Urls
    <3>2. CASE token[BrowserOf[t]] = NoToken
      <4>1. PICK url \in Urls : Show(t, Landing(url, FALSE))
        BY <1>6, <3>2 DEF Open
      <4>2. page'[t] \in {"home", "form"}
        BY <1>2, <4>1 DEF Show, Landing
      <4> QED BY <1>3, <3>1, <3>2, <4>2 DEF TabAgrees, Ready, Urls, Last
    <3>3. CASE token[BrowserOf[t]] # NoToken
      <4>1. page'[t] = "starting" /\ me'[t] = token[BrowserOf[t]]
        BY <1>2, <1>6, <3>3 DEF Open, Show
      <4> QED BY <3>1, <4>1 DEF TabAgrees, Ready, Urls, Last
    <3> QED BY <3>2, <3>3
  <2> QED BY <2>1, <2>2 DEF Agrees
<1>7. ASSUME NEW t \in Tabs, MeSucceeds(t) PROVE Agrees'
  <2>1. \A s \in Tabs : s # t => TabAgrees(s)'
    BY <1>7, OthersAgree DEF MeSucceeds
  <2>2. TabAgrees(t)'
    <3>1. user'[t] = me[t].of /\ UNCHANGED <<token, writer>>
      BY <1>2, <1>7 DEF MeSucceeds
    <3>2. me[t] # NoToken
      BY <1>7 DEF MeSucceeds, NoToken
    <3>3. me[t].of # Nobody
      BY <1>2, <1>3, <3>2
    <3>4. PICK url \in Urls : Show(t, Landing(url, TRUE))
      BY <1>7 DEF MeSucceeds
    <3>5. page'[t] \in Urls
      BY <1>2, <3>4, LandingType DEF Show
    <3>6. Last(t) => me[t].of = token[BrowserOf[t]].of
      BY <1>4, <1>7 DEF TabAgrees, MeSucceeds
    <3> QED BY <3>1, <3>3, <3>5, <3>6 DEF TabAgrees, Ready, Urls, Last
  <2> QED BY <2>1, <2>2 DEF Agrees
<1>8. ASSUME NEW t \in Tabs, MeFails(t) PROVE Agrees'
  <2>1. \A s \in Tabs : s # t => TabAgrees(s)'
    BY <1>8, OthersAgree DEF MeFails
  <2>2. TabAgrees(t)'
    <3>1. user'[t] = Nobody /\ token'[BrowserOf[t]] = NoToken
      BY <1>2, <1>4, <1>8 DEF MeFails, SetToken, TabAgrees, Ready, Urls
    <3>2. PICK url \in Urls : Show(t, Landing(url, FALSE))
      BY <1>8 DEF MeFails
    <3>3. page'[t] \in {"home", "form"}
      BY <1>2, <3>2 DEF Show, Landing
    <3> QED BY <1>3, <3>1, <3>3 DEF TabAgrees, Ready, Urls, Last
  <2> QED BY <2>1, <2>2 DEF Agrees
<1>9. ASSUME NEW t \in Tabs, NEW url \in Urls, Visit(t, url) PROVE Agrees'
  <2>1. \A s \in Tabs : s # t => TabAgrees(s)'
    BY <1>9, OthersAgree DEF Visit
  <2>2. TabAgrees(t)'
    <3>1. UNCHANGED <<token, user, writer>> /\ Ready(t)
      BY <1>9 DEF Visit
    <3>2. page'[t] = Landing(url, SignedIn(t))
      BY <1>2, <1>9 DEF Visit, Show
    <3>3. page'[t] \in Urls
      BY <3>2, LandingType DEF SignedIn
    <3>4. page'[t] = "dashboard" => SignedIn(t)
      BY <3>2 DEF Landing
    <3>5. SignedIn(t) /\ Last(t) => user[t] # Nobody
      BY <1>2, <1>3, <1>4, <3>1 DEF SignedIn, TabAgrees
    <3> QED BY <1>4, <3>1, <3>3, <3>4, <3>5 DEF TabAgrees, Ready, Urls, Last
  <2> QED BY <2>1, <2>2 DEF Agrees
<1>10. ASSUME NEW r \in requests, Granted(r) PROVE Agrees'
  <2>1. r.tab \in Tabs /\ r.of \in Accounts
    BY <1>1, <1>10 DEF RequestsOK, FormOK, Granted
  <2>2. \A s \in Tabs : s # r.tab => TabAgrees(s)'
    BY <1>10, <2>1, OthersAgree DEF Granted
  <2>3. TabAgrees(r.tab)'
    <3>1. /\ user'[r.tab] = r.of /\ page'[r.tab] = "dashboard"
          /\ token'[BrowserOf[r.tab]] = TokenFor(r.of)
      BY <1>2, <1>4, <1>10, <2>1 DEF Granted, SetToken, Show
    <3>2. TokenFor(r.of).of = r.of
      BY DEF TokenFor
    <3> QED BY <1>3, <2>1, <3>1, <3>2 DEF TabAgrees, Ready, Urls, Last
  <2> QED BY <2>2, <2>3 DEF Agrees
<1>11. ASSUME NEW t \in Tabs, Logout(t) PROVE Agrees'
  <2>1. \A s \in Tabs : s # t => TabAgrees(s)'
    BY <1>11, OthersAgree DEF Logout, LogoutOf
  <2>2. TabAgrees(t)'
    <3>1. user'[t] = Nobody /\ page'[t] = "form" /\ token'[BrowserOf[t]] = NoToken
      BY <1>2, <1>4, <1>11 DEF Logout, LogoutOf, SetToken, Show
    <3> QED BY <1>3, <3>1 DEF TabAgrees, Ready, Urls, Last
  <2> QED BY <2>1, <2>2 DEF Agrees
<1>12. ASSUME NEW t \in Tabs, Close(t) PROVE Agrees'
  <2>1. \A s \in Tabs : s # t => TabAgrees(s)'
    BY <1>12, OthersAgree DEF Close
  <2>2. TabAgrees(t)'
    <3>1. user'[t] = Nobody /\ page'[t] = "closed"
      BY <1>2, <1>12 DEF Close, Show
    <3> QED BY <3>1 DEF TabAgrees, Ready, Urls, Last
  <2> QED BY <2>1, <2>2 DEF Agrees
<1>13. ASSUME NEW b \in Browsers, Expires(b) PROVE Agrees'
  <2> DEFINE k == [token[b] EXCEPT !.fresh = FALSE]
  <2>1. k.of = token[b].of
    <3>1. token[b] = NoToken \/ token[b] \in [of : Accounts, fresh : BOOLEAN]
      BY <1>2 DEF Token
    <3>2. CASE token[b] = NoToken
      BY <3>2 DEF NoToken
    <3>3. CASE token[b] \in [of : Accounts, fresh : BOOLEAN]
      BY <3>3
    <3> QED BY <3>1, <3>2, <3>3
  <2>2. \A c \in Browsers : token'[c].of = token[c].of
    <3>1. token' = [token EXCEPT ![b] = k]
      BY <1>13 DEF Expires
    <3> HIDE DEF k
    <3> QED BY <1>2, <2>1, <3>1
  <2>3. UNCHANGED <<page, user, me, writer>>
    BY <1>13 DEF Expires
  <2> QED BY <1>4, <2>2, <2>3 DEF Agrees, TabAgrees, Ready, Last
<1>14. ASSUME Next,
              \A r \in requests : ~Granted(r),
              \A t \in Tabs : /\ ~Open(t) /\ ~MeSucceeds(t) /\ ~MeFails(t)
                              /\ ~Logout(t) /\ ~Close(t) /\ \A url \in Urls : ~Visit(t, url),
              \A b \in Browsers : ~Expires(b)
       PROVE  UNCHANGED pages
  BY <1>14 DEF Next, EnsureIndexes, SignupLookup, SignupInsert, LoginFind, HandlerFails,
               ConnectionLost, SubmitSignup, SubmitLogin, Send
<1>15. CASE UNCHANGED vars
  BY <1>5, <1>15 DEF vars, pages
<1> QED BY <1>5, <1>6, <1>7, <1>8, <1>9, <1>10, <1>11, <1>12, <1>13, <1>14, <1>15

(* The tab that last wrote the token runs its requests as the user it      *)
(* shows, whatever the other tabs, late answers and expiry do.             *)
THEOREM WriterIsRight == Spec => []WriterAgrees
<1>1. Agrees => WriterAgrees
  BY DEF Agrees, TabAgrees, Last, WriterAgrees
<1> QED BY <1>1, TypeAlways, AgreesInit, AgreesNext, PTL DEF Spec

-----------------------------------------------------------------------------
(* The right password.  With the index an address has one account, so that *)
(* the lookup finds this one, or one that has the address for its name.    *)
LEMMA OnlyMatch ==
    ASSUME TypeInv, Unique, index = "built", NEW i, NEW a \in DOMAIN users,
           users[a].mail = Lower(i),
           \A c \in DOMAIN users \ {a} : users[c].name # Lower(i)
    PROVE  Matches(i) = {a}
<1>1. DOMAIN users = Accounts
  BY TypeParts DEF StoreOK, Accounts
<1>2. \A b \in Accounts : users[b].mail = Lower(i) => b = a
  BY <1>1 DEF Unique
<1> QED BY <1>1, <1>2 DEF Matches

LEMMA RightIsGranted ==
    ASSUME TypeInv, Unique, index = "built", NEW r \in requests, LoginFind(r), r.tab # Gone,
           NEW a \in DOMAIN users, users[a].mail = Lower(r.ident),
           users[a].password = r.password,
           \A c \in DOMAIN users \ {a} : users[c].name # Lower(r.ident)
    PROVE  \E q \in requests' : q.id = r.id /\ q.stage = "granted" /\ q.of = a
<1> DEFINE q == [r EXCEPT !.stage = "granted", !.of = a]
<1>1. Matches(r.ident) = {a}
  BY OnlyMatch
<1>2. Grant(r, a)
  BY <1>1 DEF LoginFind, PasswordFits
<1>3. q.id = r.id /\ q.stage = "granted" /\ q.of = a
  BY TypeParts DEF RequestsOK, Request
<1> QED BY <1>2, <1>3 DEF Grant

(* Once the index is built, a login with the address of an account and its *)
(* password gets this account, however the address is typed and however    *)
(* many signups there were: only the name of another account can shadow it.*)
THEOREM NoOtherShadow == Spec => OnlyANameShadows
<1>1. TypeInv /\ Unique /\ [Next]_vars =>
        [index = "built" => \A r \in requests : LoginFind(r) /\ r.tab # Gone =>
            \A a \in DOMAIN users :
                users[a].mail = Lower(r.ident) /\ users[a].password = r.password
                    => \/ \E q \in requests' : q.id = r.id /\ q.stage = "granted" /\ q.of = a
                       \/ \E c \in DOMAIN users \ {a} : users[c].name = Lower(r.ident)]_vars
  BY RightIsGranted
<1> QED BY <1>1, TypeAlways, UniqueInit, UniqueNext, PTL DEF Spec, OnlyANameShadows
=============================================================================
