------------------------------ MODULE Accounts ------------------------------
(***************************************************************************)
(* Accounts and sessions: Signup, Login and Me of auth_controller.go with  *)
(* the users collection and its index (mongo_repo.go), and the browsers    *)
(* that keep the token (App.jsx, Login.jsx, Signup.jsx).  The token is in  *)
(* localStorage, which the tabs of a browser share; the signed-in user is  *)
(* in the memory of each tab.                                              *)
(*                                                                         *)
(* A handler is one action per database call.  Hashing, signing and the    *)
(* checks of a form are left out: a password is a value, and a token is    *)
(* the account it was made for and whether its 7 days are still running.   *)
(***************************************************************************)
EXTENDS Integers, Sequences, FiniteSets

CONSTANTS
    Mails,       \* mailboxes
    Names,       \* names of accounts, up to case; an address may be one
    Passwords,
    BrowserOf,   \* the browser of each tab
    Gone,        \* no tab
    Databases,   \* what users may hold when the server starts
    MaxRequests  \* bound on the signups and logins sent

Tabs     == DOMAIN BrowserOf
Browsers == {BrowserOf[t] : t \in Tabs}

(* A mailbox as typed or stored, and strings.ToLower of it.                *)
Address  == Mails \X {"lower", "mixed"}
Lower(e) == IF e \in Address THEN <<e[1], "lower">> ELSE e

(* A document of the users collection.                                     *)
Account == [mail : {Lower(e) : e \in Address}, name : Names, password : Passwords]

ASSUME NamesAssumption == \A n \in Names : Lower(n) = n
ASSUME DatabasesAssumption == \A db \in Databases :
    /\ db \in Seq(Account)
    /\ \A a, b \in DOMAIN db : db[a].mail = db[b].mail => a = b
ASSUME GoneAssumption == Gone \notin Tabs
ASSUME RequestsAssumption == MaxRequests \in Nat

VARIABLES
    index,       \* the unique index on email: "none", "built" or "failed"
    users,       \* the accounts, in the order they were made
    token,       \* auth_token of each browser
    page,        \* what each tab shows
    user,        \* the user state of each tab: an account, or 0
    me,          \* the token that the getMe of a starting tab was sent with
    requests,    \* signups and logins that are not answered yet
    sent,        \* how many were sent
    writer,      \* the tab that last wrote the token of a browser
    given        \* the passwords that were submitted from each browser

vars == <<index, users, token, page, user, me, requests, sent, writer, given>>
server == <<index, users>>
pages  == <<token, page, user, me, writer>>

Nobody  == 0
NoToken == [of |-> Nobody, fresh |-> FALSE]

(* GenerateToken.                                                          *)
TokenFor(a) == [of |-> a, fresh |-> TRUE]

(* A new database, or one with accounts and the index of an earlier run.   *)
Init ==
    /\ users \in Databases
    /\ index = IF users = <<>> THEN "none" ELSE "built"
    /\ token = [b \in Browsers |-> NoToken]
    /\ page = [t \in Tabs |-> "closed"] /\ user = [t \in Tabs |-> Nobody]
    /\ me = [t \in Tabs |-> NoToken]
    /\ requests = {} /\ sent = 0
    /\ writer = [b \in Browsers |-> Gone] /\ given = [b \in Browsers |-> {}]

SignedIn(t) == user[t] # Nobody \/ token[BrowserOf[t]] # NoToken

-----------------------------------------------------------------------------
(* The database.  connect builds the index, once; on a reconnect that is   *)
(* after requests are let through.  That it was not built is ignored.      *)

Duplicates == \E a, b \in DOMAIN users : a # b /\ users[a].mail = users[b].mail

(* A mistake: the index is taken to be there because it was asked for.     *)
EnsureIndexesUnchecked ==
    /\ index = "none" /\ index' = "built"
    /\ UNCHANGED <<users, pages, requests, sent, given>>

EnsureIndexes ==
    /\ index = "none"
    /\ index' \in IF Duplicates THEN {"failed"} ELSE {"built", "failed"}
    /\ UNCHANGED <<users, pages, requests, sent, given>>

WithMail(e) == {a \in DOMAIN users : users[a].mail = e}

(* A mistake: the address is compared as it was typed.                     *)
MatchesAsTyped(ident) == {a \in DOMAIN users :
    users[a].mail = ident \/ users[a].name = Lower(ident)}

(* GetUserByEmailOrName, by address or name in any case: FindOne may       *)
(* return any account that matches.                                        *)
Matches(ident) == {a \in DOMAIN users :
    users[a].mail = Lower(ident) \/ users[a].name = Lower(ident)}

(* An error reply changes nothing but the message under the form, and an   *)
(* answer to a tab that is gone nothing at all.                            *)
Refuse(r) == requests' = requests \ {r}

Insert(r) == requests' = (requests \ {r}) \union {[r EXCEPT !.stage = "insert"]}

Grant(r, a) == requests' = (requests \ {r}) \union
    IF r.tab = Gone THEN {} ELSE {[r EXCEPT !.stage = "granted", !.of = a]}

(* Any step of a handler may end in an error reply: bad input, the         *)
(* database (not connected, timed out, the index), the hash, the token.    *)
InHandler(r) == r.stage \in {"lookup", "insert", "find"}

HandlerFails(r) ==
    /\ InHandler(r)
    /\ Refuse(r)
    /\ UNCHANGED <<server, pages, sent, given>>

(* Signup: an account with this address is refused; an error of the lookup *)
(* counts as "none".                                                       *)
SignupLookup(r) ==
    /\ r.stage = "lookup"
    /\ (WithMail(Lower(r.ident)) # {} /\ Refuse(r)) \/ Insert(r)
    /\ UNCHANGED <<server, pages, sent, given>>

NewUser(r) == [mail |-> Lower(r.ident), name |-> r.name, password |-> r.password]

(* A mistake: only the lookup guards against a second account.             *)
NothingRefuses(u) == FALSE

IndexRefuses(u) == index = "built" /\ WithMail(u.mail) # {}

(* CreateUser, which may have inserted when it returns an error.           *)
SignupInsert(r) ==
    /\ r.stage = "insert" /\ ~IndexRefuses(NewUser(r))
    /\ users' = Append(users, NewUser(r))
    /\ Grant(r, Len(users) + 1) \/ Refuse(r)
    /\ UNCHANGED <<index, pages, sent, given>>

(* A mistake: the password of another account that matches will do.        *)
AnyPasswordFits(a, r) == \E c \in Matches(r.ident) : users[c].password = r.password

PasswordFits(a, r) == users[a].password = r.password

LoginFind(r) ==
    /\ r.stage = "find"
    /\ \/ Matches(r.ident) = {} /\ Refuse(r)
       \/ \E a \in Matches(r.ident) : IF PasswordFits(a, r) THEN Grant(r, a) ELSE Refuse(r)
    /\ UNCHANGED <<server, pages, sent, given>>

-----------------------------------------------------------------------------
(* A tab.  What a URL shows: PublicAuthRoute sends who is signed in to the *)
(* dashboard, ProtectedRoute everyone else to the form.                    *)

Urls == {"home", "form", "dashboard"}

Landing(url, in) == IF url = "home" THEN "home" ELSE IF in THEN "dashboard" ELSE "form"

Show(t, p) == page' = [page EXCEPT ![t] = p]
Ready(t)   == page[t] \in Urls

SetToken(t, k) ==
    /\ token' = [token EXCEPT ![BrowserOf[t]] = k]
    /\ writer' = [writer EXCEPT ![BrowserOf[t]] = t]

(* A tab is opened, or comes back after a reload.                          *)
Open(t) ==
    /\ page[t] = "closed"
    /\ IF token[BrowserOf[t]] = NoToken
       THEN \E url \in Urls : Show(t, Landing(url, FALSE)) /\ UNCHANGED me
       ELSE Show(t, "starting") /\ me' = [me EXCEPT ![t] = token[BrowserOf[t]]]
    /\ UNCHANGED <<server, token, user, requests, sent, writer, given>>

(* AuthMiddleware and Me answer the getMe of a starting tab.               *)
MeSucceeds(t) ==
    /\ page[t] = "starting" /\ me[t].fresh
    /\ user' = [user EXCEPT ![t] = me[t].of]
    /\ me' = [me EXCEPT ![t] = NoToken]
    /\ \E url \in Urls : Show(t, Landing(url, TRUE))
    /\ UNCHANGED <<server, token, requests, sent, writer, given>>

(* The token expired, or the request failed for any reason: the token of   *)
(* the browser, which another tab may have replaced, is removed.           *)
MeFails(t) ==
    /\ page[t] = "starting"
    /\ SetToken(t, NoToken)
    /\ me' = [me EXCEPT ![t] = NoToken]
    /\ \E url \in Urls : Show(t, Landing(url, FALSE))
    /\ UNCHANGED <<server, user, requests, sent, given>>

Visit(t, url) ==
    /\ Ready(t) /\ page[t] # Landing(url, SignedIn(t))
    /\ Show(t, Landing(url, SignedIn(t)))
    /\ UNCHANGED <<server, token, user, me, requests, sent, writer, given>>

(* A form can be left and opened again while its request is out.           *)
Send(t, r) ==
    /\ page[t] = "form" /\ sent < MaxRequests
    /\ sent' = sent + 1 /\ requests' = requests \union {r}
    /\ given' = [given EXCEPT ![BrowserOf[t]] = @ \union {r.password}]
    /\ UNCHANGED <<server, pages>>

SubmitSignup(t) == \E e \in Address, n \in Names, p \in Passwords :
    Send(t, [id |-> sent, tab |-> t, ident |-> e, name |-> n,
             password |-> p, stage |-> "lookup", of |-> Nobody])

SubmitLogin(t) == \E i \in Address \union Names, p \in Passwords :
    Send(t, [id |-> sent, tab |-> t, ident |-> i, name |-> i,
             password |-> p, stage |-> "find", of |-> Nobody])

(* The answer reaches the tab, wherever it is by now.                      *)
Granted(r) ==
    /\ r.stage = "granted"
    /\ SetToken(r.tab, TokenFor(r.of))
    /\ user' = [user EXCEPT ![r.tab] = r.of]
    /\ Show(r.tab, "dashboard")
    /\ Refuse(r)
    /\ UNCHANGED <<server, me, sent, given>>

(* fetch fails, or the tab is gone: a handler that was reached goes on.    *)
Orphan(R) == {[r EXCEPT !.tab = Gone] : r \in {q \in R : InHandler(q)}}

ConnectionLost(r) ==
    /\ r.tab # Gone
    /\ requests' = (requests \ {r}) \union Orphan({r})
    /\ UNCHANGED <<server, pages, sent, given>>

(* A mistake: the user state is kept until the next start.                 *)
LogoutOfToken(t) == SetToken(t, NoToken) /\ UNCHANGED user

LogoutOf(t) == SetToken(t, NoToken) /\ user' = [user EXCEPT ![t] = Nobody]

Logout(t) ==
    /\ Ready(t) /\ SignedIn(t)
    /\ LogoutOf(t)
    /\ Show(t, "form")
    /\ UNCHANGED <<server, me, requests, sent, given>>

Close(t) ==
    /\ page[t] # "closed"
    /\ Show(t, "closed") /\ user' = [user EXCEPT ![t] = Nobody]
    /\ me' = [me EXCEPT ![t] = NoToken]
    /\ LET mine == {r \in requests : r.tab = t}
       IN requests' = (requests \ mine) \union Orphan(mine)
    /\ UNCHANGED <<server, token, sent, writer, given>>

(* The 7 days of the token of a browser are over.                          *)
Expires(b) ==
    /\ token[b].fresh
    /\ token' = [token EXCEPT ![b].fresh = FALSE]
    /\ UNCHANGED <<server, page, user, me, requests, sent, writer, given>>

-----------------------------------------------------------------------------
Next ==
    \/ EnsureIndexes
    \/ \E r \in requests :
        \/ SignupLookup(r) \/ SignupInsert(r) \/ LoginFind(r) \/ HandlerFails(r)
        \/ Granted(r) \/ ConnectionLost(r)
    \/ \E t \in Tabs :
        \/ Open(t) \/ MeSucceeds(t) \/ MeFails(t) \/ SubmitSignup(t)
        \/ SubmitLogin(t) \/ Logout(t) \/ Close(t) \/ \E url \in Urls : Visit(t, url)
    \/ \E b \in Browsers : Expires(b)

Spec == Init /\ [][Next]_vars

-----------------------------------------------------------------------------
(* Properties.                                                             *)

Accounts == 1..Len(users)
Token == {NoToken} \union [of : Accounts, fresh : BOOLEAN]
Request ==
    [id : 0..MaxRequests, tab : Tabs \union {Gone}, ident : Address \union Names,
     name : Address \union Names, password : Passwords,
     stage : {"lookup", "insert", "find", "granted"}, of : Accounts \union {Nobody}]

(* Every variable has its type.                                            *)
TypeOK ==
    /\ index \in {"none", "built", "failed"}
    /\ users \in Seq(Account)
    /\ token \in [Browsers -> Token]
    /\ page \in [Tabs -> Urls \union {"closed", "starting"}]
    /\ user \in [Tabs -> Accounts \union {Nobody}]
    /\ me \in [Tabs -> Token]
    /\ requests \subseteq Request
    /\ sent \in 0..MaxRequests
    /\ writer \in [Browsers -> Tabs \union {Gone}]
    /\ given \in [Browsers -> SUBSET Passwords]

(* Once the index is there, a mailbox has one account, however it was      *)
(* typed and however many signups found it free at the same time.          *)
OneAccountPerMail ==
    index = "built" => \A a, b \in DOMAIN users :
        Lower(users[a].mail) = Lower(users[b].mail) => a = b

(* A token, the user a tab shows, and a reply on its way to it are of an   *)
(* account whose password was submitted from this browser, even when names *)
(* collide, tabs share the token and replies come late.                    *)
Earned(a, b) == a # Nobody => users[a].password \in given[b]

SessionIsEarned ==
    /\ \A b \in Browsers : Earned(token[b].of, b)
    /\ \A t \in Tabs : Earned(user[t], BrowserOf[t])
    /\ \A r \in requests : r.tab # Gone => Earned(r.of, BrowserOf[r.tab])

(* The tab that last wrote the token of its browser shows the account the  *)
(* token is for, and the dashboard only if there is one: requests of this  *)
(* tab run as the user it greets.                                          *)
WriterAgrees == \A t \in Tabs :
    Ready(t) /\ writer[BrowserOf[t]] = t =>
        /\ user[t] = token[BrowserOf[t]].of
        /\ page[t] = "dashboard" => user[t] # Nobody

(* With the index, a login with the address of an account, however typed,  *)
(* and its password gets that account, unless another one has taken the    *)
(* address for its name, which Signup allows: FindOne may return that one, *)
(* and the answer is "invalid email/username or password".                 *)
OnlyANameShadows ==
    [][index = "built" => \A r \in requests : LoginFind(r) /\ r.tab # Gone =>
        \A a \in DOMAIN users :
            users[a].mail = Lower(r.ident) /\ users[a].password = r.password
                => \/ \E q \in requests' : q.id = r.id /\ q.stage = "granted" /\ q.of = a
                   \/ \E c \in DOMAIN users \ {a} : users[c].name = Lower(r.ident)]_vars
=============================================================================
