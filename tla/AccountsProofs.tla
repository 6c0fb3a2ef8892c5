----------------------------- MODULE AccountsProofs -----------------------------
(***************************************************************************)
(* Proofs about Accounts, for any accounts, templates and browsers and any *)
(* number of changes.                                                      *)
(*                                                                         *)
(* The two counters of a row carry the argument: within a registration     *)
(* they only go up.  A password changes only with its session_epoch, so    *)
(* what a cookie or a login under way has of the present registration is   *)
(* out of date or has the password in force (CookieOK, RequestOK).         *)
(* Permissions change only with row_version, so what a page has shown of   *)
(* it is out of date or still so (SeenOK).                                 *)
(*                                                                         *)
(* The accounts implement Sessions: what a step does to an account ends    *)
(* exactly the sessions that the table of Sessions would end (SessionEnds).*)
(***************************************************************************)
EXTENDS Accounts, TLAPS

Statuses == {"absent", "approved", "disabled"}
AccountRow ==
    [status : Statuses, role : {"Admin", "User"}, id : Nat, version : Nat, epoch : Nat,
     secret : Nat, legacy : BOOLEAN, key : Templates \cup {Custom}, permissions : Bundles]
TemplateRow == [permissions : Bundles, version : Nat]
Cookie == [owner : People \cup {Nobody}, epoch : Nat, id : Nat, secret : Nat]
Logins == {"upgrade", "welcome"}
OnAccounts == Logins \cup {"verify", "password", "reset", "create", "disable", "enable", "delete", "permissions"}
Steps == OnAccounts \cup {"idle", "assign", "template"}
Subjects == People \cup Templates \cup (People \X Templates)

Typed ==
    /\ account \in [People -> AccountRow] /\ template \in [Templates -> TemplateRow]
    /\ cookie \in [Browsers -> Cookie]
    /\ pc \in [Browsers -> Steps] /\ on \in [Browsers -> SUBSET Subjects]
    /\ seen \in [Browsers -> [People -> AccountRow]]
    /\ shown \in [Browsers -> [Templates -> TemplateRow]]

\* An account that is not registered has nothing but its next id and its last secret.
AccountOK(row) ==
    /\ row.status = "absent" <=> row.version = 0
    /\ row.status = "absent" => row.epoch = 0 /\ row.key = Custom /\ row.permissions = NoBundle

\* A request about accounts is about accounts.
OnOK(b) ==
    /\ pc[b] \in OnAccounts => on[b] \subseteq People
    /\ pc[b] = "assign" => on[b] \subseteq People \X Templates
    /\ pc[b] = "template" => on[b] \subseteq Templates

\* held, a cookie or a row read before, is of an earlier registration than row, of an
\* earlier epoch, or has its password.
Dated(held, row) ==
    /\ held.id <= row.id
    /\ held.id = row.id =>
        /\ row.status # "absent"
        /\ held.epoch <= row.epoch
        /\ held.epoch = row.epoch => held.secret = row.secret

CookieOK(b) == cookie[b].owner # Nobody => Dated(cookie[b], account[cookie[b].owner])

RequestOK(b) == pc[b] \in Logins => \A p \in on[b] : Dated(seen[b][p], account[p])

\* held is of an earlier registration, of an earlier version, or has the permissions.
Shown(held, row) ==
    /\ held.id <= row.id
    /\ held.id = row.id =>
        /\ held.version <= row.version
        /\ held.version = row.version =>
            held.key = row.key /\ held.permissions = row.permissions

SeenOK(b) == \A p \in People : Shown(seen[b][p], account[p])

AccountsInv ==
    /\ Typed
    /\ \A p \in People : AccountOK(account[p])
    /\ \A b \in Browsers : OnOK(b) /\ CookieOK(b) /\ RequestOK(b) /\ SeenOK(b)

\* How one step may change the row of an account.
Evolves(old, new) ==
    /\ old.id <= new.id /\ old.secret <= new.secret
    /\ old.id = new.id =>
        /\ new.status = "absent" => old.status = "absent"
        /\ old.epoch <= new.epoch
        /\ new.epoch = old.epoch /\ old.status # "absent" => new.secret = old.secret
    /\ Shown(old, new)

-----------------------------------------------------------------------------
LEMMA NoRowTyped ==
    ASSUME NEW id \in Nat, NEW secret \in Nat
    PROVE  /\ NoRow(id, secret) \in AccountRow
           /\ NoRow(id, secret).id = id /\ NoRow(id, secret).secret = secret
           /\ NoRow(id, secret).version = 0 /\ NoRow(id, secret).status = "absent"
           /\ NoRow(id, secret).key = Custom /\ NoRow(id, secret).permissions = NoBundle
           /\ NoRow(id, secret).epoch = 0
BY AccountsAssumption DEF NoRow, AccountRow, Statuses

LEMMA BlankTyped == \A p : /\ Blank(p) \in AccountRow
                           /\ Blank(p).id = 0 /\ Blank(p).secret = 0
                           /\ Blank(p).version = 0 /\ Blank(p).status = "absent"
                           /\ Blank(p).key = Custom /\ Blank(p).permissions = NoBundle
                           /\ Blank(p).epoch = 0
BY NoRowTyped DEF Blank

LEMMA RegisteredTyped ==
    ASSUME NEW row \in AccountRow
    PROVE  /\ Registered(row) \in AccountRow
           /\ Registered(row).id = row.id /\ Registered(row).secret = row.secret + 1
           /\ Registered(row).version = 1 /\ Registered(row).status = "approved"
           /\ Registered(row).epoch = 0
           /\ row.id \in Nat /\ row.secret \in Nat
<1>1. row.id \in Nat /\ row.secret \in Nat /\ row.secret + 1 \in Nat
    BY DEF AccountRow
<1> PICK blank : blank = NoRow(row.id, row.secret + 1)
    OBVIOUS
<1>2. blank \in AccountRow /\ blank.id = row.id /\ blank.secret = row.secret + 1 /\ blank.epoch = 0
    BY <1>1, NoRowTyped
<1>3. Registered(row) = [blank EXCEPT !.status = "approved", !.version = 1]
    BY DEF Registered
<1>4. /\ Registered(row).id = blank.id /\ Registered(row).secret = blank.secret
      /\ Registered(row).version = 1 /\ Registered(row).status = "approved"
      /\ Registered(row).epoch = blank.epoch
    BY <1>2, <1>3 DEF AccountRow
<1>5. Registered(row) \in AccountRow
    <2>1. ASSUME NEW v \in Nat PROVE [blank EXCEPT !.status = "approved", !.version = v] \in AccountRow
        BY <1>2 DEF AccountRow, Statuses
    <2> QED
        BY <1>3, <2>1
<1> QED
    BY <1>1, <1>2, <1>4, <1>5

LEMMA NoTemplateTyped == NoTemplate \in TemplateRow
BY AccountsAssumption DEF NoTemplate, TemplateRow

LEMMA NoCookieTyped == NoCookie \in Cookie /\ NoCookie.owner = Nobody
BY DEF NoCookie, Cookie

LEMMA BlankShown ==
    ASSUME NEW p, NEW row \in AccountRow, AccountOK(row)
    PROVE  Shown(Blank(p), row)
BY BlankTyped DEF Shown, AccountOK, AccountRow

LEMMA AccountsInit == Init => AccountsInv
<1> SUFFICES ASSUME Init PROVE AccountsInv
    OBVIOUS
<1>1. PICK registered \in SUBSET People, first \in Bundles :
        /\ account = [p \in People |->
                        IF p \in registered
                        THEN [Registered(Blank(p)) EXCEPT
                                !.legacy = p \in Legacy, !.role = IF p \in Admins THEN "Admin" ELSE "User"]
                        ELSE Blank(p)]
        /\ template = [t \in Templates |-> [permissions |-> first, version |-> 1]]
    BY DEF Init
<1>2. ASSUME NEW p \in People PROVE account[p] \in AccountRow /\ AccountOK(account[p])
    <2>1. CASE p \in registered
        <3> PICK row : row = Registered(Blank(p))
            OBVIOUS
        <3> PICK legacy \in BOOLEAN : legacy <=> (p \in Legacy)
            OBVIOUS
        <3> PICK role \in {"Admin", "User"} : role = IF p \in Admins THEN "Admin" ELSE "User"
            OBVIOUS
        <3>0. row \in AccountRow /\ row.version = 1 /\ row.status = "approved"
            BY BlankTyped, RegisteredTyped
        <3>1. account[p] = [row EXCEPT !.legacy = (p \in Legacy), !.role = role]
            BY <1>1, <2>1
        <3>2. /\ account[p] \in AccountRow /\ account[p].version = 1
              /\ account[p].status = "approved"
            BY <3>0, <3>1 DEF AccountRow
        <3> QED
            BY <3>2 DEF AccountOK
    <2>2. CASE p \notin registered
        BY <1>1, <2>2, BlankTyped DEF AccountOK
    <2> QED
        BY <2>1, <2>2
<1>3. \A t \in Templates : template[t] \in TemplateRow
    BY <1>1 DEF TemplateRow
<1>4. /\ cookie \in [Browsers -> Cookie]
      /\ pc \in [Browsers -> Steps] /\ on \in [Browsers -> SUBSET Subjects]
      /\ seen \in [Browsers -> [People -> AccountRow]]
      /\ shown \in [Browsers -> [Templates -> TemplateRow]]
    BY BlankTyped, NoTemplateTyped, NoCookieTyped DEF Init, Steps
<1>5. Typed
    BY <1>1, <1>2, <1>3, <1>4 DEF Typed
<1>6. ASSUME NEW b \in Browsers PROVE OnOK(b) /\ CookieOK(b) /\ RequestOK(b) /\ SeenOK(b)
    <2>1. pc[b] = "idle" /\ cookie[b] = NoCookie /\ seen[b] = [p \in People |-> Blank(p)]
        BY DEF Init
    <2>2. OnOK(b) /\ CookieOK(b) /\ RequestOK(b)
        BY <2>1, NoCookieTyped DEF OnOK, CookieOK, RequestOK, OnAccounts, Logins
    <2>3. SeenOK(b)
        <3> SUFFICES ASSUME NEW p \in People PROVE Shown(seen[b][p], account[p])
            BY DEF SeenOK
        <3> QED
            BY <1>2, <2>1, BlankShown
    <2> QED
        BY <2>2, <2>3
<1> QED
    BY <1>2, <1>5, <1>6 DEF AccountsInv

-----------------------------------------------------------------------------
\* What a step of b must be shown to do to the rest of the state.
OthersStay(b) ==
    \A c \in Browsers \ {b} :
        pc'[c] = pc[c] /\ on'[c] = on[c] /\ seen'[c] = seen[c] /\ cookie'[c] = cookie[c]
AllEvolve == \A p \in People : AccountOK(account'[p]) /\ Evolves(account[p], account'[p])

LEMMA DatedKept ==
    ASSUME NEW held, held.id \in Nat, held.epoch \in Nat,
           NEW old \in AccountRow, NEW new \in AccountRow, Dated(held, old), Evolves(old, new)
    PROVE  Dated(held, new)
<1>1. /\ old.id \in Nat /\ old.epoch \in Nat /\ new.id \in Nat /\ new.epoch \in Nat
    BY DEF AccountRow
<1> QED
    BY <1>1 DEF Dated, Evolves

LEMMA ShownKept ==
    ASSUME NEW held \in AccountRow, NEW old \in AccountRow, NEW new \in AccountRow,
           Shown(held, old), Evolves(old, new)
    PROVE  Shown(held, new)
<1>1. /\ held.id \in Nat /\ old.id \in Nat /\ new.id \in Nat
      /\ held.version \in Nat /\ old.version \in Nat /\ new.version \in Nat
    BY DEF AccountRow
<1> QED
    BY <1>1 DEF Shown, Evolves

LEMMA CookieKept ==
    ASSUME AccountsInv, Typed', AllEvolve, NEW b \in Browsers, cookie'[b] = cookie[b]
    PROVE  CookieOK(b)'
<1> PICK p : p = cookie[b].owner
    OBVIOUS
<1> SUFFICES ASSUME p # Nobody
             PROVE  Dated(cookie[b], account'[p])
    BY DEF CookieOK
<1>1. p \in People /\ cookie[b].epoch \in Nat /\ cookie[b].id \in Nat
    BY DEF AccountsInv, Typed, Cookie
<1>2. account[p] \in AccountRow /\ account'[p] \in AccountRow
    BY <1>1 DEF AccountsInv, Typed
<1>3. Dated(cookie[b], account[p])
    BY <1>1 DEF AccountsInv, CookieOK
<1>4. Evolves(account[p], account'[p])
    BY <1>1 DEF AllEvolve
<1> QED
    BY <1>1, <1>2, <1>3, <1>4, DatedKept

LEMMA RequestKept ==
    ASSUME AccountsInv, Typed', AllEvolve, NEW b \in Browsers,
           pc'[b] \in Logins, pc[b] \in Logins, on'[b] = on[b], seen'[b] = seen[b]
    PROVE  RequestOK(b)'
<1> SUFFICES ASSUME NEW p \in on[b]
             PROVE  Dated(seen[b][p], account'[p])
    BY DEF RequestOK
<1>1. p \in People
    BY DEF AccountsInv, OnOK, OnAccounts
<1>2. /\ account[p] \in AccountRow /\ account'[p] \in AccountRow
      /\ seen[b][p].epoch \in Nat /\ seen[b][p].id \in Nat
    BY <1>1 DEF AccountsInv, Typed, AccountRow
<1>3. Dated(seen[b][p], account[p])
    BY <1>1 DEF AccountsInv, RequestOK
<1>4. Evolves(account[p], account'[p])
    BY <1>1 DEF AllEvolve
<1> QED
    BY <1>2, <1>3, <1>4, DatedKept

LEMMA SeenKept ==
    ASSUME AccountsInv, Typed', AllEvolve, NEW b \in Browsers, seen'[b] = seen[b]
    PROVE  SeenOK(b)'
<1> SUFFICES ASSUME NEW p \in People
             PROVE  Shown(seen[b][p], account'[p])
    BY DEF SeenOK
<1>1. seen[b][p] \in AccountRow /\ account[p] \in AccountRow /\ account'[p] \in AccountRow
    BY DEF AccountsInv, Typed
<1>2. Shown(seen[b][p], account[p])
    BY DEF AccountsInv, SeenOK
<1>3. Evolves(account[p], account'[p])
    BY DEF AllEvolve
<1> QED
    BY <1>1, <1>2, <1>3, ShownKept

LEMMA InvKept ==
    ASSUME AccountsInv, Typed', AllEvolve, NEW b \in Browsers, OthersStay(b),
           OnOK(b)', CookieOK(b)', RequestOK(b)', SeenOK(b)'
    PROVE  AccountsInv' /\ AllEvolve
<1>1. ASSUME NEW c \in Browsers \ {b}
      PROVE  OnOK(c)' /\ CookieOK(c)' /\ RequestOK(c)' /\ SeenOK(c)'
    <2>1. pc'[c] = pc[c] /\ on'[c] = on[c] /\ seen'[c] = seen[c] /\ cookie'[c] = cookie[c]
        BY DEF OthersStay
    <2>2. OnOK(c)'
        BY <2>1 DEF AccountsInv, OnOK
    <2>3. pc'[c] \notin Logins => RequestOK(c)'
        BY DEF RequestOK
    <2> QED
        BY <2>1, <2>2, <2>3, CookieKept, RequestKept, SeenKept
<1> QED
    BY <1>1 DEF AccountsInv, AllEvolve

\* The end of a request: the browser keeps its cookie at most.
LEMMA DoneTyped ==
    ASSUME Typed, NEW b \in Browsers, Done(b)
    PROVE  /\ pc' \in [Browsers -> Steps] /\ on' \in [Browsers -> SUBSET Subjects]
           /\ seen' \in [Browsers -> [People -> AccountRow]]
           /\ shown' \in [Browsers -> [Templates -> TemplateRow]]
           /\ pc'[b] = "idle" /\ seen'[b] = [p \in People |-> Blank(p)]
           /\ \A c \in Browsers \ {b} : pc'[c] = pc[c] /\ on'[c] = on[c] /\ seen'[c] = seen[c]
BY BlankTyped, NoTemplateTyped DEF Done, Typed, Steps

LEMMA DoneKept ==
    ASSUME AccountsInv, NEW b \in Browsers, Done(b),
           account' \in [People -> AccountRow], template' \in [Templates -> TemplateRow],
           cookie' \in [Browsers -> Cookie],
           \A c \in Browsers \ {b} : cookie'[c] = cookie[c],
           AllEvolve, cookie'[b] = cookie[b] \/ CookieOK(b)'
    PROVE  AccountsInv' /\ AllEvolve
<1>0. Typed
    BY DEF AccountsInv
<1>1. Typed' /\ OthersStay(b)
    BY <1>0, DoneTyped DEF Typed, OthersStay
<1>2. CookieOK(b)'
    BY <1>1, CookieKept
<1>3. OnOK(b)' /\ RequestOK(b)'
    BY <1>0, DoneTyped DEF OnOK, RequestOK, OnAccounts, Logins
<1>4. SeenOK(b)'
    <2> SUFFICES ASSUME NEW p \in People
                 PROVE  Shown(seen'[b][p], account'[p])
        BY DEF SeenOK
    <2>1. seen'[b][p] = Blank(p)
        BY <1>0, DoneTyped
    <2>2. AccountOK(account'[p]) /\ account'[p] \in AccountRow
        BY DEF AllEvolve
    <2> QED
        BY <2>1, <2>2, BlankShown
<1> QED
    BY <1>1, <1>2, <1>3, <1>4, InvKept

LEMMA RowSame == \A row \in AccountRow : Evolves(row, row)
BY DEF Evolves, Shown, AccountRow

\* One account takes a row that evolves from its own.
LEMMA ChangeEvolves ==
    ASSUME AccountsInv, NEW p \in People, NEW row \in AccountRow,
           AccountOK(row), Evolves(account[p], row),
           account' = account \/ account' = [account EXCEPT ![p] = row]
    PROVE  account' \in [People -> AccountRow] /\ AllEvolve
<1>1. /\ account' \in [People -> AccountRow]
      /\ \A q \in People : account'[q] = account[q] \/ (q = p /\ account'[q] = row)
    BY DEF AccountsInv, Typed
<1>2. ASSUME NEW q \in People PROVE Evolves(account[q], account[q]) /\ AccountOK(account[q])
    BY RowSame DEF AccountsInv, Typed
<1> QED
    BY <1>1, <1>2 DEF AllEvolve

LEMMA NoneEvolves ==
    ASSUME AccountsInv, account' = account
    PROVE  account' \in [People -> AccountRow] /\ AllEvolve
BY RowSame DEF AccountsInv, Typed, AllEvolve

-----------------------------------------------------------------------------
\* The first step of a request reads accounts and templates.
LEMMA ReadKept ==
    ASSUME AccountsInv, NEW b \in Browsers, NEW a \in Steps, NEW S \in SUBSET Subjects,
           NEW P, NEW T, ReadAll(b, a, S, P, T),
           a \in OnAccounts => S \subseteq People,
           a = "template" => S \subseteq Templates,
           a # "assign",
           a \in Logins => \A p \in S : p \in P /\ account[p].status # "absent"
    PROVE  AccountsInv' /\ AllEvolve
<1>0. Typed /\ \A p \in People : AccountOK(account[p])
    BY DEF AccountsInv
<1>1. /\ pc' \in [Browsers -> Steps] /\ on' \in [Browsers -> SUBSET Subjects]
      /\ UNCHANGED <<account, template, cookie>>
      /\ pc'[b] = a /\ on'[b] = S
      /\ seen' = [seen EXCEPT ![b] = [p \in People |-> IF p \in P THEN account[p] ELSE Blank(p)]]
      /\ shown' = [shown EXCEPT ![b] = [t \in Templates |-> IF t \in T THEN template[t] ELSE NoTemplate]]
      /\ \A c \in Browsers \ {b} : pc'[c] = pc[c] /\ on'[c] = on[c]
    BY <1>0 DEF ReadAll, Typed
<1>2. /\ [p \in People |-> IF p \in P THEN account[p] ELSE Blank(p)] \in [People -> AccountRow]
      /\ [t \in Templates |-> IF t \in T THEN template[t] ELSE NoTemplate] \in [Templates -> TemplateRow]
    BY <1>0, BlankTyped, NoTemplateTyped DEF Typed
<1>3. /\ seen' \in [Browsers -> [People -> AccountRow]]
      /\ shown' \in [Browsers -> [Templates -> TemplateRow]]
      /\ \A p \in People : seen'[b][p] = IF p \in P THEN account[p] ELSE Blank(p)
      /\ \A c \in Browsers \ {b} : seen'[c] = seen[c]
    BY <1>0, <1>1, <1>2 DEF Typed
<1>4. Typed'
    BY <1>0, <1>1, <1>3 DEF Typed
<1>5. AllEvolve
    BY <1>1, NoneEvolves
<1>6. OthersStay(b)
    BY <1>1, <1>3 DEF OthersStay
<1>7. CookieOK(b)'
    BY <1>1, <1>4, <1>5, CookieKept
<1>8. OnOK(b)'
    BY <1>1 DEF OnOK
<1>9. RequestOK(b)'
    <2> SUFFICES ASSUME a \in Logins, NEW p \in S
                 PROVE  Dated(seen'[b][p], account'[p])
        BY <1>1 DEF RequestOK
    <2>1. p \in People /\ p \in P /\ account[p].status # "absent"
        BY DEF OnAccounts
    <2>2. seen'[b][p] = account[p] /\ account'[p] = account[p] /\ account[p] \in AccountRow
        BY <1>0, <1>1, <1>3, <2>1 DEF Typed
    <2> QED
        BY <2>1, <2>2 DEF Dated, AccountRow
<1>10. SeenOK(b)'
    <2> SUFFICES ASSUME NEW p \in People
                 PROVE  Shown(seen'[b][p], account[p])
        BY <1>1 DEF SeenOK
    <2>1. seen'[b][p] = account[p] \/ seen'[b][p] = Blank(p)
        BY <1>3
    <2>2. account[p] \in AccountRow /\ AccountOK(account[p])
        BY <1>0 DEF Typed
    <2> QED
        BY <2>1, <2>2, BlankShown, RowSame DEF Evolves
<1> QED
    BY <1>4, <1>5, <1>6, <1>7, <1>8, <1>9, <1>10, InvKept

LEMMA ReadSteps ==
    ASSUME AccountsInv, NEW b \in Browsers,
           \/ \E p \in People : LoginRead(b, p) \/ ResetRead(b, p) \/ CreateRead(b, p)
                                \/ StatusRead(b, p) \/ DeleteRead(b, p) \/ PermissionsPage(b, p)
           \/ PasswordAsk(b)
           \/ \E t \in Templates : TemplatePage(b, t)
    PROVE  AccountsInv' /\ AllEvolve
<1>1. ASSUME NEW p \in People, NEW a \in OnAccounts, NEW P, NEW T, ReadAll(b, a, {p}, P, T),
             a \in Logins => p \in P /\ account[p].status # "absent"
      PROVE  AccountsInv' /\ AllEvolve
    <2>1. a \in Steps /\ {p} \in SUBSET Subjects /\ {p} \subseteq People
          /\ a # "assign" /\ a # "template"
        BY DEF Steps, OnAccounts, Logins, Subjects
    <2> QED
        BY <1>1, <2>1, ReadKept
<1>2. ASSUME NEW p \in People, LoginRead(b, p) PROVE AccountsInv' /\ AllEvolve
    <2>1. account[p].status = "approved"
          /\ \E a \in {"upgrade", "welcome"} : ReadAll(b, a, {p}, {p}, {})
        BY <1>2 DEF LoginRead, Read
    <2> QED
        BY <1>1, <2>1 DEF OnAccounts, Logins
<1>3. ASSUME NEW p \in People,
             \/ ResetRead(b, p) \/ CreateRead(b, p)
             \/ StatusRead(b, p) \/ DeleteRead(b, p) \/ PermissionsPage(b, p)
      PROVE  AccountsInv' /\ AllEvolve
    <2>1. \E a \in OnAccounts \ Logins, T \in {{}, Templates} :
            ReadAll(b, a, {p}, {p}, T)
        BY <1>3 DEF ResetRead, CreateRead, StatusRead, DeleteRead, PermissionsPage, Read,
            OnAccounts, Logins
    <2> QED
        BY <1>1, <2>1
<1>4. CASE PasswordAsk(b)
    <2>1. cookie[b].owner \in People /\ ReadAll(b, "verify", {cookie[b].owner}, {}, {})
        BY <1>4 DEF PasswordAsk, SignedIn, Honoured, AccountsInv, Typed, Cookie
    <2> QED
        BY <1>1, <2>1 DEF OnAccounts, Logins
<1>5. ASSUME NEW t \in Templates, TemplatePage(b, t) PROVE AccountsInv' /\ AllEvolve
    <2>1. ReadAll(b, "template", {t}, People, {t})
        BY <1>5 DEF TemplatePage
    <2>2. "template" \in Steps /\ "template" \notin OnAccounts /\ {t} \in SUBSET Subjects
        BY DEF Steps, OnAccounts, Logins, Subjects
    <2> QED
        BY <2>1, <2>2, ReadKept DEF Logins
<1> QED
    BY <1>2, <1>3, <1>4, <1>5

\* The batches about one account that leave the cookies and templates alone.
LEMMA OneAccount ==
    ASSUME AccountsInv, NEW b \in Browsers, Done(b), UNCHANGED <<template, cookie>>,
           NEW p \in People, NEW row \in AccountRow,
           AccountOK(row), Evolves(account[p], row),
           account' = account \/ account' = [account EXCEPT ![p] = row]
    PROVE  AccountsInv' /\ AllEvolve
BY ChangeEvolves, DoneKept DEF AccountsInv, Typed

LEMMA NoAccount ==
    ASSUME AccountsInv, NEW b \in Browsers, Done(b), UNCHANGED <<account, cookie>>,
           template' \in [Templates -> TemplateRow]
    PROVE  AccountsInv' /\ AllEvolve
BY NoneEvolves, DoneKept DEF AccountsInv, Typed

\* The rows that the batches write.
LEMMA RowsTyped ==
    ASSUME AccountsInv, NEW p \in People
    PROVE  /\ account[p] \in AccountRow /\ AccountOK(account[p]) /\ Evolves(account[p], account[p])
           /\ account[p].version \in Nat /\ account[p].epoch \in Nat /\ account[p].secret \in Nat
           /\ account[p].id \in Nat
<1>1. account[p] \in AccountRow /\ AccountOK(account[p])
    BY DEF AccountsInv, Typed
<1> QED
    BY <1>1, RowSame DEF AccountRow

LEMMA RenewedRow ==
    ASSUME AccountsInv, NEW p \in People, account[p].status # "absent"
    PROVE  /\ Renewed(p) \in AccountRow /\ AccountOK(Renewed(p)) /\ Evolves(account[p], Renewed(p))
           /\ Renewed(p).status = account[p].status /\ Renewed(p).id = account[p].id
           /\ Renewed(p).secret = account[p].secret + 1 /\ Renewed(p).secret > account[p].secret
           /\ Renewed(p).epoch = account[p].epoch + 1 /\ Renewed(p).epoch > account[p].epoch
<1>0. /\ account[p] \in AccountRow /\ AccountOK(account[p])
      /\ account[p].epoch + 1 \in Nat /\ account[p].secret + 1 \in Nat
    BY RowsTyped
<1> PICK stored : stored = [account[p] EXCEPT !.secret = account[p].secret + 1, !.legacy = FALSE]
    OBVIOUS
<1>1. /\ stored \in AccountRow /\ stored.secret = account[p].secret + 1
      /\ stored.epoch = account[p].epoch /\ stored.status = account[p].status
      /\ stored.version = account[p].version /\ stored.id = account[p].id
      /\ stored.key = account[p].key /\ stored.permissions = account[p].permissions
    BY <1>0 DEF AccountRow
<1>2. Renewed(p) = [stored EXCEPT !.epoch = @ + 1]
    BY DEF Renewed, Stored, NextEpoch
<1>3. /\ Renewed(p) \in AccountRow /\ Renewed(p).secret = account[p].secret + 1
      /\ Renewed(p).epoch = account[p].epoch + 1 /\ Renewed(p).status = account[p].status
      /\ Renewed(p).version = account[p].version /\ Renewed(p).id = account[p].id
      /\ Renewed(p).key = account[p].key /\ Renewed(p).permissions = account[p].permissions
    BY <1>0, <1>1, <1>2 DEF AccountRow
<1> QED
    BY <1>0, <1>3 DEF AccountOK, Evolves, Shown, AccountRow

LEMMA RegisteredRow ==
    ASSUME AccountsInv, NEW p \in People, account[p].status = "absent"
    PROVE  /\ Registered(account[p]) \in AccountRow /\ AccountOK(Registered(account[p]))
           /\ Evolves(account[p], Registered(account[p]))
<1>1. /\ account[p] \in AccountRow /\ account[p].epoch = 0 /\ account[p].version = 0
      /\ account[p].secret \in Nat /\ account[p].id \in Nat
    BY RowsTyped DEF AccountOK
<1> PICK row : row = Registered(account[p])
    OBVIOUS
<1>2. /\ row \in AccountRow /\ row.id = account[p].id /\ row.secret = account[p].secret + 1
      /\ row.version = 1 /\ row.status = "approved" /\ row.epoch = 0
    BY <1>1, RegisteredTyped
<1>3. AccountOK(row) /\ Evolves(account[p], row)
    BY <1>1, <1>2 DEF AccountOK, Evolves, Shown
<1> QED
    BY <1>2, <1>3

LEMMA MovedRow ==
    ASSUME AccountsInv, NEW p \in People, account[p].status # "absent",
           NEW status \in {"approved", "disabled"}
    PROVE  /\ Moved(p, status) \in AccountRow /\ AccountOK(Moved(p, status))
           /\ Evolves(account[p], Moved(p, status))
           /\ Moved(p, status).status = status /\ Moved(p, status).secret = account[p].secret
           /\ Moved(p, status).id = account[p].id /\ Moved(p, status).epoch > account[p].epoch
<1>0. /\ account[p] \in AccountRow /\ AccountOK(account[p])
      /\ account[p].epoch + 1 \in Nat /\ account[p].version + 1 \in Nat
      /\ account[p].epoch \in Nat /\ account[p].version \in Nat /\ account[p].secret \in Nat
    BY RowsTyped
<1> PICK e \in Nat, v \in Nat : e = account[p].epoch + 1 /\ v = account[p].version + 1
    BY <1>0
<1>1. Moved(p, status) = [account[p] EXCEPT !.status = status, !.epoch = e, !.version = v]
    BY DEF Moved
<1>2. /\ Moved(p, status) \in AccountRow /\ Moved(p, status).status = status
      /\ Moved(p, status).epoch = e /\ Moved(p, status).version = v
      /\ Moved(p, status).secret = account[p].secret /\ Moved(p, status).id = account[p].id
    BY <1>0, <1>1 DEF AccountRow, Statuses
<1>3. AccountOK(Moved(p, status)) /\ Evolves(account[p], Moved(p, status))
    BY <1>0, <1>2 DEF AccountOK, Evolves, Shown, AccountRow
<1>4. Moved(p, status).epoch > account[p].epoch
    BY <1>0, <1>2
<1> QED
    BY <1>2, <1>3, <1>4

LEMMA DeletedRow ==
    ASSUME AccountsInv, NEW p \in People, NEW row,
           row = NoRow(account[p].id + 1, account[p].secret)
    PROVE  /\ row \in AccountRow /\ AccountOK(row) /\ Evolves(account[p], row)
           /\ row.status = "absent" /\ row.id > account[p].id /\ row.secret = account[p].secret
<1>0. account[p].id \in Nat /\ account[p].id + 1 \in Nat /\ account[p].secret \in Nat
    BY RowsTyped
<1>1. /\ row \in AccountRow /\ row.status = "absent" /\ row.epoch = 0 /\ row.version = 0
      /\ row.id = account[p].id + 1 /\ row.secret = account[p].secret
      /\ row.key = Custom /\ row.permissions = NoBundle
    BY <1>0, NoRowTyped
<1> QED
    BY <1>0, <1>1 DEF AccountOK, Evolves, Shown

LEMMA AssignedRow ==
    ASSUME AccountsInv, NEW p \in People, account[p].status # "absent",
           NEW t \in Templates, NEW permissions \in Bundles
    PROVE  /\ Assigned(p, t, permissions) \in AccountRow
           /\ AccountOK(Assigned(p, t, permissions))
           /\ Evolves(account[p], Assigned(p, t, permissions))
           /\ Assigned(p, t, permissions).key = t
           /\ Assigned(p, t, permissions).permissions = permissions
<1>0. /\ account[p] \in AccountRow /\ AccountOK(account[p]) /\ account[p].version + 1 \in Nat
      /\ account[p].epoch \in Nat /\ account[p].version \in Nat /\ account[p].secret \in Nat
      /\ account[p].id \in Nat
    BY RowsTyped
<1> PICK v \in Nat : v = account[p].version + 1
    BY <1>0
<1>1. Assigned(p, t, permissions)
        = [account[p] EXCEPT !.key = t, !.permissions = permissions, !.version = v]
    BY DEF Assigned
<1>2. /\ Assigned(p, t, permissions) \in AccountRow
      /\ Assigned(p, t, permissions).status = account[p].status
      /\ Assigned(p, t, permissions).id = account[p].id
      /\ Assigned(p, t, permissions).epoch = account[p].epoch
      /\ Assigned(p, t, permissions).secret = account[p].secret
      /\ Assigned(p, t, permissions).version = v
      /\ Assigned(p, t, permissions).key = t
      /\ Assigned(p, t, permissions).permissions = permissions
    BY <1>0, <1>1 DEF AccountRow
<1> QED
    BY <1>0, <1>2 DEF AccountOK, Evolves, Shown

LEMMA CommitSteps ==
    ASSUME AccountsInv, NEW b \in Browsers,
           ResetCommit(b) \/ CreateCommit(b) \/ StatusCommit(b) \/ DeleteCommit(b)
    PROVE  AccountsInv' /\ AllEvolve
<1>0. Done(b) /\ UNCHANGED <<template, cookie>>
    BY DEF ResetCommit, CreateCommit, StatusCommit, DeleteCommit, Commit
<1>1. ASSUME NEW p \in People, NEW row \in AccountRow, AccountOK(row), Evolves(account[p], row),
             Change(p, row) \/ NoChange
      PROVE  AccountsInv' /\ AllEvolve
    BY <1>0, <1>1, OneAccount DEF Change, NoChange
<1>2. \A p : p \in on[b] /\ pc[b] \in OnAccounts => p \in People
    BY DEF AccountsInv, OnOK
<1>3. NoChange => AccountsInv' /\ AllEvolve
    BY <1>0, NoAccount DEF NoChange, AccountsInv, Typed
<1>4. CASE ResetCommit(b)
    <2>1. PICK p \in on[b] : NoChange \/ (account[p].status # "absent" /\ Change(p, Renewed(p)))
        BY <1>4 DEF ResetCommit, Commit, SameRow
    <2>2. p \in People
        BY <1>2, <1>4 DEF ResetCommit, Commit, OnAccounts
    <2> QED
        BY <1>1, <1>3, <2>1, <2>2, RenewedRow
<1>5. CASE CreateCommit(b)
    <2>1. PICK p \in on[b] : \/ NoChange
                             \/ account[p].status = "absent" /\ Change(p, Registered(account[p]))
        BY <1>5 DEF CreateCommit, Commit
    <2>2. p \in People
        BY <1>2, <1>5 DEF CreateCommit, Commit, OnAccounts
    <2> QED
        BY <1>1, <1>3, <2>1, <2>2, RegisteredRow
<1>6. CASE StatusCommit(b)
    <2>1. PICK p \in on[b] :
            \/ NoChange
            \/ /\ account[p].status # "absent"
               /\ Change(p, Moved(p, "disabled")) \/ Change(p, Moved(p, "approved"))
        BY <1>6 DEF StatusCommit, Commit, SameRow
    <2>2. p \in People
        BY <1>2, <1>6 DEF StatusCommit, Commit, OnAccounts
    <2> QED
        BY <1>1, <1>3, <2>1, <2>2, MovedRow
<1>7. CASE DeleteCommit(b)
    <2>1. PICK p \in on[b] :
            NoChange \/ Change(p, NoRow(account[p].id + 1, account[p].secret))
        BY <1>7 DEF DeleteCommit, Commit
    <2>2. p \in People
        BY <1>2, <1>7 DEF DeleteCommit, Commit, OnAccounts
    <2> QED
        BY <1>1, <1>3, <2>1, <2>2, DeletedRow
<1> QED
    BY <1>4, <1>5, <1>6, <1>7

\* The login that stores a password again finds the one that it has verified.
LEMMA UpgradeStep ==
    ASSUME AccountsInv, NEW b \in Browsers, LoginUpgrade(b)
    PROVE  AccountsInv' /\ AllEvolve
<1>0. /\ pc[b] = "upgrade" /\ on[b] \subseteq People
      /\ UNCHANGED <<template, cookie, on, seen, shown>>
      /\ pc' = [pc EXCEPT ![b] = "welcome"]
    BY DEF LoginUpgrade, AccountsInv, OnOK, OnAccounts, Logins
<1>1. PICK p \in on[b] :
        account' = [account EXCEPT ![p] =
                        IF StoredAsRead(b, p)
                        THEN Stored(@, seen[b][p].secret)
                        ELSE @]
    BY DEF LoginUpgrade
<1>2. p \in People
    BY <1>0
<1> PICK row : row = Stored(account[p], account[p].secret)
    OBVIOUS
<1>3. account' = account \/ account' = [account EXCEPT ![p] = row]
    <2>1. CASE StoredAsRead(b, p)
        BY <1>1, <1>2, <2>1 DEF StoredAsRead
    <2>2. CASE ~StoredAsRead(b, p)
        BY <1>1, <1>2, <2>2 DEF AccountsInv, Typed
    <2> QED
        BY <2>1, <2>2
<1>4. row \in AccountRow /\ AccountOK(row) /\ Evolves(account[p], row)
    <2>1. /\ row \in AccountRow /\ row.status = account[p].status /\ row.version = account[p].version
          /\ row.epoch = account[p].epoch /\ row.secret = account[p].secret
          /\ row.id = account[p].id
          /\ row.key = account[p].key /\ row.permissions = account[p].permissions
        BY <1>2, RowsTyped DEF Stored, AccountRow
    <2> QED
        BY <1>2, <2>1, RowsTyped DEF AccountOK, Evolves, Shown
<1>5. account' \in [People -> AccountRow] /\ AllEvolve
    BY <1>2, <1>3, <1>4, ChangeEvolves
<1>6. /\ Typed' /\ OthersStay(b) /\ pc'[b] = "welcome"
    BY <1>0, <1>5 DEF AccountsInv, Typed, OthersStay, Steps, OnAccounts, Logins
<1>7. OnOK(b)'
    BY <1>0, <1>6 DEF OnOK
<1>8. CookieOK(b)' /\ RequestOK(b)' /\ SeenOK(b)'
    BY <1>0, <1>5, <1>6, CookieKept, RequestKept, SeenKept DEF Logins
<1> QED
    BY <1>5, <1>6, <1>7, <1>8, InvKept

LEMMA LoginStep ==
    ASSUME AccountsInv, NEW b \in Browsers, LoginDone(b)
    PROVE  AccountsInv' /\ AllEvolve
<1>0. pc[b] = "welcome" /\ on[b] \subseteq People /\ UNCHANGED <<account, template>> /\ Done(b)
    BY DEF LoginDone, AccountsInv, OnOK, OnAccounts, Logins
<1>1. PICK p \in on[b] : cookie' = [cookie EXCEPT ![b] = Session(p, seen[b][p])]
    BY DEF LoginDone
<1>2. p \in People /\ seen[b][p] \in AccountRow /\ p # Nobody
    BY <1>0, AccountsAssumption DEF AccountsInv, Typed
<1> PICK c : c = Session(p, seen[b][p])
    OBVIOUS
<1>3. /\ c \in Cookie /\ c.owner = p /\ c.epoch = seen[b][p].epoch
      /\ c.id = seen[b][p].id /\ c.secret = seen[b][p].secret
    BY <1>2 DEF Session, Cookie, AccountRow
<1>4. /\ cookie' \in [Browsers -> Cookie] /\ cookie'[b] = c
      /\ \A d \in Browsers \ {b} : cookie'[d] = cookie[d]
    BY <1>1, <1>3 DEF AccountsInv, Typed
<1>5. Dated(seen[b][p], account[p])
    BY <1>0 DEF AccountsInv, RequestOK, Logins
<1>6. CookieOK(b)'
    BY <1>0, <1>3, <1>4, <1>5 DEF CookieOK, Dated
<1> QED
    BY <1>0, <1>4, <1>6, NoneEvolves, DoneKept DEF AccountsInv, Typed

\* A cookie for the row that the account has now.
LEMMA NewSession ==
    ASSUME AccountsInv, NEW b \in Browsers, NEW p \in People, NEW row \in AccountRow,
           account'[p] = row, row.status # "absent",
           cookie' = [cookie EXCEPT ![b] = Session(p, row)]
    PROVE  /\ cookie' \in [Browsers -> Cookie] /\ CookieOK(b)'
           /\ \A d \in Browsers \ {b} : cookie'[d] = cookie[d]
<1> PICK c : c = Session(p, row)
    OBVIOUS
<1>1. /\ c \in Cookie /\ c.owner = p /\ c.epoch = row.epoch /\ c.id = row.id /\ c.secret = row.secret
      /\ row.epoch \in Nat /\ row.id \in Nat
    BY DEF Session, Cookie, AccountRow
<1>2. /\ cookie' \in [Browsers -> Cookie] /\ cookie'[b] = c
      /\ \A d \in Browsers \ {b} : cookie'[d] = cookie[d]
    BY <1>1 DEF AccountsInv, Typed
<1> QED
    BY <1>1, <1>2 DEF CookieOK, Dated

\* Without a cookie there is no session to be out of date.
LEMMA CookieDropped ==
    ASSUME AccountsInv, NEW b \in Browsers, cookie' = [cookie EXCEPT ![b] = NoCookie]
    PROVE  /\ cookie' \in [Browsers -> Cookie] /\ CookieOK(b)'
           /\ \A d \in Browsers \ {b} : cookie'[d] = cookie[d]
<1>1. /\ cookie' \in [Browsers -> Cookie] /\ cookie'[b] = NoCookie
      /\ \A d \in Browsers \ {b} : cookie'[d] = cookie[d]
    BY NoCookieTyped DEF AccountsInv, Typed
<1> QED
    BY <1>1, NoCookieTyped DEF CookieOK

\* The row that a password change reads is that of the username.
LEMMA VerifyStep ==
    ASSUME AccountsInv, NEW b \in Browsers, PasswordRead(b)
    PROVE  AccountsInv' /\ AllEvolve
<1>0. /\ pc[b] = "verify" /\ on[b] \subseteq People /\ UNCHANGED <<account, template, cookie>>
    BY DEF PasswordRead, AccountsInv, OnOK, OnAccounts
<1>1. CASE Done(b)
    BY <1>0, <1>1, NoAccount DEF AccountsInv, Typed
<1>2. CASE ~Done(b)
    <2>1. PICK p \in on[b] : /\ pc' = [pc EXCEPT ![b] = "password"]
                             /\ seen' = [seen EXCEPT ![b] = [@ EXCEPT ![p] = account[p]]]
                             /\ UNCHANGED <<on, shown>>
        BY <1>2 DEF PasswordRead
    <2>2. p \in People /\ account[p] \in AccountRow
        BY <1>0 DEF AccountsInv, Typed
    <2>3. /\ seen' \in [Browsers -> [People -> AccountRow]] /\ pc' \in [Browsers -> Steps]
          /\ pc'[b] = "password"
          /\ \A q \in People : seen'[b][q] = IF q = p THEN account[q] ELSE seen[b][q]
          /\ \A c \in Browsers \ {b} : pc'[c] = pc[c] /\ seen'[c] = seen[c]
        BY <2>1, <2>2 DEF AccountsInv, Typed, Steps, OnAccounts
    <2>4. Typed' /\ OthersStay(b) /\ AllEvolve
        BY <1>0, <2>1, <2>3, NoneEvolves DEF AccountsInv, Typed, OthersStay
    <2>5. OnOK(b)' /\ RequestOK(b)'
        BY <1>0, <2>1, <2>3 DEF OnOK, RequestOK, Logins
    <2>6. SeenOK(b)'
        <3> SUFFICES ASSUME NEW q \in People PROVE Shown(seen'[b][q], account[q])
            BY <1>0 DEF SeenOK
        <3>1. Shown(seen[b][q], account[q]) /\ account[q] \in AccountRow
            BY DEF AccountsInv, SeenOK, Typed
        <3> QED
            BY <2>3, <3>1, RowSame DEF Evolves
    <2>7. CookieOK(b)'
        BY <1>0, <2>4, CookieKept
    <2> QED
        BY <2>4, <2>5, <2>6, <2>7, InvKept
<1> QED
    BY <1>1, <1>2

LEMMA PasswordStep ==
    ASSUME AccountsInv, NEW b \in Browsers, PasswordCommit(b)
    PROVE  AccountsInv' /\ AllEvolve
<1>0. /\ pc[b] = "password" /\ on[b] \subseteq People /\ UNCHANGED template /\ Done(b)
    BY DEF PasswordCommit, AccountsInv, OnOK, OnAccounts
<1>1. CASE NoChange /\ UNCHANGED cookie
    BY <1>0, <1>1, NoAccount DEF NoChange, AccountsInv, Typed
<1>2. CASE ~(NoChange /\ UNCHANGED cookie)
    <2>1. PICK p \in on[b] : /\ account[p].status = "approved" /\ Change(p, Renewed(p))
                             /\ cookie' = [cookie EXCEPT ![b] = Session(p, Renewed(p))]
        BY <1>2 DEF PasswordCommit
    <2>2. p \in People
        BY <1>0
    <2> PICK row : row = Renewed(p)
        OBVIOUS
    <2>3. /\ row \in AccountRow /\ AccountOK(row) /\ Evolves(account[p], row) /\ row.status # "absent"
        BY <2>1, <2>2, RenewedRow
    <2>4. account' = [account EXCEPT ![p] = row] /\ account'[p] = row
        BY <2>1, <2>2 DEF Change, AccountsInv, Typed
    <2>5. account' \in [People -> AccountRow] /\ AllEvolve
        BY <2>2, <2>3, <2>4, ChangeEvolves
    <2>6. /\ cookie' \in [Browsers -> Cookie] /\ CookieOK(b)'
          /\ \A d \in Browsers \ {b} : cookie'[d] = cookie[d]
        BY <2>1, <2>2, <2>3, <2>4, NewSession
    <2> QED
        BY <1>0, <2>5, <2>6, DoneKept DEF AccountsInv, Typed
<1> QED
    BY <1>1, <1>2

LEMMA LogoutStep ==
    ASSUME AccountsInv, NEW b \in Browsers, Logout(b)
    PROVE  AccountsInv' /\ AllEvolve
<1> PICK p : p = cookie[b].owner
    OBVIOUS
<1>1. /\ pc[b] = "idle" /\ p \in People /\ account[p].status = "approved"
      /\ Change(p, [account[p] EXCEPT !.epoch = @ + 1])
      /\ cookie' = [cookie EXCEPT ![b] = NoCookie]
      /\ UNCHANGED <<template, pc, on, seen, shown>>
    BY DEF Logout, SignedIn, Honoured, AccountsInv, Typed, Cookie
<1> PICK row : row = [account[p] EXCEPT !.epoch = @ + 1]
    OBVIOUS
<1>2. row \in AccountRow /\ AccountOK(row) /\ Evolves(account[p], row)
    <2>1. /\ row \in AccountRow /\ row.status = account[p].status /\ row.version = account[p].version
          /\ row.epoch = account[p].epoch + 1 /\ row.secret = account[p].secret
          /\ row.id = account[p].id
          /\ row.key = account[p].key /\ row.permissions = account[p].permissions
        BY <1>1, RowsTyped DEF AccountRow
    <2> QED
        BY <1>1, <2>1, RowsTyped DEF AccountOK, Evolves, Shown
<1>3. account' \in [People -> AccountRow] /\ AllEvolve
    BY <1>1, <1>2, ChangeEvolves DEF Change
<1>4. /\ cookie' \in [Browsers -> Cookie] /\ CookieOK(b)'
      /\ \A d \in Browsers \ {b} : cookie'[d] = cookie[d]
    BY <1>1, CookieDropped
<1>5. Typed' /\ OthersStay(b)
    BY <1>1, <1>3, <1>4 DEF AccountsInv, Typed, OthersStay
<1>6. OnOK(b)' /\ RequestOK(b)'
    BY <1>1 DEF OnOK, RequestOK, OnAccounts, Logins
<1>7. SeenOK(b)'
    BY <1>1, <1>3, <1>5, SeenKept
<1> QED
    BY <1>3, <1>4, <1>5, <1>6, <1>7, InvKept

LEMMA SubmitStep ==
    ASSUME AccountsInv, NEW b \in Browsers, NEW t \in Templates, PermissionsSubmit(b, t)
    PROVE  AccountsInv' /\ AllEvolve
<1>0. pc[b] = "permissions" /\ on[b] \subseteq People /\ UNCHANGED <<account, template, cookie>>
    BY DEF PermissionsSubmit, AccountsInv, OnOK, OnAccounts
<1>1. CASE Done(b)
    BY <1>0, <1>1, NoAccount DEF AccountsInv, Typed
<1>2. CASE ~Done(b)
    <2>1. /\ pc' = [pc EXCEPT ![b] = "assign"] /\ on' = [on EXCEPT ![b] = {<<p, t>> : p \in @}]
          /\ UNCHANGED <<seen, shown>>
        BY <1>2 DEF PermissionsSubmit
    <2>2. {<<p, t>> : p \in on[b]} \subseteq People \X Templates
        BY <1>0
    <2>3. /\ pc'[b] = "assign" /\ on'[b] = {<<p, t>> : p \in on[b]}
          /\ on' \in [Browsers -> SUBSET Subjects] /\ pc' \in [Browsers -> Steps]
          /\ \A c \in Browsers \ {b} : pc'[c] = pc[c] /\ on'[c] = on[c]
        BY <2>1, <2>2 DEF AccountsInv, Typed, Subjects, Steps
    <2>4. Typed' /\ OthersStay(b) /\ AllEvolve
        BY <1>0, <2>1, <2>3, NoneEvolves DEF AccountsInv, Typed, OthersStay
    <2>5. OnOK(b)' /\ RequestOK(b)'
        BY <2>2, <2>3 DEF OnOK, RequestOK, OnAccounts, Logins
    <2>6. CookieOK(b)' /\ SeenOK(b)'
        BY <1>0, <2>1, <2>4, CookieKept, SeenKept
    <2> QED
        BY <2>4, <2>5, <2>6, InvKept
<1> QED
    BY <1>1, <1>2

\* Assignments, which ask for the version that the page has shown.
LEMMA AssignStep ==
    ASSUME AccountsInv, NEW b \in Browsers, AssignCommit(b)
    PROVE  AccountsInv' /\ AllEvolve
<1>0. pc[b] = "assign" /\ UNCHANGED <<template, cookie>> /\ Done(b)
    BY DEF AssignCommit
<1>1. CASE NoChange
    BY <1>0, <1>1, NoAccount DEF NoChange, AccountsInv, Typed
<1>2. CASE ~NoChange
    <2>1. PICK x \in on[b] :
            /\ account[x[1]].status # "absent"
            /\ Change(x[1], Assigned(x[1], x[2], shown[b][x[2]].permissions))
        BY <1>2 DEF AssignCommit, SameRow
    <2>2. /\ x[1] \in People /\ x[2] \in Templates
          /\ shown[b][x[2]].permissions \in Bundles
        <3>1. x \in People \X Templates
            BY <1>0 DEF AccountsInv, OnOK
        <3> QED
            BY <3>1 DEF AccountsInv, Typed, TemplateRow
    <2> PICK row : row = Assigned(x[1], x[2], shown[b][x[2]].permissions)
        OBVIOUS
    <2>3. row \in AccountRow /\ AccountOK(row) /\ Evolves(account[x[1]], row)
        BY <2>1, <2>2, AssignedRow
    <2>4. account' = [account EXCEPT ![x[1]] = row]
        BY <2>1 DEF Change
    <2> QED
        BY <1>0, <2>2, <2>3, <2>4, OneAccount
<1> QED
    BY <1>1, <1>2

LEMMA TemplateStep ==
    ASSUME AccountsInv, NEW b \in Browsers, NEW permissions \in Bundles,
           TemplateCommit(b, permissions)
    PROVE  AccountsInv' /\ AllEvolve
<1>0. pc[b] = "template" /\ on[b] \subseteq Templates /\ UNCHANGED <<account, cookie>> /\ Done(b)
    BY DEF TemplateCommit, AccountsInv, OnOK
<1>1. PICK t \in on[b] :
        \/ template' = template
        \/ template' = [template EXCEPT ![t] = [permissions |-> permissions, version |-> @.version + 1]]
    BY DEF TemplateCommit
<1>2. t \in Templates /\ template[t].version + 1 \in Nat
    BY <1>0 DEF AccountsInv, Typed, TemplateRow
<1>3. [permissions |-> permissions, version |-> template[t].version + 1] \in TemplateRow
    BY <1>2 DEF TemplateRow
<1>4. template' \in [Templates -> TemplateRow]
    BY <1>1, <1>3 DEF AccountsInv, Typed
<1> QED
    BY <1>0, <1>4, NoAccount

LEMMA BulkStep ==
    ASSUME AccountsInv, NEW b \in Browsers, NEW P \in SUBSET People, BulkCommit(b, P)
    PROVE  AccountsInv' /\ AllEvolve
<1>0. /\ pc[b] = "template" /\ on[b] \subseteq Templates /\ UNCHANGED <<template, cookie>> /\ Done(b)
    BY DEF BulkCommit, AccountsInv, OnOK
<1>1. CASE NoChange
    BY <1>0, <1>1, NoAccount DEF NoChange, AccountsInv, Typed
<1>2. CASE ~NoChange
    <2>1. PICK t \in on[b] :
            /\ \A p \in P : account[p].status # "absent"
            /\ account' = [p \in People |->
                                IF p \in P THEN Assigned(p, t, shown[b][t].permissions)
                                ELSE account[p]]
        BY <1>2 DEF BulkCommit
    <2>2. t \in Templates /\ shown[b][t].permissions \in Bundles
        BY <1>0 DEF AccountsInv, Typed, TemplateRow
    <2>3. ASSUME NEW p \in People
          PROVE  /\ account'[p] \in AccountRow /\ AccountOK(account'[p])
                 /\ Evolves(account[p], account'[p])
        <3>1. CASE p \in P
            BY <2>1, <2>2, <3>1, AssignedRow
        <3>2. CASE p \notin P
            BY <2>1, <3>2, RowsTyped
        <3> QED
            BY <3>1, <3>2
    <2>4. account' \in [People -> AccountRow] /\ AllEvolve
        BY <2>1, <2>3 DEF AllEvolve
    <2> QED
        BY <1>0, <2>4, DoneKept DEF AccountsInv, Typed
<1> QED
    BY <1>1, <1>2

LEMMA CloseStep ==
    ASSUME AccountsInv, NEW b \in Browsers, BrowserCloses(b)
    PROVE  AccountsInv' /\ AllEvolve
<1>1. /\ Done(b) /\ UNCHANGED <<account, template>>
      /\ cookie' = [cookie EXCEPT ![b] = NoCookie]
    BY DEF BrowserCloses
<1> QED
    BY <1>1, CookieDropped, NoneEvolves, DoneKept DEF AccountsInv, Typed

\* A step changes the row of an account in one of the ways that Evolves allows.
LEMMA NextEvolves == AccountsInv /\ Next => AccountsInv' /\ AllEvolve
<1> SUFFICES ASSUME AccountsInv, NEW b \in Browsers, BrowserStep(b)
             PROVE  AccountsInv' /\ AllEvolve
    BY DEF Next
<1> QED
    BY ReadSteps, UpgradeStep, LoginStep, LogoutStep, VerifyStep, PasswordStep, CommitSteps, SubmitStep,
       AssignStep, TemplateStep, BulkStep, CloseStep DEF BrowserStep

LEMMA AccountsNext == AccountsInv /\ [Next]_vars => AccountsInv'
<1> SUFFICES ASSUME AccountsInv, [Next]_vars PROVE AccountsInv'
    OBVIOUS
<1>1. CASE UNCHANGED vars
    BY <1>1 DEF vars, AccountsInv, Typed, OnOK, CookieOK, RequestOK, SeenOK
<1>2. ASSUME Next PROVE AccountsInv'
    BY <1>2, NextEvolves
<1> QED
    BY <1>1, <1>2

-----------------------------------------------------------------------------
\* The invariant of the accounts and what the browsers hold of them.
THEOREM AccountsCorrect == Spec => []AccountsInv
BY AccountsInit, AccountsNext, PTL DEF Spec

\* Of the sessions of the present registration of an account, readSession honours only
\* those that were opened with the password in force, however logins, resets, password
\* changes, deletions and new registrations interleave.
THEOREM SessionsCorrect == Spec => []SessionsCurrent
<1>1. AccountsInv => SessionsCurrent
    BY DEF AccountsInv, CookieOK, Dated, SessionsCurrent, SignedIn, Honoured, Present
<1> QED
    BY <1>1, AccountsCorrect, PTL

LEMMA AssignedRows ==
    ASSUME AccountsInv, Next, NEW b \in Browsers, NEW p \in People,
           pc[b] \in {"assign", "template"}, pc'[b] = "idle",
           account'[p].version # account[p].version
    PROVE  /\ account[p].key = seen[b][p].key
           /\ account[p].permissions = seen[b][p].permissions
           /\ account'[p].permissions = shown[b][account'[p].key].permissions
<1>0. pc[b] # "idle" /\ account' # account
    OBVIOUS
<1>1. PICK c \in Browsers : BrowserStep(c)
    BY DEF Next
<1>2. ~(UNCHANGED account) /\ pc'[b] # pc[b]
    BY <1>0
<1>3. \/ AssignCommit(b) \/ \E P \in SUBSET People : BulkCommit(b, P)
    <2>1. \/ Logout(c) \/ PasswordCommit(c) \/ ResetCommit(c) \/ CreateCommit(c) \/ StatusCommit(c)
          \/ DeleteCommit(c) \/ LoginUpgrade(c) \/ AssignCommit(c) \/ \E P \in SUBSET People : BulkCommit(c, P)
        BY <1>1, <1>2 DEF BrowserStep, LoginRead, ResetRead, CreateRead, StatusRead, DeleteRead,
            PermissionsPage, Read, ReadAll, LoginDone, PasswordAsk, PasswordRead, PermissionsSubmit,
            TemplatePage, TemplateCommit, BrowserCloses
    <2>2. /\ pc[c] \notin {"assign", "template"} \/ AssignCommit(c)
                \/ \E P \in SUBSET People : BulkCommit(c, P)
          /\ \A d \in Browsers \ {c} : pc'[d] = pc[d]
        BY <2>1 DEF Logout, PasswordCommit, ResetCommit, CreateCommit, StatusCommit, DeleteCommit,
            LoginUpgrade, Commit, AssignCommit, BulkCommit, Done, AccountsInv, Typed
    <2> QED
        BY <1>2, <2>1, <2>2
<1>4. SameRow(b, p) /\ VersionAsSeen(b, p) =>
            account[p].key = seen[b][p].key /\ account[p].permissions = seen[b][p].permissions
    BY DEF AccountsInv, SeenOK, Shown, SameRow, VersionAsSeen
<1>5. CASE AssignCommit(b)
    <2>1. PICK x \in on[b] :
            /\ VersionAsSeen(b, x[1]) /\ SameRow(b, x[1])
            /\ account' = [account EXCEPT ![x[1]] = Assigned(x[1], x[2], shown[b][x[2]].permissions)]
        BY <1>2, <1>5 DEF AssignCommit, Change, NoChange
    <2>2. x[1] \in People /\ x[2] \in Templates /\ account[x[1]].status # "absent"
          /\ shown[b][x[2]].permissions \in Bundles
        <3>1. x \in People \X Templates /\ account[x[1]].status # "absent"
            BY <1>5, <2>1 DEF AssignCommit, AccountsInv, OnOK, SameRow
        <3> QED
            BY <3>1 DEF AccountsInv, Typed, TemplateRow
    <2>3. p = x[1] /\ account'[p] = Assigned(p, x[2], shown[b][x[2]].permissions)
        BY <2>1, <2>2 DEF AccountsInv, Typed
    <2>4. account'[p].key = x[2] /\ account'[p].permissions = shown[b][x[2]].permissions
        BY <2>2, <2>3, AssignedRow
    <2> QED
        BY <1>4, <2>1, <2>3, <2>4
<1>6. ASSUME NEW P \in SUBSET People, BulkCommit(b, P)
      PROVE  /\ account[p].key = seen[b][p].key
             /\ account[p].permissions = seen[b][p].permissions
             /\ account'[p].permissions = shown[b][account'[p].key].permissions
    <2>1. PICK t \in on[b] :
            /\ \A q \in P : account[q].status # "absent" /\ SameRow(b, q) /\ VersionAsSeen(b, q)
            /\ account' = [q \in People |->
                                IF q \in P THEN Assigned(q, t, shown[b][t].permissions)
                                ELSE account[q]]
        BY <1>2, <1>6 DEF BulkCommit, NoChange
    <2>2. t \in Templates /\ shown[b][t].permissions \in Bundles
        BY <1>6 DEF BulkCommit, AccountsInv, OnOK, Typed, TemplateRow
    <2>3. p \in P /\ account'[p] = Assigned(p, t, shown[b][t].permissions)
        BY <2>1
    <2>4. account'[p].key = t /\ account'[p].permissions = shown[b][t].permissions
        BY <2>1, <2>2, <2>3, AssignedRow
    <2> QED
        BY <1>4, <2>1, <2>3, <2>4
<1> QED
    BY <1>3, <1>5, <1>6

\* What an administrator assigns replaces what the page has shown, and is the content of
\* one version of the template that carries the label: both row versions are compared
\* after the page was read.
THEOREM AssignmentsCorrect == Spec => AssignedAsShown
<1>1. AccountsInv /\ [Next]_vars =>
        [\A b \in Browsers, p \in People :
            /\ pc[b] \in {"assign", "template"} /\ pc'[b] = "idle"
            /\ account'[p].version # account[p].version
            => /\ account[p].key = seen[b][p].key
               /\ account[p].permissions = seen[b][p].permissions
               /\ account'[p].permissions = shown[b][account'[p].key].permissions]_vars
    BY AssignedRows
<1> QED
    BY <1>1, AccountsCorrect, PTL DEF Spec, AssignedAsShown

-----------------------------------------------------------------------------
\* What the requests under way hold of the cookie of their browser: a login none, and
\* a password change one of the account, which may have ended since.
HeldOK(b) ==
    /\ pc[b] \in Logins => cookie[b] = NoCookie
    /\ pc[b] \in {"verify", "password"} => \A p \in on[b] : cookie[b].owner = p

SessionsInv == AccountsInv /\ \A b \in Browsers : HeldOK(b)

LEMMA HeldInit == Init => \A b \in Browsers : HeldOK(b)
BY DEF Init, HeldOK, Logins

\* A read begins a request.
LEMMA HeldRead ==
    ASSUME AccountsInv, NEW b \in Browsers, NEW a, NEW S, NEW P, NEW T, ReadAll(b, a, S, P, T)
    PROVE  /\ pc'[b] = a /\ on'[b] = S /\ cookie' = cookie
           /\ seen'[b] = [p \in People |-> IF p \in P THEN account[p] ELSE Blank(p)]
           /\ OthersStay(b)
BY DEF ReadAll, AccountsInv, Typed, OthersStay

LEMMA HeldReads ==
    ASSUME AccountsInv, NEW b \in Browsers,
           \/ \E p \in People : LoginRead(b, p) \/ ResetRead(b, p) \/ CreateRead(b, p)
                                \/ StatusRead(b, p) \/ DeleteRead(b, p) \/ PermissionsPage(b, p)
           \/ PasswordAsk(b)
           \/ \E t \in Templates : TemplatePage(b, t)
    PROVE  HeldOK(b)' /\ OthersStay(b)
<1>1. CASE \E p \in People : LoginRead(b, p)
    <2>1. cookie[b] = NoCookie /\ \E a \in Logins, p \in People : ReadAll(b, a, {p}, {p}, {})
        BY <1>1 DEF LoginRead, Read, Logins
    <2>2. cookie'[b] = NoCookie /\ pc'[b] \notin {"verify", "password"} /\ OthersStay(b)
        BY <2>1, HeldRead DEF Logins
    <2> QED
        BY <2>2 DEF HeldOK
<1>2. CASE PasswordAsk(b)
    <2> PICK p : p = cookie[b].owner
        OBVIOUS
    <2>1. ReadAll(b, "verify", {p}, {}, {})
        BY <1>2 DEF PasswordAsk
    <2>2. pc'[b] = "verify" /\ on'[b] = {p} /\ cookie' = cookie /\ OthersStay(b)
        BY <2>1, HeldRead
    <2> QED
        BY <2>2 DEF HeldOK, Logins
<1>3. ASSUME NEW p \in People,
             \/ ResetRead(b, p) \/ CreateRead(b, p)
             \/ StatusRead(b, p) \/ DeleteRead(b, p) \/ PermissionsPage(b, p)
      PROVE  HeldOK(b)' /\ OthersStay(b)
    <2>1. \E a \in OnAccounts \ (Logins \cup {"verify", "password"}), T \in {{}, Templates} :
            ReadAll(b, a, {p}, {p}, T)
        BY <1>3 DEF ResetRead, CreateRead, StatusRead, DeleteRead, PermissionsPage, Read,
            OnAccounts, Logins
    <2> QED
        BY <2>1, HeldRead DEF HeldOK
<1>4. ASSUME NEW t \in Templates, TemplatePage(b, t) PROVE HeldOK(b)' /\ OthersStay(b)
    <2>1. ReadAll(b, "template", {t}, People, {t})
        BY <1>4 DEF TemplatePage
    <2>2. pc'[b] = "template" /\ OthersStay(b)
        BY <2>1, HeldRead
    <2> QED
        BY <2>2 DEF HeldOK, Logins
<1> QED
    BY <1>1, <1>2, <1>3, <1>4

LEMMA HeldDone ==
    ASSUME AccountsInv, NEW b \in Browsers, Done(b),
           \/ UNCHANGED cookie
           \/ \E c : cookie' = [cookie EXCEPT ![b] = c]
    PROVE  HeldOK(b)' /\ OthersStay(b)
<1>1. /\ pc'[b] = "idle"
      /\ \A c \in Browsers \ {b} : pc'[c] = pc[c] /\ on'[c] = on[c] /\ seen'[c] = seen[c]
    BY DoneTyped DEF AccountsInv
<1>2. \A c \in Browsers \ {b} : cookie'[c] = cookie[c]
    BY DEF AccountsInv, Typed
<1> QED
    BY <1>1, <1>2 DEF HeldOK, OthersStay, Logins

LEMMA HeldStep ==
    ASSUME SessionsInv, NEW b \in Browsers, BrowserStep(b)
    PROVE  \A c \in Browsers : HeldOK(c)'
<1>0. AccountsInv
    BY DEF SessionsInv
<1>1. HeldOK(b)' /\ OthersStay(b)
    <2>1. CASE LoginUpgrade(b)
        <3>1. pc[b] = "upgrade" /\ cookie' = cookie /\ pc'[b] = "welcome" /\ OthersStay(b)
            BY <1>0, <2>1 DEF LoginUpgrade, AccountsInv, Typed, OthersStay
        <3> QED
            BY <3>1 DEF SessionsInv, HeldOK, Logins
    <2>2. CASE Logout(b)
        <3>1. pc[b] = "idle" /\ pc' = pc /\ OthersStay(b)
            BY <1>0, <2>2 DEF Logout, AccountsInv, Typed, OthersStay
        <3> QED
            BY <3>1 DEF HeldOK, Logins
    <2>7. CASE PasswordRead(b)
        <3>1. CASE Done(b)
            BY <1>0, <2>7, <3>1, HeldDone DEF PasswordRead
        <3>2. CASE ~Done(b)
            <4>1. pc[b] = "verify" /\ pc'[b] = "password" /\ on' = on /\ cookie' = cookie /\ OthersStay(b)
                BY <1>0, <2>7, <3>2 DEF PasswordRead, AccountsInv, Typed, OthersStay
            <4> QED
                BY <4>1 DEF SessionsInv, HeldOK, Logins
        <3> QED
            BY <3>1, <3>2
    <2>3. ASSUME NEW t \in Templates, PermissionsSubmit(b, t) PROVE HeldOK(b)' /\ OthersStay(b)
        <3>1. CASE Done(b)
            BY <1>0, <2>3, <3>1, HeldDone DEF PermissionsSubmit
        <3>2. CASE ~Done(b)
            <4>1. pc'[b] = "assign" /\ OthersStay(b)
                BY <1>0, <2>3, <3>2 DEF PermissionsSubmit, AccountsInv, Typed, OthersStay
            <4> QED
                BY <4>1 DEF HeldOK, Logins
        <3> QED
            BY <3>1, <3>2
    <2>4. CASE LoginDone(b) \/ PasswordCommit(b) \/ BrowserCloses(b)
        <3>1. Done(b) /\ (UNCHANGED cookie \/ \E c : cookie' = [cookie EXCEPT ![b] = c])
            BY <2>4 DEF LoginDone, PasswordCommit, BrowserCloses
        <3> QED
            BY <1>0, <3>1, HeldDone
    <2>5. CASE ResetCommit(b) \/ CreateCommit(b) \/ StatusCommit(b) \/ DeleteCommit(b)
        <3>1. Done(b) /\ UNCHANGED cookie
            BY <2>5 DEF ResetCommit, CreateCommit, StatusCommit, DeleteCommit, Commit
        <3> QED
            BY <1>0, <3>1, HeldDone
    <2>6. CASE AssignCommit(b) \/ (\E permissions \in Bundles : TemplateCommit(b, permissions))
               \/ (\E P \in SUBSET People : BulkCommit(b, P))
        <3>1. Done(b) /\ UNCHANGED cookie
            BY <2>6 DEF AssignCommit, TemplateCommit, BulkCommit
        <3> QED
            BY <1>0, <3>1, HeldDone
    <2> QED
        BY <1>0, HeldReads, <2>1, <2>2, <2>3, <2>4, <2>5, <2>6, <2>7 DEF BrowserStep
<1>2. ASSUME NEW c \in Browsers \ {b} PROVE HeldOK(c)'
    BY <1>1, <1>2 DEF OthersStay, SessionsInv, HeldOK
<1> QED
    BY <1>1, <1>2

-----------------------------------------------------------------------------
\* The account p stays as good for its sessions as it was.
SameStanding(p) ==
    /\ account'[p].status = "approved" <=> account[p].status = "approved"
    /\ account'[p].id = account[p].id
    /\ account'[p].epoch = account[p].epoch
    /\ account'[p].secret = account[p].secret

\* The sessions that go on: honoured, and of the present registration.
Lives(b) == SignedIn(b) /\ Present(cookie[b])

LEMMA LiveSession ==
    ASSUME AccountsInv, NEW b \in Browsers
    PROVE  /\ Lives(b) =>
                /\ cookie[b].owner \in People /\ account[cookie[b].owner].status = "approved"
                /\ Live(b) = [owner |-> cookie[b].owner, password |-> cookie[b].secret]
           /\ ~Lives(b) => Live(b) = Table!NoSession
BY DEF AccountsInv, Typed, Cookie, Live, Lives, SignedIn, Honoured, Table!NoSession

\* Its sessions go on,
LEMMA SessionStays ==
    ASSUME AccountsInv, AccountsInv', NEW b \in Browsers, cookie'[b] = cookie[b],
           cookie[b].owner \in People => SameStanding(cookie[b].owner)
    PROVE  Live(b)' = Live(b)
<1>1. cookie[b].owner \in People \cup {Nobody}
    BY DEF AccountsInv, Typed, Cookie
<1>2. Lives(b)' <=> Lives(b)
    BY <1>1 DEF Lives, SignedIn, Honoured, Present, SameStanding
<1> QED
    BY <1>2 DEF Live, Lives

\* or end, when its row, its epoch or its approval does, and only these.
Ends(p) ==
    \/ account'[p].status # "approved"
    \/ account'[p].id = account[p].id /\ account'[p].epoch > account[p].epoch

LEMMA SessionEnds ==
    ASSUME AccountsInv, AccountsInv', NEW b \in Browsers, cookie'[b] = cookie[b],
           NEW p \in People, \A q \in People \ {p} : SameStanding(q), Ends(p)
    PROVE  Live(b)' = IF Live(b).owner = p THEN Table!NoSession ELSE Live(b)
<1>0. p # Nobody
    BY AccountsAssumption
<1>1. CASE cookie[b].owner = p
    <2>1. Dated(cookie[b], account[p])
        BY <1>0, <1>1 DEF AccountsInv, CookieOK
    <2>2. /\ cookie[b].epoch \in Nat /\ account[p].epoch \in Nat /\ account'[p].epoch \in Nat
          /\ cookie[b].owner' = p /\ cookie'[b] = cookie[b]
        BY <1>1 DEF AccountsInv, Typed, Cookie, AccountRow
    <2>3. ~Lives(b)'
        BY <2>1, <2>2 DEF Lives, SignedIn, Honoured, Present, Ends, Dated
    <2>4. Live(b)' = Table!NoSession
        BY <2>3 DEF Live, Lives, Table!NoSession
    <2>5. Live(b).owner = p \/ Live(b) = Table!NoSession
        BY <1>1 DEF Live, Table!NoSession
    <2> QED
        BY <2>4, <2>5
<1>2. CASE cookie[b].owner # p
    <2>1. Live(b)' = Live(b)
        BY <1>2, SessionStays
    <2>2. Live(b).owner # p
        BY <1>0, <1>2 DEF Live
    <2> QED
        BY <2>1, <2>2
<1> QED
    BY <1>1, <1>2

\* A step that no session can tell.
LEMMA Unnoticed ==
    ASSUME AccountsInv, AccountsInv', cookie' = cookie, \A p \in People : SameStanding(p)
    PROVE  UNCHANGED Table!vars
<1>1. \A b \in Browsers : Live(b)' = Live(b)
    BY SessionStays
<1>2. {p \in People : account'[p].status = "approved"} = {p \in People : account[p].status = "approved"}
    BY DEF SameStanding
<1>3. [p \in People |-> account'[p].secret] = [p \in People |-> account[p].secret]
    BY DEF SameStanding
<1> QED
    BY <1>1, <1>2, <1>3 DEF Table!vars

LEMMA OneRow ==
    ASSUME AccountsInv, NEW p \in People, NEW row, Change(p, row)
    PROVE  account'[p] = row /\ \A q \in People \ {p} : SameStanding(q)
BY DEF AccountsInv, Typed, Change, SameStanding

-----------------------------------------------------------------------------
(* Each step of a browser is a step of the table, or none *)

LEMMA QuietReads ==
    ASSUME NEW b \in Browsers,
           \/ \E p \in People : LoginRead(b, p) \/ ResetRead(b, p) \/ CreateRead(b, p)
                                \/ StatusRead(b, p) \/ DeleteRead(b, p) \/ PermissionsPage(b, p)
           \/ PasswordAsk(b)
           \/ PasswordRead(b)
           \/ \E t \in Templates : TemplatePage(b, t)
    PROVE  UNCHANGED <<account, cookie>>
BY DEF LoginRead, ResetRead, CreateRead, StatusRead, DeleteRead, PermissionsPage,
    PasswordAsk, PasswordRead, TemplatePage, Read, ReadAll

LEMMA AssignedStanding ==
    ASSUME AccountsInv, NEW p \in People, NEW t, NEW permissions,
           account'[p] = Assigned(p, t, permissions)
    PROVE  SameStanding(p)
BY RowsTyped DEF Assigned, AccountRow, SameStanding

LEMMA UpgradeStanding ==
    ASSUME AccountsInv, NEW b \in Browsers, LoginUpgrade(b), NEW p \in People
    PROVE  SameStanding(p)
<1>1. PICK q \in on[b] :
        account' = [account EXCEPT ![q] =
                        IF StoredAsRead(b, q)
                        THEN Stored(@, seen[b][q].secret)
                        ELSE @]
    BY DEF LoginUpgrade
<1>2. CASE account'[p] = account[p]
    BY <1>2 DEF SameStanding
<1>3. CASE account'[p] # account[p]
    <2>1. account'[p] = Stored(account[p], account[p].secret)
        BY <1>1, <1>3 DEF StoredAsRead, AccountsInv, Typed
    <2> QED
        BY <2>1, RowsTyped DEF Stored, AccountRow, SameStanding
<1> QED
    BY <1>2, <1>3

LEMMA QuietSteps ==
    ASSUME AccountsInv, NEW b \in Browsers,
           \/ LoginUpgrade(b) \/ AssignCommit(b)
           \/ \E t \in Templates : PermissionsSubmit(b, t)
           \/ \E permissions \in Bundles : TemplateCommit(b, permissions)
           \/ \E P \in SUBSET People : BulkCommit(b, P)
    PROVE  cookie' = cookie /\ \A p \in People : SameStanding(p)
<1>1. CASE UNCHANGED <<account, cookie>>
    BY <1>1 DEF SameStanding
<1>2. CASE LoginUpgrade(b)
    BY <1>2, UpgradeStanding DEF LoginUpgrade
<1>3. CASE AssignCommit(b)
    <2>1. cookie' = cookie
        BY <1>3 DEF AssignCommit
    <2>2. PICK x \in on[b] :
            \/ UNCHANGED account
            \/ account' = [account EXCEPT ![x[1]] = Assigned(x[1], x[2], shown[b][x[2]].permissions)]
        BY <1>3 DEF AssignCommit, Change, NoChange
    <2>3. ASSUME NEW p \in People PROVE SameStanding(p)
        <3>1. CASE account'[p] = account[p]
            BY <3>1 DEF SameStanding
        <3>2. CASE account'[p] # account[p]
            <4>1. account'[p] = Assigned(p, x[2], shown[b][x[2]].permissions)
                BY <2>2, <3>2 DEF AccountsInv, Typed
            <4> QED
                BY <4>1, AssignedStanding
        <3> QED
            BY <3>1, <3>2
    <2> QED
        BY <2>1, <2>3
<1>4. ASSUME NEW t \in Templates, PermissionsSubmit(b, t)
      PROVE  UNCHANGED <<account, cookie>>
    BY <1>4 DEF PermissionsSubmit
<1>5. ASSUME NEW permissions \in Bundles, TemplateCommit(b, permissions)
      PROVE  UNCHANGED <<account, cookie>>
    BY <1>5 DEF TemplateCommit
<1>6. ASSUME NEW P \in SUBSET People, BulkCommit(b, P)
      PROVE  cookie' = cookie /\ \A p \in People : SameStanding(p)
    <2>1. cookie' = cookie
        BY <1>6 DEF BulkCommit
    <2>2. PICK t \in on[b] :
            \/ UNCHANGED account
            \/ account' = [p \in People |->
                                IF p \in P THEN Assigned(p, t, shown[b][t].permissions)
                                ELSE account[p]]
        BY <1>6 DEF BulkCommit, NoChange
    <2>3. ASSUME NEW p \in People PROVE SameStanding(p)
        <3>1. CASE account'[p] = account[p]
            BY <3>1 DEF SameStanding
        <3>2. CASE account'[p] # account[p]
            <4>1. account'[p] = Assigned(p, t, shown[b][t].permissions)
                BY <2>2, <3>2
            <4> QED
                BY <4>1, AssignedStanding
        <3> QED
            BY <3>1, <3>2
    <2> QED
        BY <2>1, <2>3
<1> QED
    BY <1>1, <1>2, <1>3, <1>4, <1>5, <1>6

TableStep == Table!Next \/ UNCHANGED Table!vars

\* A login whose account has moved on since it was read gives a cookie that is worth
\* nothing; any other opens a session with the password in force.
LEMMA LoginTable ==
    ASSUME SessionsInv, AccountsInv', NEW b \in Browsers, LoginDone(b)
    PROVE  TableStep
<1>0. pc[b] = "welcome" /\ on[b] \subseteq People /\ account' = account /\ AccountsInv
    BY DEF LoginDone, SessionsInv, AccountsInv, OnOK, OnAccounts, Logins
<1>1. PICK p \in on[b] : cookie' = [cookie EXCEPT ![b] = Session(p, seen[b][p])]
    BY DEF LoginDone
<1>2. /\ p \in People /\ p # Nobody /\ cookie[b] = NoCookie
      /\ Dated(seen[b][p], account[p])
    BY <1>0, AccountsAssumption DEF SessionsInv, HeldOK, AccountsInv, RequestOK, Logins
<1>3. /\ cookie'[b].owner = p /\ cookie'[b].epoch = seen[b][p].epoch
      /\ cookie'[b].id = seen[b][p].id /\ cookie'[b].secret = seen[b][p].secret
      /\ \A d \in Browsers \ {b} : cookie'[d] = cookie[d]
    BY <1>0, <1>1 DEF AccountsInv, Typed, Session
<1>4. \A q \in People : SameStanding(q)
    BY <1>0 DEF SameStanding
<1>5. ASSUME NEW d \in Browsers \ {b} PROVE Live(d)' = Live(d)
    BY <1>0, <1>3, <1>4, SessionStays
<1>6. Live(b) = Table!NoSession
    BY <1>2 DEF NoCookie, Live, SignedIn, Honoured, Table!NoSession
<1>7. CASE Lives(b)'
    <2>1. /\ account[p].status = "approved"
          /\ Live(b)' = [owner |-> p, password |-> account[p].secret]
        BY <1>0, <1>2, <1>3, <1>7 DEF Lives, SignedIn, Honoured, Present, Live, Dated
    <2>2. Table!SignIn(b, p)
        BY <1>0, <1>2, <1>5, <1>6, <2>1 DEF Table!SignIn
    <2> QED
        BY <1>2, <2>2 DEF TableStep, Table!Next
<1>8. CASE ~Lives(b)'
    <2>1. Live(b)' = Table!NoSession
        BY <1>8 DEF Live, Lives, Table!NoSession
    <2> QED
        BY <1>0, <1>5, <1>6, <2>1 DEF TableStep, Table!vars
<1> QED
    BY <1>7, <1>8

LEMMA CloseTable ==
    ASSUME AccountsInv, AccountsInv', NEW b \in Browsers, BrowserCloses(b)
    PROVE  TableStep
<1>1. /\ account' = account /\ cookie'[b] = NoCookie
      /\ \A d \in Browsers \ {b} : cookie'[d] = cookie[d]
    BY DEF BrowserCloses, AccountsInv, Typed
<1>2. ASSUME NEW d \in Browsers \ {b} PROVE Live(d)' = Live(d)
    BY <1>1, SessionStays DEF SameStanding
<1>3. Live(b)' = Table!NoSession
    BY <1>1 DEF NoCookie, Live, SignedIn, Honoured, Table!NoSession
<1>4. Table!Leave(b)
    BY <1>1, <1>2, <1>3 DEF Table!Leave
<1> QED
    BY <1>4 DEF TableStep, Table!Next

LEMMA LogoutTable ==
    ASSUME AccountsInv, AccountsInv', NEW b \in Browsers, Logout(b)
    PROVE  TableStep
<1> PICK p : p = cookie[b].owner
    OBVIOUS
<1>1. /\ p \in People /\ account[p].status = "approved" /\ SignedIn(b)
      /\ Change(p, [account[p] EXCEPT !.epoch = @ + 1])
    BY DEF Logout, SignedIn, Honoured, AccountsInv, Typed, Cookie
<1>2. cookie'[b] = NoCookie /\ \A d \in Browsers \ {b} : cookie'[d] = cookie[d]
    BY DEF Logout, AccountsInv, Typed
<1>3. /\ account'[p] = [account[p] EXCEPT !.epoch = @ + 1]
      /\ \A q \in People \ {p} : SameStanding(q)
    BY <1>1, OneRow
<1>4. /\ account'[p].epoch = account[p].epoch + 1 /\ account'[p].epoch > account[p].epoch
      /\ account'[p].status = account[p].status /\ account'[p].secret = account[p].secret
      /\ account'[p].id = account[p].id
    BY <1>1, <1>3, RowsTyped DEF AccountRow
<1>5. ASSUME NEW d \in Browsers \ {b}
      PROVE  Live(d)' = IF Live(d).owner = p THEN Table!NoSession ELSE Live(d)
    BY <1>1, <1>2, <1>3, <1>4, SessionEnds DEF Ends
<1>6. Live(b).owner = p \/ Live(b) = Table!NoSession
    BY <1>1 DEF Live, Table!NoSession
<1>7. Live(b)' = Table!NoSession
    BY <1>2 DEF NoCookie, Live, SignedIn, Honoured, Table!NoSession
<1>8. /\ {q \in People : account'[q].status = "approved"} = {q \in People : account[q].status = "approved"}
      /\ [q \in People |-> account'[q].secret] = [q \in People |-> account[q].secret]
    BY <1>3, <1>4 DEF SameStanding
<1>9. Table!SignOut(p)
    BY <1>5, <1>6, <1>7, <1>8 DEF Table!SignOut, Table!Without
<1> QED
    BY <1>1, <1>9 DEF TableStep, Table!Next

\* What a password change and a reset have in common.
LEMMA RenewedTable ==
    ASSUME AccountsInv, AccountsInv', NEW p \in People, Change(p, Renewed(p)),
           account[p].status # "absent"
    PROVE  /\ account'[p].secret > account[p].secret
           /\ \A q \in People \ {p} : account'[q].secret = account[q].secret
           /\ {q \in People : account'[q].status = "approved"}
                = {q \in People : account[q].status = "approved"}
           /\ \A d \in Browsers : cookie'[d] = cookie[d] =>
                Live(d)' = IF Live(d).owner = p THEN Table!NoSession ELSE Live(d)
<1>1. account'[p] = Renewed(p) /\ \A q \in People \ {p} : SameStanding(q)
    BY OneRow
<1>2. /\ account'[p].secret > account[p].secret /\ account'[p].epoch > account[p].epoch
      /\ account'[p].status = account[p].status /\ account'[p].id = account[p].id
    BY <1>1, RenewedRow
<1>3. \A d \in Browsers : cookie'[d] = cookie[d] =>
        Live(d)' = IF Live(d).owner = p THEN Table!NoSession ELSE Live(d)
    BY <1>1, <1>2, SessionEnds DEF Ends
<1> QED
    BY <1>1, <1>2, <1>3 DEF SameStanding

LEMMA PasswordTable ==
    ASSUME SessionsInv, AccountsInv', NEW b \in Browsers, PasswordCommit(b)
    PROVE  TableStep
<1>0. pc[b] = "password" /\ on[b] \subseteq People /\ AccountsInv
    BY DEF PasswordCommit, SessionsInv, AccountsInv, OnOK, OnAccounts
<1>1. CASE NoChange /\ UNCHANGED cookie
    <2>1. cookie' = cookie /\ \A p \in People : SameStanding(p)
        BY <1>1 DEF NoChange, SameStanding
    <2> QED
        BY <1>0, <2>1, Unnoticed DEF TableStep
<1>2. CASE ~(NoChange /\ UNCHANGED cookie)
    <2>1. PICK p \in on[b] : /\ account[p].status = "approved" /\ account[p].epoch = seen[b][p].epoch
                             /\ Change(p, Renewed(p))
                             /\ cookie' = [cookie EXCEPT ![b] = Session(p, Renewed(p))]
        BY <1>2 DEF PasswordCommit
    <2>2. p \in People /\ p # Nobody /\ cookie[b].owner = p
        BY <1>0, <2>1, AccountsAssumption DEF SessionsInv, HeldOK
    <2>3. Live(b).owner \in {p, Nobody}
        BY <2>2 DEF Live
    <2>4. /\ account'[p].secret > account[p].secret
          /\ \A q \in People \ {p} : account'[q].secret = account[q].secret
          /\ {q \in People : account'[q].status = "approved"}
                = {q \in People : account[q].status = "approved"}
          /\ \A d \in Browsers : cookie'[d] = cookie[d] =>
                Live(d)' = IF Live(d).owner = p THEN Table!NoSession ELSE Live(d)
        BY <1>0, <2>1, <2>2, RenewedTable
    <2>5. /\ cookie'[b] = Session(p, Renewed(p))
          /\ \A d \in Browsers \ {b} : cookie'[d] = cookie[d]
        BY <1>0, <2>1 DEF AccountsInv, Typed
    <2>6. account'[p] = Renewed(p) /\ account'[p].status = "approved"
        BY <1>0, <2>1, <2>2, OneRow, RenewedRow
    <2>7. Live(b)' = [owner |-> p, password |-> account'[p].secret]
        BY <2>2, <2>5, <2>6 DEF Session, Live, SignedIn, Honoured, Present
    <2>8. Table!Renew(b, p)
        BY <2>1, <2>2, <2>3, <2>4, <2>5, <2>7 DEF Table!Renew, Table!OthersKeep, Table!Without
    <2> QED
        BY <2>2, <2>8 DEF TableStep, Table!Next
<1> QED
    BY <1>1, <1>2

\* The batches of an administrator about one account.
LEMMA CommitTable ==
    ASSUME AccountsInv, AccountsInv', NEW b \in Browsers,
           ResetCommit(b) \/ CreateCommit(b) \/ StatusCommit(b) \/ DeleteCommit(b)
    PROVE  TableStep
<1>0. /\ cookie' = cookie
      /\ \A p : p \in on[b] /\ pc[b] \in OnAccounts => p \in People
    BY DEF ResetCommit, CreateCommit, StatusCommit, DeleteCommit, AccountsInv, OnOK
<1>1. CASE NoChange
    <2>1. \A p \in People : SameStanding(p)
        BY <1>1 DEF NoChange, SameStanding
    <2> QED
        BY <1>0, <2>1, Unnoticed DEF TableStep
<1>2. ASSUME NEW p \in People, Change(p, Renewed(p)), account[p].status # "absent"
      PROVE  TableStep
    <2>1. Table!Reset(p)
        BY <1>0, <1>2, RenewedTable DEF Table!Reset, Table!OthersKeep, Table!Without
    <2> QED
        BY <2>1 DEF TableStep, Table!Next
\* An account that becomes approved has no session that could be honoured.
<1>3. ASSUME NEW p \in People, NEW row, Change(p, row),
             account[p].status # "approved", row.status = "approved",
             row.secret >= account[p].secret, row.id = account[p].id,
             account[p].status = "absent" \/ row.epoch > account[p].epoch
      PROVE  TableStep
    <2>1. account'[p] = row /\ \A q \in People \ {p} : SameStanding(q)
        BY <1>3, OneRow
    <2>2. ASSUME NEW d \in Browsers PROVE Live(d)' = Live(d)
        <3>1. CASE account[p].status = "absent" /\ cookie[d].owner = p
            <4>1. Dated(cookie[d], account[p])
                BY <3>1, AccountsAssumption DEF AccountsInv, CookieOK
            <4>2. cookie[d].id # account[p].id /\ cookie'[d] = cookie[d]
                BY <1>0, <3>1, <4>1 DEF Dated
            <4>3. ~Lives(d)' /\ ~Lives(d)
                BY <1>3, <2>1, <3>1, <4>2 DEF Lives, Present
            <4> QED
                BY <4>3 DEF Live, Lives
        <3>2. CASE cookie[d].owner # p
            BY <1>0, <2>1, <3>2, SessionStays
        <3>3. CASE row.epoch > account[p].epoch
            <4>1. Live(d)' = IF Live(d).owner = p THEN Table!NoSession ELSE Live(d)
                BY <1>0, <1>3, <2>1, <3>3, SessionEnds DEF Ends
            <4>2. Live(d).owner # p
                BY <1>3, AccountsAssumption DEF Live, SignedIn, Honoured
            <4> QED
                BY <4>1, <4>2
        <3> QED
            BY <1>3, <3>1, <3>2, <3>3
    <2>3. {q \in People : account'[q].status = "approved"}
            = {q \in People : account[q].status = "approved"} \cup {p}
        BY <1>3, <2>1 DEF SameStanding
    <2>4. Table!Admit(p)
        BY <1>3, <2>1, <2>2, <2>3 DEF Table!Admit, Table!OthersKeep, SameStanding
    <2> QED
        BY <2>4 DEF TableStep, Table!Next
<1>4. ASSUME NEW p \in People, NEW row, Change(p, row),
             account[p].status = "approved", row.status # "approved",
             row.secret = account[p].secret
      PROVE  TableStep
    <2>1. account'[p] = row /\ \A q \in People \ {p} : SameStanding(q)
        BY <1>4, OneRow
    <2>2. \A d \in Browsers : Live(d)' = IF Live(d).owner = p THEN Table!NoSession ELSE Live(d)
        BY <1>0, <1>4, <2>1, SessionEnds DEF Ends
    <2>3. {q \in People : account'[q].status = "approved"}
            = {q \in People : account[q].status = "approved"} \ {p}
        BY <1>4, <2>1 DEF SameStanding
    <2>4. [q \in People |-> account'[q].secret] = [q \in People |-> account[q].secret]
        BY <1>4, <2>1 DEF SameStanding
    <2>5. Table!Bar(p)
        BY <1>4, <2>2, <2>3, <2>4 DEF Table!Bar, Table!Without
    <2> QED
        BY <2>5 DEF TableStep, Table!Next
<1>5. CASE ResetCommit(b)
    <2>1. PICK p \in on[b] : NoChange \/ (account[p].status # "absent" /\ Change(p, Renewed(p)))
        BY <1>5 DEF ResetCommit, Commit, SameRow
    <2>2. p \in People
        BY <1>0, <1>5 DEF ResetCommit, Commit, OnAccounts
    <2> QED
        BY <1>1, <1>2, <2>1, <2>2
<1>6. CASE CreateCommit(b)
    <2>1. PICK p \in on[b] : \/ NoChange
                             \/ account[p].status = "absent" /\ Change(p, Registered(account[p]))
        BY <1>6 DEF CreateCommit, Commit
    <2>2. p \in People
        BY <1>0, <1>6 DEF CreateCommit, Commit, OnAccounts
    <2>3. CASE account[p].status = "absent" /\ Change(p, Registered(account[p]))
        <3>1. account[p] \in AccountRow
            BY <2>2, RowsTyped
        <3> PICK row : row = Registered(account[p])
            OBVIOUS
        <3>2. row.status = "approved" /\ row.secret >= account[p].secret /\ row.id = account[p].id
            BY <3>1, RegisteredTyped
        <3> QED
            BY <1>3, <2>2, <2>3, <3>2
    <2> QED
        BY <1>1, <2>1, <2>3
<1>7. CASE StatusCommit(b)
    <2>1. PICK p \in on[b] :
            \/ NoChange
            \/ account[p].status = "approved" /\ Change(p, Moved(p, "disabled"))
            \/ account[p].status = "disabled" /\ Change(p, Moved(p, "approved"))
        BY <1>7 DEF StatusCommit, Commit
    <2>2. p \in People
        BY <1>0, <1>7 DEF StatusCommit, Commit, OnAccounts
    <2>3. account[p].status # "absent" =>
            /\ Moved(p, "disabled").status = "disabled"
            /\ Moved(p, "disabled").secret = account[p].secret
            /\ Moved(p, "approved").status = "approved"
            /\ Moved(p, "approved").secret >= account[p].secret
            /\ Moved(p, "approved").epoch > account[p].epoch
            /\ Moved(p, "approved").id = account[p].id
        BY <2>2, MovedRow, RowsTyped
    <2> QED
        BY <1>1, <1>3, <1>4, <2>1, <2>2, <2>3
<1>8. CASE DeleteCommit(b)
    <2>1. PICK p \in on[b] :
            NoChange \/ Change(p, NoRow(account[p].id + 1, account[p].secret))
        BY <1>8 DEF DeleteCommit, Commit
    <2>2. p \in People
        BY <1>0, <1>8 DEF DeleteCommit, Commit, OnAccounts
    <2> PICK row : row = NoRow(account[p].id + 1, account[p].secret)
        OBVIOUS
    <2>3. row.status = "absent" /\ row.secret = account[p].secret
        BY <2>2, DeletedRow
    <2>4. CASE account[p].status # "approved" /\ Change(p, row)
        <3>1. account'[p] = row /\ \A q \in People \ {p} : SameStanding(q)
            BY <2>2, <2>4, OneRow
        <3>2. ASSUME NEW d \in Browsers PROVE Live(d)' = Live(d)
            <4>1. Live(d)' = IF Live(d).owner = p THEN Table!NoSession ELSE Live(d)
                BY <1>0, <2>2, <2>3, <3>1, SessionEnds DEF Ends
            <4>2. Live(d).owner # p
                BY <2>2, <2>4, AccountsAssumption DEF Live, SignedIn, Honoured
            <4> QED
                BY <4>1, <4>2
        <3>3. /\ {q \in People : account'[q].status = "approved"}
                    = {q \in People : account[q].status = "approved"}
              /\ [q \in People |-> account'[q].secret] = [q \in People |-> account[q].secret]
            BY <2>3, <2>4, <3>1 DEF SameStanding
        <3> QED
            BY <3>2, <3>3 DEF TableStep, Table!vars
    <2>5. CASE account[p].status = "approved" /\ Change(p, row)
        BY <1>4, <2>2, <2>3, <2>5
    <2> QED
        BY <1>1, <2>1, <2>4, <2>5
<1> QED
    BY <1>5, <1>6, <1>7, <1>8

LEMMA TableNext == SessionsInv /\ [Next]_vars => SessionsInv' /\ [Table!Next]_(Table!vars)
<1> SUFFICES ASSUME SessionsInv, [Next]_vars
             PROVE  SessionsInv' /\ TableStep
    BY DEF TableStep
<1>0. AccountsInv /\ AccountsInv'
    BY AccountsNext DEF SessionsInv
<1>1. CASE UNCHANGED vars
    <2>1. cookie' = cookie /\ \A p \in People : SameStanding(p)
        BY <1>1 DEF vars, SameStanding
    <2>2. \A b \in Browsers : HeldOK(b)'
        BY <1>1 DEF vars, SessionsInv, HeldOK
    <2> QED
        BY <1>0, <2>1, <2>2, Unnoticed DEF SessionsInv, TableStep
<1>2. ASSUME NEW b \in Browsers, BrowserStep(b) PROVE SessionsInv' /\ TableStep
    <2>1. SessionsInv'
        BY <1>0, <1>2, HeldStep DEF SessionsInv
    <2>2. ASSUME cookie' = cookie, \A p \in People : SameStanding(p) PROVE TableStep
        BY <1>0, <2>2, Unnoticed DEF TableStep
    <2>3. ASSUME UNCHANGED <<account, cookie>> PROVE TableStep
        BY <2>2, <2>3 DEF SameStanding
    <2> QED
        BY <1>0, <1>2, <2>1, <2>2, <2>3, QuietReads, QuietSteps, LoginTable, LogoutTable,
           PasswordTable, CommitTable, CloseTable DEF BrowserStep
<1> QED
    BY <1>1, <1>2 DEF Next

LEMMA TableInit == Init => Table!Init
<1> SUFFICES ASSUME Init PROVE Table!Init
    OBVIOUS
<1>1. AccountsInv
    BY AccountsInit
<1>2. \A b \in Browsers : Live(b) = Table!NoSession
    BY DEF Init, NoCookie, Live, SignedIn, Honoured, Table!NoSession
<1>3. \A p \in People : account[p].secret \in Nat
    BY <1>1, RowsTyped
<1> QED
    BY <1>2, <1>3 DEF Table!Init

\* The accounts implement Sessions: with nothing but a counter in each account, the
\* server acts towards the sessions of present registrations as though it kept a table of
\* them, each of which was opened with the password in force and ends with it, whatever
\* requests interleave.
THEOREM SessionsImplemented == Spec => ImplementsSessions
<1>1. Init => SessionsInv
    BY AccountsInit, HeldInit DEF SessionsInv
<1> QED
    BY <1>1, TableInit, TableNext, PTL DEF Spec, ImplementsSessions, Table!Spec
=============================================================================
