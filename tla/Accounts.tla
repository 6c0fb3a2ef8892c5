------------------------------- MODULE Accounts -------------------------------
(***************************************************************************)
(* User accounts, role templates, passwords and sessions                   *)
(* (cloudflare-app/src/domains/identity, src/auth).                        *)
(*                                                                         *)
(* A session is a signed cookie; the server keeps nothing of it but the    *)
(* session_epoch of the account, which ends every session of the account   *)
(* when it moves on.  row_version guards what an administrator has seen of *)
(* an account, session_epoch what a credential change has seen.  Every     *)
(* request reads first and writes in one guarded batch later; the requests *)
(* of several browsers interleave.                                         *)
(*                                                                         *)
(* Not here: sign-up requests of the past, accounts under security review, *)
(* demonstration accounts and the login throttle.                          *)
(*                                                                         *)
(* A deleted account leaves no row: its username may be registered again,  *)
(* with another id, but from epoch 0 and version 1 once more.              *)
(***************************************************************************)
EXTENDS Naturals, FiniteSets

CONSTANTS
    People,      \* usernames
    Nobody,
    Admins,      \* the accounts that have role 'Admin' from the start
    Legacy,      \* accounts of an earlier release that have not signed in since: their
                 \* passwords are in its format
    Templates,   \* keys of user_role_templates
    Custom,      \* no template
    Bundles,     \* sets of permissions
    NoBundle,    \* the empty one
    Browsers,    \* each with one cookie and one request at a time
    MaxChanges   \* bound: committed changes of accounts and templates

ASSUME AccountsAssumption ==
    /\ Admins \subseteq People /\ Legacy \subseteq People /\ Nobody \notin People
    /\ Custom \notin Templates /\ NoBundle \in Bundles /\ MaxChanges \in Nat

NoCookie == [owner |-> Nobody, epoch |-> 0, id |-> 0, secret |-> 0]

VARIABLES
    account,   \* app_users, by username
    template,  \* user_role_templates
    cookie,    \* the session of each browser.  It says whose it is and of which epoch;
               \* id and secret are history: the row and the password it was opened with
    pc,        \* what the request of each browser does next
    on,        \* the accounts or the template it is about
    seen,      \* the accounts as the request, or the page it came from, has read them
    shown,     \* the templates as the page has shown them
    changes

requests == <<cookie, pc, on, seen, shown>>
vars == <<account, template, cookie, pc, on, seen, shown, changes>>

\* No row, and the id that the next registration will take (AUTOINCREMENT: none is
\* taken twice).  The passwords of a username are numbered; secret is its last.
NoRow(id, secret) ==
    [status |-> "absent", role |-> "User", id |-> id, version |-> 0, epoch |-> 0,
     secret |-> secret, legacy |-> FALSE, key |-> Custom, permissions |-> NoBundle]
Blank(p) == NoRow(0, 0)
NoTemplate == [permissions |-> NoBundle, version |-> 0]

\* createApprovedUser: row_version and session_epoch are the defaults of the table.
Registered(row) ==
    [NoRow(row.id, row.secret + 1) EXCEPT !.status = "approved", !.version = 1]

\* createPasswordRecord: another password or the same one, in the new format.
Stored(row, secret) == [row EXCEPT !.secret = secret, !.legacy = FALSE]

Init ==
    /\ \E registered \in SUBSET People, first \in Bundles :
        /\ Admins \subseteq registered
        /\ account = [p \in People |->
                        IF p \in registered
                        THEN [Registered(Blank(p)) EXCEPT
                                !.legacy = p \in Legacy, !.role = IF p \in Admins THEN "Admin" ELSE "User"]
                        ELSE Blank(p)]
        /\ template = [t \in Templates |-> [permissions |-> first, version |-> 1]]
    /\ cookie = [b \in Browsers |-> NoCookie]
    /\ pc = [b \in Browsers |-> "idle"]
    /\ on = [b \in Browsers |-> {}]
    /\ seen = [b \in Browsers |-> [p \in People |-> Blank(p)]]
    /\ shown = [b \in Browsers |-> [t \in Templates |-> NoTemplate]]
    /\ changes = 0

-----------------------------------------------------------------------------
(* What a request goes through *)

\* readSession: by username and epoch, whichever row that is now.
Honoured(c) ==
    /\ c.owner # Nobody
    /\ account[c.owner].status = "approved" /\ account[c.owner].epoch = c.epoch
SignedIn(b) == Honoured(cookie[b])
AdminAt(b) == SignedIn(b) /\ account[cookie[b].owner].role = "Admin"

\* The request of b reads the accounts P and the templates T, and goes on to step
\* a for the accounts or the template S.
ReadAll(b, a, S, P, T) ==
    /\ pc[b] = "idle"
    /\ pc' = [pc EXCEPT ![b] = a]
    /\ on' = [on EXCEPT ![b] = S]
    /\ seen' = [seen EXCEPT ![b] = [p \in People |-> IF p \in P THEN account[p] ELSE Blank(p)]]
    /\ shown' = [shown EXCEPT ![b] = [t \in Templates |-> IF t \in T THEN template[t] ELSE NoTemplate]]
    /\ UNCHANGED <<account, template, cookie, changes>>
Read(b, a, p) == ReadAll(b, a, {p}, {p}, {})

\* WHERE id = ?, with the id that b has read.
SameRow(b, p) == account[p].status # "absent" /\ account[p].id = seen[b][p].id

Done(b) ==
    /\ pc' = [pc EXCEPT ![b] = "idle"]
    /\ on' = [on EXCEPT ![b] = {}]
    /\ seen' = [seen EXCEPT ![b] = [p \in People |-> Blank(p)]]
    /\ shown' = [shown EXCEPT ![b] = [t \in Templates |-> NoTemplate]]

Change(p, row) ==
    /\ changes < MaxChanges /\ changes' = changes + 1
    /\ account' = [account EXCEPT ![p] = row]
NoChange == UNCHANGED <<account, changes>>

\* The last statement of a request about one account.
Commit(b, a, Guard(_), Row(_)) ==
    /\ pc[b] = a
    /\ \E p \in on[b] : IF Guard(p) THEN Change(p, Row(p)) ELSE NoChange
    /\ Done(b)
    /\ UNCHANGED template

-----------------------------------------------------------------------------
(* Signing in and out *)

\* validateUser: the account is approved and the password is the stored one.
LoginRead(b, p) ==
    /\ cookie[b] = NoCookie
    /\ account[p].status = "approved"
    /\ Read(b, IF account[p].legacy THEN "upgrade" ELSE "welcome", p)

\* The password is stored again in the new format, unless it has changed.
StoredAnyway(b, p) == SameRow(b, p)
StoredAsRead(b, p) ==
    /\ SameRow(b, p)
    /\ account[p].secret = seen[b][p].secret /\ account[p].legacy = seen[b][p].legacy

LoginUpgrade(b) ==
    /\ pc[b] = "upgrade"
    /\ \E p \in on[b] :
        account' = [account EXCEPT ![p] =
                        IF StoredAsRead(b, p)
                        THEN Stored(@, seen[b][p].secret)
                        ELSE @]
    /\ pc' = [pc EXCEPT ![b] = "welcome"]
    /\ UNCHANGED <<template, cookie, on, seen, shown, changes>>

\* createSessionCookie: the cookie names the account and its epoch.
Session(p, row) == [owner |-> p, epoch |-> row.epoch, id |-> row.id, secret |-> row.secret]

LoginDone(b) ==
    /\ pc[b] = "welcome"
    /\ \E p \in on[b] :
        cookie' = [cookie EXCEPT ![b] = Session(p, seen[b][p])]
    /\ Done(b)
    /\ UNCHANGED <<account, template, changes>>

\* revokeUserSessions, only from the epoch of this session.
Logout(b) ==
    /\ pc[b] = "idle" /\ SignedIn(b)
    /\ LET p == cookie[b].owner
       IN  Change(p, [account[p] EXCEPT !.epoch = @ + 1])
    /\ cookie' = [cookie EXCEPT ![b] = NoCookie]
    /\ UNCHANGED <<template, pc, on, seen, shown>>

-----------------------------------------------------------------------------
(* Credentials *)

\* session_epoch of the account after its credentials change.
SameEpoch(e) == e
NextEpoch(e) == e + 1
Renewed(p) ==
    [Stored(account[p], account[p].secret + 1) EXCEPT !.epoch = NextEpoch(@)]

\* readSession, before handleChangePassword: changeUserPassword reads the row again.
PasswordAsk(b) ==
    /\ SignedIn(b)
    /\ ReadAll(b, "verify", {cookie[b].owner}, {}, {})

\* changeUserPassword: the row of that username, against which the password given as
\* the present one is verified; then the new one, by username and epoch, with a new
\* cookie for the browser.
PasswordRead(b) ==
    /\ pc[b] = "verify"
    /\ \E p \in on[b] :
        IF account[p].status = "approved"
        THEN /\ pc' = [pc EXCEPT ![b] = "password"]
             /\ seen' = [seen EXCEPT ![b] = [@ EXCEPT ![p] = account[p]]]
             /\ UNCHANGED <<on, shown>>
        ELSE Done(b)
    /\ UNCHANGED <<account, template, cookie, changes>>
PasswordCommit(b) ==
    /\ pc[b] = "password"
    /\ \E p \in on[b] :
        IF account[p].status = "approved" /\ account[p].epoch = seen[b][p].epoch
        THEN /\ Change(p, Renewed(p))
             /\ cookie' = [cookie EXCEPT ![b] = Session(p, Renewed(p))]
        ELSE NoChange /\ UNCHANGED cookie
    /\ Done(b)
    /\ UNCHANGED template

\* resetUserPassword
ResetRead(b, p) ==
    /\ AdminAt(b) /\ cookie[b].owner # p
    /\ account[p].status \in {"approved", "disabled"}
    /\ Read(b, "reset", p)
ResetCommit(b) ==
    /\ LET Guard(p) == SameRow(b, p) /\ account[p].epoch = seen[b][p].epoch
       IN  Commit(b, "reset", Guard, Renewed)
    /\ UNCHANGED cookie

-----------------------------------------------------------------------------
(* Accounts *)

\* createApprovedUser
CreateRead(b, p) ==
    /\ AdminAt(b)
    /\ account[p].status = "absent"
    /\ Read(b, "create", p)
CreateCommit(b) ==
    /\ LET Guard(p) == account[p].status = "absent"
           Row(p) == Registered(account[p])
       IN  Commit(b, "create", Guard, Row)
    /\ UNCHANGED cookie

\* transitionUserStatus: disable and enable, not of an administrator.
StatusRead(b, p) ==
    /\ AdminAt(b)
    /\ account[p].role = "User"
    /\ \/ account[p].status = "approved" /\ Read(b, "disable", p)
       \/ account[p].status = "disabled" /\ Read(b, "enable", p)
Moved(p, status) ==
    [account[p] EXCEPT !.status = status, !.epoch = @ + 1, !.version = @ + 1]
StatusCommit(b) ==
    /\ \/ LET Guard(p) == SameRow(b, p) /\ account[p].status = "approved"
              Row(p) == Moved(p, "disabled")
          IN  Commit(b, "disable", Guard, Row)
       \/ LET Guard(p) == SameRow(b, p) /\ account[p].status = "disabled"
              Row(p) == Moved(p, "approved")
          IN  Commit(b, "enable", Guard, Row)
    /\ UNCHANGED cookie

\* userDeletionRefusal: not oneself, and another administrator is left.
OtherAdminLeft(p) ==
    \E q \in People \ {p} : account[q].role = "Admin" /\ account[q].status = "approved"
Deletable(b, p) == cookie[b].owner # p /\ (account[p].role = "Admin" => OtherAdminLeft(p))
DeleteRead(b, p) ==
    /\ AdminAt(b)
    /\ account[p].status \in {"approved", "disabled"} /\ Deletable(b, p)
    /\ Read(b, "delete", p)
DeleteCommit(b) ==
    /\ LET Guard(p) == SameRow(b, p) /\ account[p].version = seen[b][p].version
           Row(p) == NoRow(account[p].id + 1, account[p].secret)
       IN  Commit(b, "delete", Guard, Row)
    /\ UNCHANGED cookie

-----------------------------------------------------------------------------
(* Permissions and templates *)

Manageable(p) == account[p].role = "User" /\ account[p].status \in {"approved", "disabled"}

\* renderUserPermissions: the page holds the versions of what it shows.
PermissionsPage(b, p) == AdminAt(b) /\ Manageable(p)
                         /\ ReadAll(b, "permissions", {p}, {p}, Templates)

\* handleUserPermissions with a template: its version is compared when the
\* request reads it, the version of the account in the batch as well.
PermissionsSubmit(b, t) ==
    /\ pc[b] = "permissions"
    /\ IF AdminAt(b) /\ template[t].version = shown[b][t].version
            /\ \A p \in on[b] : SameRow(b, p) /\ account[p].version = seen[b][p].version
         THEN pc' = [pc EXCEPT ![b] = "assign"] /\ on' = [on EXCEPT ![b] = {<<p, t>> : p \in @}]
              /\ UNCHANGED <<seen, shown>>
         ELSE Done(b)
    /\ UNCHANGED <<account, template, cookie, changes>>

\* updateUserPermissions
VersionIgnored(b, p) == TRUE
VersionAsSeen(b, p) == account[p].version = seen[b][p].version
Assigned(p, t, permissions) ==
    [account[p] EXCEPT !.key = t, !.permissions = permissions, !.version = @ + 1]

AssignCommit(b) ==
    /\ pc[b] = "assign"
    /\ \E assignment \in on[b] :
        LET p == assignment[1]
            t == assignment[2]
        IN  IF VersionAsSeen(b, p) /\ SameRow(b, p)
            THEN Change(p, Assigned(p, t, shown[b][t].permissions))
            ELSE NoChange
    /\ Done(b)
    /\ UNCHANGED <<template, cookie>>

\* renderRoleTemplateEdit shows the template and the accounts it can go to.
TemplatePage(b, t) == AdminAt(b) /\ ReadAll(b, "template", {t}, People, {t})

\* updateRoleTemplate
TemplateCommit(b, permissions) ==
    /\ pc[b] = "template"
    /\ \E t \in on[b] :
        IF template[t].version = shown[b][t].version
        THEN /\ changes < MaxChanges /\ changes' = changes + 1
             /\ template' = [template EXCEPT ![t] =
                                [permissions |-> permissions, version |-> @.version + 1]]
        ELSE UNCHANGED <<template, changes>>
    /\ Done(b)
    /\ UNCHANGED <<account, cookie>>

\* applyRoleTemplateToUsers: all of the chosen accounts, or none.
BulkCommit(b, P) ==
    /\ pc[b] = "template"
    /\ P # {} /\ \A p \in P : seen[b][p].role = "User" /\ seen[b][p].status = "approved"
    /\ \E t \in on[b] :
        IF /\ template[t].version = shown[b][t].version
           /\ \A p \in P : SameRow(b, p) /\ account[p].status = "approved" /\ VersionAsSeen(b, p)
        THEN /\ changes < MaxChanges /\ changes' = changes + 1
             /\ account' = [p \in People |->
                                IF p \in P THEN Assigned(p, t, shown[b][t].permissions)
                                ELSE account[p]]
        ELSE NoChange
    /\ Done(b)
    /\ UNCHANGED <<template, cookie>>

-----------------------------------------------------------------------------
\* The cookie expires or is discarded, or the request is lost.
BrowserCloses(b) ==
    /\ cookie[b] # NoCookie \/ pc[b] # "idle"
    /\ cookie' = [cookie EXCEPT ![b] = NoCookie]
    /\ Done(b)
    /\ UNCHANGED <<account, template, changes>>

BrowserStep(b) ==
    \/ \E p \in People : LoginRead(b, p) \/ ResetRead(b, p) \/ CreateRead(b, p)
                         \/ StatusRead(b, p) \/ DeleteRead(b, p) \/ PermissionsPage(b, p)
    \/ LoginUpgrade(b) \/ LoginDone(b) \/ Logout(b)
    \/ PasswordAsk(b) \/ PasswordRead(b) \/ PasswordCommit(b) \/ ResetCommit(b)
    \/ CreateCommit(b) \/ StatusCommit(b) \/ DeleteCommit(b)
    \/ \E t \in Templates : PermissionsSubmit(b, t) \/ TemplatePage(b, t)
    \/ AssignCommit(b)
    \/ \E permissions \in Bundles : TemplateCommit(b, permissions)
    \/ \E P \in SUBSET People : BulkCommit(b, P)
    \/ BrowserCloses(b)

Next == \E b \in Browsers : BrowserStep(b)

Spec == Init /\ [][Next]_vars

-----------------------------------------------------------------------------
(* Properties *)

\* The cookie is of the account as it is registered now, not of a deleted one that had
\* the name before: a cookie does not say which, and readSession does not ask.
Present(c) == c.id = account[c.owner].id

\* A session of the present registration that is honoured was opened with the password
\* still in force: every change of a password, however it interleaves with logins, ends
\* the others.
SessionsCurrent ==
    \A b \in Browsers :
        SignedIn(b) /\ Present(cookie[b]) => cookie[b].secret = account[cookie[b].owner].secret

\* For the sessions of present registrations, the epochs in the cookies and in the
\* accounts do what a table of sessions would: whatever requests interleave, a session is
\* opened with the password in force only, ends with it or with the approval of the
\* account, and does not come back; nor does a replaced password, although a login
\* stores again the one that it has verified.
Live(b) ==
    IF SignedIn(b) /\ Present(cookie[b])
    THEN [owner |-> cookie[b].owner, password |-> cookie[b].secret]
    ELSE [owner |-> Nobody, password |-> 0]
Table == INSTANCE Sessions WITH
    session <- [b \in Browsers |-> Live(b)],
    allowed <- {p \in People : account[p].status = "approved"},
    password <- [p \in People |-> account[p].secret]
ImplementsSessions == Table!Spec

\* What an administrator assigns replaces what the page has shown, and is the
\* content of one version of the template that carries the label.
AssignedAsShown ==
    [][\A b \in Browsers, p \in People :
        /\ pc[b] \in {"assign", "template"} /\ pc'[b] = "idle"
        /\ account'[p].version # account[p].version
        => /\ account[p].key = seen[b][p].key
           /\ account[p].permissions = seen[b][p].permissions
           /\ account'[p].permissions = shown[b][account'[p].key].permissions]_vars
=============================================================================
