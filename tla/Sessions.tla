------------------------------- MODULE Sessions -------------------------------
(***************************************************************************)
(* What the accounts promise about the sessions of accounts as they are    *)
(* registered now, without cookies, epochs and requests: the server acts   *)
(* as though it kept a table of them.  A session is opened with the        *)
(* password in force, by somebody who may sign in; a new password and a    *)
(* change of status end the sessions of the account in the same step; and  *)
(* what has ended does not come back.                                      *)
(***************************************************************************)
EXTENDS Naturals

CONSTANTS People, Nobody, Browsers

VARIABLES
    session,    \* who is signed in at each browser, and with which password
    allowed,    \* the accounts that are approved
    password    \* the password in force of each account

NoSession == [owner |-> Nobody, password |-> 0]

Init ==
    /\ session = [b \in Browsers |-> NoSession]
    /\ allowed \subseteq People
    /\ password \in [People -> Nat]

\* The sessions with none of p.
Without(p) == [b \in Browsers |-> IF session[b].owner = p THEN NoSession ELSE session[b]]

\* The passwords of all but p are what they were.
OthersKeep(p) == \A q \in People \ {p} : password'[q] = password[q]

SignIn(b, p) ==
    /\ session[b] = NoSession /\ p \in allowed
    /\ session' = [session EXCEPT ![b] = [owner |-> p, password |-> password[p]]]
    /\ UNCHANGED <<allowed, password>>

Leave(b) ==
    /\ UNCHANGED <<allowed, password>>
    /\ session' = [session EXCEPT ![b] = NoSession]

\* Signing out is signing out everywhere.
SignOut(p) ==
    /\ session' = Without(p)
    /\ UNCHANGED <<allowed, password>>

\* A new password, given at a browser that is signed in with it from then on.
Renew(b, p) ==
    /\ p \in allowed /\ session[b].owner \in {p, Nobody}
    /\ password'[p] > password[p] /\ OthersKeep(p)
    /\ session' = [Without(p) EXCEPT ![b] = [owner |-> p, password |-> password'[p]]]
    /\ UNCHANGED allowed

\* A new password, given by an administrator.
Reset(p) ==
    /\ password'[p] > password[p] /\ OthersKeep(p)
    /\ session' = Without(p)
    /\ UNCHANGED allowed

\* An account is created, with its first password, or enabled.
Admit(p) ==
    /\ p \notin allowed /\ allowed' = allowed \cup {p}
    /\ password'[p] >= password[p] /\ OthersKeep(p)
    /\ UNCHANGED session

\* An account is disabled or deleted.
Bar(p) ==
    /\ p \in allowed /\ allowed' = allowed \ {p}
    /\ session' = Without(p)
    /\ UNCHANGED password

Next ==
    \/ \E b \in Browsers : Leave(b)
    \/ \E p \in People :
        \/ SignOut(p) \/ Reset(p) \/ Admit(p) \/ Bar(p)
        \/ \E b \in Browsers : SignIn(b, p) \/ Renew(b, p)

vars == <<session, allowed, password>>
Spec == Init /\ [][Next]_vars
=============================================================================
