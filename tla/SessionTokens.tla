--------------------------- MODULE SessionTokens ---------------------------
(***************************************************************************)
(* What the login server promises the game gateway about sessions and      *)
(* tokens, without saying how: a session belongs to one account, it is open*)
(* once, each token issued for it replaces the one before, and a token     *)
(* admits one login to the game server.                                    *)
(***************************************************************************)
EXTENDS Naturals

CONSTANTS Session, Account, Login, Nil

VARIABLES
    live,      \* the open sessions: account, token that admits, tokens issued
    used,      \* the sessions that have been opened
    admitted   \* the logins that were admitted, and by what

vars == <<live, used, admitted>>

Open(s, account) ==
    /\ s \notin used
    /\ used' = used \cup {s}
    /\ live' = [live EXCEPT ![s] =
                    [account |-> account, token |-> Nil, issued |-> 0]]
    /\ UNCHANGED admitted

Issue(s) ==
    /\ live[s] # Nil
    /\ live' = [live EXCEPT ![s].token  = live[s].issued + 1,
                            ![s].issued = live[s].issued + 1]
    /\ UNCHANGED <<used, admitted>>

Admit(g, s) ==
    /\ admitted[g] = Nil
    /\ live[s] # Nil /\ live[s].token # Nil
    /\ admitted' = [admitted EXCEPT ![g] =
                        [session |-> s, token |-> live[s].token,
                         account |-> live[s].account]]
    /\ live' = [live EXCEPT ![s].token = Nil]
    /\ UNCHANGED used

Expire(s) ==
    /\ live[s] # Nil
    /\ live' = [live EXCEPT ![s] = Nil]
    /\ UNCHANGED <<used, admitted>>

Init ==
    /\ live = [s \in Session |-> Nil]
    /\ used = {}
    /\ admitted = [g \in Login |-> Nil]

Next ==
    \E s \in Session :
        \/ \E account \in Account : Open(s, account)
        \/ Issue(s)
        \/ \E g \in Login : Admit(g, s)
        \/ Expire(s)

Spec == Init /\ [][Next]_vars

\* No token admits two logins (login_slave.lua:161-162).
TokenOnce ==
    \A g, h \in Login :
        admitted[g] # Nil /\ admitted[h] # Nil /\ g # h =>
            \/ admitted[g].session # admitted[h].session
            \/ admitted[g].token # admitted[h].token

\* All logins of a session are logins of one account.
OneAccount ==
    \A g, h \in Login :
        admitted[g] # Nil /\ admitted[h] # Nil
        /\ admitted[g].session = admitted[h].session =>
            admitted[g].account = admitted[h].account
=============================================================================
