---- MODULE OAuthLedger ----
(***************************************************************************)
(* What the authorization server promises, without transactions, retries,  *)
(* locks, clocks or garbage collection: a ledger of the credentials handed *)
(* out and of those that are spent. Every entry is written by one step.    *)
(***************************************************************************)

CONSTANTS Token, Client, Confidential, User, Scopes, None

VARIABLES
    ledger,     \* ledger[t]: what credential t is worth, or None
    spent       \* credentials redeemed or revoked

vars == <<ledger, spent>>

Credential == [kind : {"code", "access", "refresh"}, client : Client,
               user : User \cup {None}, scope : Scopes,
               parent : Token \cup {None}]

Unused(t) == ledger[t] = None

\* This step hands t out.
HandsOut(t) == ledger[t] = None /\ ledger'[t] # None

Init ==
    /\ ledger = [t \in Token |-> None]
    /\ spent = {}

\* A resource owner hands a client an authorization code.
HandOutCode(t) ==
    /\ HandsOut(t)
    /\ UNCHANGED spent
    /\ \E c \in Client, u \in User, s \in Scopes :
        ledger' = [ledger EXCEPT ![t] =
            [kind |-> "code", client |-> c, user |-> u, scope |-> s,
             parent |-> None]]

\* A credential derived from another: same client, same owner, same scope.
Derived(p, kind) ==
    [kind |-> kind, client |-> ledger[p].client, user |-> ledger[p].user,
     scope |-> ledger[p].scope, parent |-> p]

\* The code is spent and its pair of tokens handed out in one step.
Exchange(p) ==
    /\ ~Unused(p) /\ p \notin spent
    /\ ledger[p].kind = "code"
    /\ spent' = spent \cup {p}
    /\ \E a, f \in Token :
        /\ HandsOut(a) /\ HandsOut(f) /\ a # f
        /\ ledger' = [ledger EXCEPT ![a] = Derived(p, "access"),
                                    ![f] = Derived(p, "refresh")]

\* A refresh token yields access tokens; a revocation may be under way.
Refresh(p) ==
    /\ ~Unused(p)
    /\ ledger[p].kind = "refresh"
    /\ UNCHANGED spent
    /\ \E a \in Token :
        /\ HandsOut(a)
        /\ ledger' = [ledger EXCEPT ![a] = Derived(p, "access")]

\* A client that keeps a secret obtains a token of its own.
HandOutOwnerless(a) ==
    /\ HandsOut(a)
    /\ UNCHANGED spent
    /\ \E c \in Confidential, s \in Scopes :
        ledger' = [ledger EXCEPT ![a] =
            [kind |-> "access", client |-> c, user |-> None, scope |-> s,
             parent |-> None]]

Spend(p) ==
    /\ ~Unused(p)
    /\ spent' = spent \cup {p}
    /\ UNCHANGED ledger

Next ==
    \E t \in Token :
        HandOutCode(t) \/ HandOutOwnerless(t) \/ Exchange(t) \/ Refresh(t) \/ Spend(t)

Spec == Init /\ [][Next]_vars

====
