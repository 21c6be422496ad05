--------------------------- MODULE DashboardAuth ---------------------------
(***************************************************************************)
(* Logging in to the dashboard (handleAuth, authMiddleware and             *)
(* validateSessionCookie of internal/dashboard/api.go).  handleAuth holds  *)
(* the server's mutex twice: to look at the attempts of the address, and,  *)
(* once it has read the body and compared the token, to record the result. *)
(* In between, for as long as the client takes to send the body, other     *)
(* logins come and go.  Times are relative to the present.                 *)
(***************************************************************************)
EXTENDS Integers, FiniteSets

CONSTANTS
    Logins,         \* login requests that can be in progress at once
    Addresses,      \* what clientIP may be
    Cookies,        \* session tokens
    MaxAttempts,    \* maxLoginAttempts
    Window,         \* loginWindowDuration
    Block,          \* loginBlockDuration
    SessionLife     \* sessionDuration

Nobody == "nobody"

ASSUME LoginAssumption ==
    /\ IsFiniteSet(Logins) /\ Nobody \notin Addresses
    /\ MaxAttempts \in Nat \ {0}    \* NewServer replaces what is not positive
    /\ Window \in Nat \ {0} /\ Block \in Nat \ {0} /\ SessionLife \in Nat \ {0}

VARIABLES
    from,           \* the address of a login between its two sections
    count,          \* loginAttempt.count
    sinceTry,       \* time since loginAttempt.lastTry, Window + 1 for "long"
    blockLeft,      \* time until loginAttempt.blockedUntil, 0 once it is past
    session,        \* the sessions map: time until expiresAt of each cookie
    watched,        \* history: how long wrong tokens have been counted ...
    wrong           \* history: ... and how many of each address there were

authVars == <<from, count, sinceTry, blockLeft, session, watched, wrong>>

NoSession == SessionLife + 1
NotYet == -1

AuthInit ==
    /\ from = [l \in Logins |-> Nobody]
    /\ count = [a \in Addresses |-> 0]
    /\ sinceTry = [a \in Addresses |-> Window + 1]
    /\ blockLeft = [a \in Addresses |-> 0]
    /\ session = [c \in Cookies |-> NoSession]
    /\ watched = NotYet /\ wrong = [a \in Addresses |-> 0]

-----------------------------------------------------------------------------
(* handleAuth.  A login from a blocked address is refused and leaves no    *)
(* trace, so it is no action.                                              *)

\* Mutant: the block is not looked at.
Admit_Unchecked(l, a) ==
    /\ from[l] = Nobody
    /\ from' = [from EXCEPT ![l] = a]
    /\ count' = [count EXCEPT ![a] = IF sinceTry[a] > Window THEN 0 ELSE @]
    /\ sinceTry' = [sinceTry EXCEPT ![a] = 0]
    /\ UNCHANGED <<blockLeft, session, watched, wrong>>

\* Mutant: a login that is refused renews the block.
Admit_RenewsBlock(l, a) ==
    /\ from[l] = Nobody
    /\ \/ /\ blockLeft[a] = 0
          /\ from' = [from EXCEPT ![l] = a]
          /\ count' = [count EXCEPT ![a] = IF sinceTry[a] > Window THEN 0 ELSE @]
          /\ sinceTry' = [sinceTry EXCEPT ![a] = 0]
          /\ UNCHANGED blockLeft
       \/ /\ blockLeft[a] > 0
          /\ blockLeft' = [blockLeft EXCEPT ![a] = Block]
          /\ UNCHANGED <<from, count, sinceTry>>
    /\ UNCHANGED <<session, watched, wrong>>

\* The first section, of an address that is not blocked.
Admit(l, a) ==
    /\ from[l] = Nobody
    /\ blockLeft[a] = 0
    /\ from' = [from EXCEPT ![l] = a]
    /\ count' = [count EXCEPT ![a] = IF sinceTry[a] > Window THEN 0 ELSE @]
    /\ sinceTry' = [sinceTry EXCEPT ![a] = 0]
    /\ UNCHANGED <<blockLeft, session, watched, wrong>>

Leave(l) ==
    /\ from[l] # Nobody
    /\ from' = [from EXCEPT ![l] = Nobody]

\* The body does not decode: nothing is counted.
Malformed(l) ==
    /\ Leave(l)
    /\ UNCHANGED <<count, sinceTry, blockLeft, session, watched, wrong>>

\* Is the history counting?
Watching == watched \in 0..Window

\* The second section, with a wrong token: also the ones admitted before a
\* block that is running now.
WrongToken(l) ==
    LET a == from[l] IN
    /\ Leave(l)
    /\ count' = [count EXCEPT ![a] = @ + 1]
    /\ blockLeft' = [blockLeft EXCEPT ![a] = IF count'[a] >= MaxAttempts THEN Block ELSE @]
    /\ wrong' = [wrong EXCEPT ![a] = IF Watching THEN @ + 1 ELSE @]
    /\ UNCHANGED <<sinceTry, session, watched>>

\* The second section, with the right one: a running block ends too.
RightToken(l) ==
    LET a == from[l] IN
    /\ Leave(l)
    /\ count' = [count EXCEPT ![a] = 0]
    /\ blockLeft' = [blockLeft EXCEPT ![a] = 0]
    /\ \E c \in Cookies : session[c] = NoSession
                          /\ session' = [session EXCEPT ![c] = SessionLife]
    /\ wrong' = [wrong EXCEPT ![a] = 0]
    /\ UNCHANGED <<sinceTry, watched>>

\* validateSessionCookie: an expired session is deleted when it is presented;
\* nothing else changes.
Visit(c) ==
    /\ session[c] < 0
    /\ session' = [session EXCEPT ![c] = NoSession]
    /\ UNCHANGED <<from, count, sinceTry, blockLeft, watched, wrong>>

-----------------------------------------------------------------------------
\* The history starts to count, at any moment.
Watch ==
    /\ watched = NotYet
    /\ watched' = 0
    /\ UNCHANGED <<from, count, sinceTry, blockLeft, session, wrong>>

\* Time passes.
Less(n) == IF n > 0 THEN n - 1 ELSE 0

AuthTick ==
    /\ sinceTry' = [a \in Addresses |->
                      IF sinceTry[a] <= Window THEN sinceTry[a] + 1 ELSE sinceTry[a]]
    /\ blockLeft' = [a \in Addresses |-> Less(blockLeft[a])]
    /\ session' = [c \in Cookies |-> IF session[c] \in 0..SessionLife
                                        THEN session[c] - 1 ELSE session[c]]
    /\ watched' = IF Watching THEN watched + 1 ELSE watched
    /\ UNCHANGED <<from, count, wrong>>

Attempt(l) ==
    \/ \E a \in Addresses : Admit(l, a)
    \/ Malformed(l) \/ WrongToken(l) \/ RightToken(l)

AuthNext ==
    \/ \E l \in Logins : Attempt(l)
    \/ \E c \in Cookies : Visit(c)
    \/ Watch \/ AuthTick

AuthSpec == AuthInit /\ [][AuthNext]_authVars

-----------------------------------------------------------------------------
(* Properties                                                              *)

\* In any stretch of time as long as the window, an address that does not come
\* up with the right token has at most 2 * (MaxAttempts - 1) wrong ones compared,
\* and one more for each login that can be in progress: the count of one window
\* may be followed by that of the next, because a window is measured from when
\* logins were admitted and not from when they failed, and those in progress
\* when a block begins are compared all the same (handleAuth).
GuessesBounded ==
    Block > Window =>
        \A a \in Addresses :
            wrong[a] <= 2 * (MaxAttempts - 1) + Cardinality(Logins)

\* A block ends, although logins admitted before it go on failing and renew it
\* (handleAuth).
BlockEnds == \A a \in Addresses : blockLeft[a] > 0 ~> blockLeft[a] = 0
=============================================================================
