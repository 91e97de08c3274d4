------------------------------ MODULE Sessions ------------------------------
(***************************************************************************)
(* Authentication (internal/auth/service.go): the administrator's password *)
(* and the sessions, both in the memory of the process.                    *)
(*                                                                         *)
(* Only the map is under the lock.  Requests run side by side, and each of *)
(* them is several steps:                                                  *)
(*                                                                         *)
(*   login     compare with the password, insert a session                 *)
(*   change    compare with the password, replace it and drop the sessions *)
(*   others    copy the session, look at the clock, delete it if expired   *)
(*                                                                         *)
(* The password is a Go string, read without the lock while another        *)
(* request assigns it.  All hashes have the same length, so that a torn    *)
(* read is a read of the old or of the new one, which the interleavings of *)
(* the steps cover.                                                        *)
(***************************************************************************)
EXTENDS Naturals, FiniteSets

CONSTANTS Callers,
          Tokens,       \* the random tokens of the process, each used once
          Passwords,
          Short,        \* passwords of fewer than 6 characters
          Configured,   \* JAGAD_ADMIN_PASS
          NoToken,      \* no cookie, an empty header
          Life,         \* 24 hours
          MaxTime,      \* bound: the clock
          MaxRequests,  \* bound: requests
          MaxRestarts   \* bound: restarts of the process

ASSUME SessionsAssumption ==
    /\ Short \subseteq Passwords /\ Configured \in Passwords
    /\ NoToken \notin Tokens
    /\ "none" \notin Passwords \* no password given
    /\ Life \in Nat /\ MaxTime \in Nat /\ MaxRequests \in Nat /\ MaxRestarts \in Nat

VARIABLES
    adminPass,
    sessions,   \* the tokens in the map
    expires,    \* sessionInfo.ExpiresAt of the tokens ever put in the map
    clock,
    pc, arg,    \* callers: the next step and what it needs
    cookie,     \* the cookie "session" of each caller
    used,       \* history: the password each session was opened with
    ended,      \* history: tokens logged out, or dropped by a new password or a restart
    straddling, \* history: sessions of logins that a change of password overtook
    overtaken,  \* history: the password changed since the caller compared it
    requests, restarts

memory == <<adminPass, sessions, expires>>
history == <<used, ended, straddling, overtaken>>
bounds == <<requests, restarts>>
vars == <<memory, clock, pc, arg, cookie, history, bounds>>

-----------------------------------------------------------------------------
(* Definitions named "...Bug" are variants with a plausible mistake, which a *)
(* property must reject; no specification uses them.                         *)

Issued == {t \in Tokens : used[t] # "none"}
Argument(pass, new, token, valid) ==
    [pass |-> pass, new |-> new, token |-> token, valid |-> valid, expires |-> 0]
NoArgument == Argument("none", "none", NoToken, FALSE)

\* What a session is for: opened, not ended by anybody, not older than its life.
Valid(t) == t \in Issued \ ended /\ clock <= expires[t]

Init ==
    /\ adminPass = Configured /\ sessions = {} /\ clock = 0
    /\ expires = [t \in Tokens |-> 0] /\ used = [t \in Tokens |-> "none"]
    /\ pc = [c \in Callers |-> "idle"] /\ arg = [c \in Callers |-> NoArgument]
    /\ cookie = [c \in Callers |-> NoToken]
    /\ ended = {} /\ straddling = {} /\ overtaken = [c \in Callers |-> FALSE]
    /\ requests = 0 /\ restarts = 0

Goto(c, l) == pc' = [pc EXCEPT ![c] = l]

Request(c, l, a) ==
    /\ pc[c] = "idle" /\ requests < MaxRequests
    /\ requests' = requests + 1
    /\ Goto(c, l)
    /\ arg' = [arg EXCEPT ![c] = a]
    /\ overtaken' = [overtaken EXCEPT ![c] = FALSE]
    /\ UNCHANGED <<memory, clock, cookie, used, ended, straddling, restarts>>

\* The answer has been read by the caller.
Return(c) ==
    /\ pc[c] \in {"served", "refused"}
    /\ Goto(c, "idle")
    /\ arg' = [arg EXCEPT ![c] = NoArgument]
    /\ UNCHANGED <<memory, clock, cookie, history, bounds>>

-----------------------------------------------------------------------------
(* Login.  The user name is right, or the request is refused as for a wrong *)
(* password.                                                                *)
HandleLogin(c) ==
    \E p \in Passwords :
        Request(c, IF p = adminPass THEN "insert" ELSE "refused",
                Argument(p, "none", NoToken, FALSE))

InsertSession(c) ==
    /\ pc[c] = "insert"
    /\ \E t \in Tokens \ Issued :
        /\ sessions' = sessions \cup {t}
        /\ expires' = [expires EXCEPT ![t] = clock + Life]
        /\ used' = [used EXCEPT ![t] = arg[c].pass]
        /\ straddling' = IF overtaken[c] THEN straddling \cup {t} ELSE straddling
        /\ cookie' = [cookie EXCEPT ![c] = t]
    /\ Goto(c, "served")
    /\ arg' = [arg EXCEPT ![c].valid = TRUE]
    /\ UNCHANGED <<adminPass, clock, ended, overtaken, bounds>>

-----------------------------------------------------------------------------
(* Requests with a session.  Middleware takes the cookie, or else the       *)
(* header with any token that was issued; HandleCheck has only the cookie.  *)
(* "valid" notes whether the session was good when the request arrived.     *)
Middleware(c) ==
    \E h \in Issued \cup {NoToken} :
        LET t == IF cookie[c] # NoToken THEN cookie[c] ELSE h IN
        Request(c, "validate", Argument("none", "none", t, Valid(t)))

HandleCheck(c) ==
    Request(c, IF cookie[c] = NoToken THEN "refused" ELSE "check",
            Argument("none", "none", cookie[c], Valid(cookie[c])))

\* Under the read lock.
CopySession(c) ==
    /\ pc[c] \in {"validate", "check"}
    /\ IF arg[c].token \in sessions
       THEN /\ Goto(c, IF pc[c] = "check" THEN "look" ELSE "clock")
            /\ arg' = [arg EXCEPT ![c].expires = expires[arg[c].token]]
       ELSE Goto(c, "refused") /\ UNCHANGED arg
    /\ UNCHANGED <<memory, clock, cookie, history, bounds>>

ExpiredNeverBug(c) == FALSE \* no comparison with the clock

ExpiredEarlyBug(c) == clock >= arg[c].expires

Expired(c) == clock > arg[c].expires

LookAtClock(c) ==
    /\ pc[c] \in {"clock", "look"}
    /\ Goto(c, IF ~Expired(c) THEN "served" ELSE IF pc[c] = "clock" THEN "purge" ELSE "refused")
    /\ UNCHANGED <<memory, clock, arg, cookie, history, bounds>>

\* The write lock is taken again to delete what has expired.
Purge(c) ==
    /\ pc[c] = "purge"
    /\ sessions' = sessions \ {arg[c].token}
    /\ Goto(c, "refused")
    /\ UNCHANGED <<adminPass, expires, clock, arg, cookie, history, bounds>>

\* A caller without the cookie logs nobody out.
HandleLogout(c) ==
    /\ pc[c] = "idle" /\ requests < MaxRequests
    /\ requests' = requests + 1
    /\ sessions' = sessions \ {cookie[c]}
    /\ ended' = ended \cup ({cookie[c]} \cap Tokens)
    /\ cookie' = [cookie EXCEPT ![c] = NoToken]
    /\ UNCHANGED <<adminPass, expires, clock, pc, arg, used, straddling, overtaken, restarts>>

-----------------------------------------------------------------------------
(* Change of password: two steps, as for a login. *)
ComparesOkBug(p, new) == new \notin Short \* the current password is not asked for

ComparesOk(p, new) == p = adminPass /\ new \notin Short

HandleChangePassword(c) ==
    \E p \in Passwords, new \in Passwords :
        Request(c, IF ComparesOk(p, new) THEN "replace" ELSE "refused",
                Argument(p, new, NoToken, FALSE))

\* Every other request that has compared is overtaken.
Overtake(c) == overtaken' = [d \in Callers |-> overtaken[d] \/ (d # c /\ pc[d] \in {"insert", "replace"})]

ReplacePasswordOwnBug(c) == \* only the session of the caller is dropped
    /\ pc[c] = "replace"
    /\ adminPass' = arg[c].new
    /\ sessions' = sessions \ {cookie[c]}
    /\ ended' = ended \cup ({cookie[c]} \cap Tokens)
    /\ cookie' = [cookie EXCEPT ![c] = NoToken]
    /\ Overtake(c)
    /\ Goto(c, "idle")
    /\ arg' = [arg EXCEPT ![c] = NoArgument]
    /\ UNCHANGED <<expires, clock, used, straddling, bounds>>

ReplacePassword(c) ==
    /\ pc[c] = "replace"
    /\ adminPass' = arg[c].new
    /\ sessions' = {}
    /\ ended' = ended \cup sessions
    /\ cookie' = [cookie EXCEPT ![c] = NoToken]
    /\ Overtake(c)
    /\ Goto(c, "idle")
    /\ arg' = [arg EXCEPT ![c] = NoArgument]
    /\ UNCHANGED <<expires, clock, used, straddling, bounds>>

-----------------------------------------------------------------------------
Tick ==
    /\ clock < MaxTime
    /\ clock' = clock + 1
    /\ UNCHANGED <<memory, pc, arg, cookie, history, bounds>>

\* NewService: a password that was changed is the configured one again, and
\* nobody is logged in; the cookies of the browsers outlive the process.
Restart ==
    /\ restarts < MaxRestarts
    /\ restarts' = restarts + 1
    /\ adminPass' = Configured /\ sessions' = {}
    /\ ended' = ended \cup sessions
    /\ pc' = [c \in Callers |-> "idle"] /\ arg' = [c \in Callers |-> NoArgument]
    /\ UNCHANGED <<expires, clock, cookie, used, straddling, overtaken, requests>>

Next ==
    \/ \E c \in Callers :
        \/ HandleLogin(c) \/ InsertSession(c)
        \/ Middleware(c) \/ HandleCheck(c) \/ CopySession(c) \/ LookAtClock(c) \/ Purge(c)
        \/ HandleLogout(c)
        \/ HandleChangePassword(c) \/ ReplacePassword(c)
        \/ Return(c)
    \/ Tick
    \/ Restart

Spec == Init /\ [][Next]_vars

-----------------------------------------------------------------------------
\* Types; the map holds sessions that were issued and that nobody has ended.
TypeOK ==
    /\ adminPass \in (Passwords \ Short) \cup {Configured}
    /\ sessions \subseteq Issued \ ended
    /\ expires \in [Tokens -> 0 .. MaxTime + Life] /\ clock \in 0 .. MaxTime
    /\ pc \in [Callers -> {"idle", "insert", "validate", "check", "clock", "look", "purge",
                           "replace", "served", "refused"}]
    /\ cookie \in [Callers -> Issued \cup {NoToken}]

\* A request is served only when its session was good on arrival: not logged
\* out, not dropped by a new password or a restart, not expired.  What happens
\* between the copy of the session and the look at the clock is tolerated.
ServedWasValid == \A c \in Callers : pc[c] = "served" => arg[c].valid

\* The other way round: nobody is turned away whose session is still good at
\* the answer, whatever other requests purge, log out or check meanwhile.
RefusedIsInvalid == \A c \in Callers : pc[c] = "refused" => ~Valid(arg[c].token)

\* Every session of the map was opened with the password in force: a change
\* leaves none of the others.  The exception is a login that had compared its
\* password when the change was made and inserts its session after that.
SessionsOfCurrentPassword == \A t \in sessions : used[t] = adminPass \/ t \in straddling

\* Whoever replaces the password has given the one that is replaced, unless
\* another change came between the comparison and the lock: of two changes at
\* a time, both are answered with success and the last one counts.
ChangeIsAuthorised ==
    [][adminPass' # adminPass =>
        \/ restarts' # restarts
        \/ \E c \in Callers : pc[c] = "replace" /\ (arg[c].pass = adminPass \/ overtaken[c])]_vars
=============================================================================
