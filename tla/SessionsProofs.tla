--------------------------- MODULE SessionsProofs ---------------------------
(***************************************************************************)
(* Proofs about Sessions, for every number of callers, tokens, passwords,  *)
(* requests and restarts, and every life of a session.                     *)
(***************************************************************************)
EXTENDS Sessions, TLAPS

-----------------------------------------------------------------------------
(* The inductive invariant, in parts. *)

ArgumentType ==
    [pass : Passwords \cup {"none"}, new : Passwords \cup {"none"},
     token : Tokens \cup {NoToken}, valid : BOOLEAN, expires : Nat]

\* What TypeOK leaves out: arguments, which only name tokens that were issued,
\* and the history.
MoreTypes ==
    /\ arg \in [Callers -> ArgumentType]
    /\ \A c \in Callers : arg[c].token \in Issued \cup {NoToken}
    /\ used \in [Tokens -> Passwords \cup {"none"}]
    /\ ended \subseteq Issued
    /\ overtaken \in [Callers -> BOOLEAN]
    /\ requests \in Nat /\ restarts \in Nat

\* Nothing but its age and those who end it takes a session out of the map.
KeptWhileValid == \A t \in Tokens : Valid(t) => t \in sessions

\* A caller with the lock ahead has given the password in force, or one that
\* was in force until another caller replaced it.
Compared(c) ==
    pc[c] \in {"insert", "replace"} =>
        /\ arg[c].pass \in Passwords
        /\ arg[c].pass = adminPass \/ overtaken[c]
        /\ pc[c] = "replace" => arg[c].new \in Passwords \ Short

\* What the copy of a session still says when the session itself is gone.
Copied(c) ==
    LET t == arg[c].token IN
    /\ pc[c] \in {"validate", "check"} =>
        (t \in sessions /\ clock <= expires[t] => arg[c].valid)
    /\ pc[c] \in {"clock", "look", "purge"} =>
        t \in Issued /\ arg[c].expires = expires[t]
    /\ pc[c] \in {"clock", "look"} => (clock <= arg[c].expires => arg[c].valid)
    /\ pc[c] = "purge" => clock > arg[c].expires

IInv == /\ TypeOK /\ MoreTypes
        /\ KeptWhileValid
        /\ \A c \in Callers : Compared(c) /\ Copied(c)
        /\ ServedWasValid /\ RefusedIsInvalid
        /\ SessionsOfCurrentPassword

-----------------------------------------------------------------------------
(* The steps of the proof. *)

LEMMA InitInv == Init => IInv
<1> SUFFICES ASSUME Init PROVE IInv
  OBVIOUS
<1> USE SessionsAssumption DEF Init, Issued, NoArgument, Argument
<1>1. TypeOK BY DEF TypeOK
<1>2. MoreTypes BY DEF MoreTypes, ArgumentType
<1>3. KeptWhileValid BY DEF KeptWhileValid, Valid
<1>4. \A c \in Callers : Compared(c) /\ Copied(c) BY DEF Compared, Copied
<1>5. ServedWasValid /\ RefusedIsInvalid /\ SessionsOfCurrentPassword
  BY DEF ServedWasValid, RefusedIsInvalid, SessionsOfCurrentPassword
<1> QED BY <1>1, <1>2, <1>3, <1>4, <1>5 DEF IInv

\* A request that begins where its argument allows it to.
LEMMA RequestStep ==
    ASSUME IInv, NEW c \in Callers, NEW a \in ArgumentType,
           NEW l \in {"insert", "replace", "validate", "check", "refused"},
           a.token \in Issued \cup {NoToken},
           l \in {"insert", "replace"} => a.pass \in Passwords /\ a.pass = adminPass,
           l = "replace" => a.new \in Passwords \ Short,
           l \in {"validate", "check"} => a.valid = Valid(a.token),
           l = "refused" => ~Valid(a.token),
           Request(c, l, a)
    PROVE  IInv'
<1> USE SessionsAssumption DEF Request, Goto, memory
<1>1. TypeOK' BY DEF IInv, TypeOK, Issued
<1>2. MoreTypes' BY DEF IInv, MoreTypes, TypeOK, Issued
<1>3. KeptWhileValid' BY DEF IInv, KeptWhileValid, Valid, Issued
<1>4. ASSUME NEW d \in Callers PROVE Compared(d)' /\ Copied(d)'
  <2>1. CASE d = c
    BY <2>1 DEF IInv, TypeOK, MoreTypes, Compared, Copied, Valid
  <2>2. CASE d # c
    BY <2>2 DEF IInv, Compared, Copied, Issued
  <2> QED BY <2>1, <2>2
<1>5. ServedWasValid' BY DEF IInv, TypeOK, MoreTypes, ServedWasValid
<1>6. RefusedIsInvalid' BY DEF IInv, TypeOK, MoreTypes, RefusedIsInvalid, Valid, Issued
<1>7. SessionsOfCurrentPassword' BY DEF IInv, SessionsOfCurrentPassword
<1> QED BY <1>1, <1>2, <1>3, <1>4, <1>5, <1>6, <1>7 DEF IInv

\* Requests as they arrive.
LEMMA ArrivalStep ==
    ASSUME IInv, NEW c \in Callers,
           \/ HandleLogin(c) \/ HandleChangePassword(c) \/ Middleware(c) \/ HandleCheck(c)
    PROVE  IInv'
<1> USE SessionsAssumption
<1>0. ~Valid(NoToken)
  BY DEF Valid, Issued
<1>1. CASE HandleLogin(c)
  <2>1. PICK p \in Passwords :
          Request(c, IF p = adminPass THEN "insert" ELSE "refused", Argument(p, "none", NoToken, FALSE))
    BY <1>1 DEF HandleLogin
  <2> QED BY <1>0, <2>1, RequestStep DEF Argument, ArgumentType
<1>2. CASE HandleChangePassword(c)
  <2>1. PICK p \in Passwords, new \in Passwords :
          Request(c, IF ComparesOk(p, new) THEN "replace" ELSE "refused", Argument(p, new, NoToken, FALSE))
    BY <1>2 DEF HandleChangePassword
  <2> QED BY <1>0, <2>1, RequestStep DEF Argument, ArgumentType, ComparesOk
<1>3. CASE Middleware(c)
  <2>1. PICK h \in Issued \cup {NoToken} :
          LET t == IF cookie[c] # NoToken THEN cookie[c] ELSE h IN
          Request(c, "validate", Argument("none", "none", t, Valid(t)))
    BY <1>3 DEF Middleware
  <2> DEFINE t == IF cookie[c] # NoToken THEN cookie[c] ELSE h
             a == Argument("none", "none", t, Valid(t))
  <2>2. t \in Issued \cup {NoToken}
    BY DEF IInv, TypeOK
  <2>3. a \in ArgumentType /\ a.token = t /\ a.valid = Valid(t)
    BY <2>2 DEF Argument, ArgumentType, Valid, Issued
  <2>4. Request(c, "validate", a)
    BY <2>1
  <2> HIDE DEF a, t
  <2> QED BY <2>2, <2>3, <2>4, RequestStep
<1>4. CASE HandleCheck(c)
  <2> DEFINE t == cookie[c]
             a == Argument("none", "none", t, Valid(t))
             l == IF t = NoToken THEN "refused" ELSE "check"
  <2>1. t \in Issued \cup {NoToken}
    BY DEF IInv, TypeOK
  <2>2. a \in ArgumentType /\ a.token = t /\ a.valid = Valid(t)
    BY <2>1 DEF Argument, ArgumentType, Valid, Issued
  <2>3. Request(c, l, a)
    BY <1>4 DEF HandleCheck
  <2>4. l \in {"check", "refused"} /\ (l = "refused" => t = NoToken)
    OBVIOUS
  <2> HIDE DEF a, t, l
  <2> QED BY <1>0, <2>1, <2>2, <2>3, <2>4, RequestStep
<1> QED BY <1>1, <1>2, <1>3, <1>4

LEMMA InvStep == IInv /\ [Next]_vars => IInv'
<1> SUFFICES ASSUME IInv, [Next]_vars PROVE IInv'
  OBVIOUS
<1> USE SessionsAssumption DEF memory, history, bounds, Goto
<1>1. ASSUME NEW c \in Callers, InsertSession(c) PROVE IInv'
  <2>a. PICK t \in Tokens \ Issued :
           /\ sessions' = sessions \cup {t}
           /\ expires' = [expires EXCEPT ![t] = clock + Life]
           /\ used' = [used EXCEPT ![t] = arg[c].pass]
           /\ cookie' = [cookie EXCEPT ![c] = t]
    BY <1>1 DEF InsertSession
  <2>b. arg[c].pass \in Passwords /\ used \in [Tokens -> Passwords \cup {"none"}] /\ ended \subseteq Issued
    BY <1>1 DEF InsertSession, IInv, Compared, MoreTypes
  <2>c. Issued' = Issued \cup {t} /\ t \notin ended
    BY <2>a, <2>b DEF Issued
  <2>d. UNCHANGED <<adminPass, clock, ended, overtaken, requests, restarts>>
        /\ pc' = [pc EXCEPT ![c] = "served"] /\ arg' = [arg EXCEPT ![c].valid = TRUE]
    BY <1>1 DEF InsertSession
  <2>1. TypeOK'
    <3>1. expires' \in [Tokens -> 0 .. MaxTime + Life]
      BY <2>a DEF IInv, TypeOK
    <3>2. sessions' \subseteq Issued' \ ended' /\ cookie' \in [Callers -> Issued' \cup {NoToken}]
      BY <2>a, <2>c, <2>d DEF IInv, TypeOK
    <3> QED BY <2>d, <3>1, <3>2 DEF IInv, TypeOK
  <2>2. MoreTypes'
    <3>1. arg' \in [Callers -> ArgumentType]
      <4> DEFINE a == [arg[c] EXCEPT !.valid = TRUE]
      <4>1. a \in ArgumentType
        BY DEF IInv, MoreTypes, ArgumentType
      <4>2. arg' = [arg EXCEPT ![c] = a]
        BY <2>d
      <4> HIDE DEF a
      <4> QED BY <4>1, <4>2 DEF IInv, MoreTypes
    <3>2. \A d \in Callers : arg'[d].token \in Issued' \cup {NoToken}
      BY <2>c, <2>d DEF IInv, MoreTypes, ArgumentType
    <3>3. used' \in [Tokens -> Passwords \cup {"none"}]
      BY <2>a, <2>b
    <3> QED BY <2>b, <2>c, <2>d, <3>1, <3>2, <3>3 DEF IInv, MoreTypes
  <2>3. KeptWhileValid'
    BY <1>1 DEF InsertSession, IInv, KeptWhileValid, Valid, Issued
  <2>4. ASSUME NEW d \in Callers PROVE Compared(d)' /\ Copied(d)'
    BY <1>1 DEF InsertSession, IInv, MoreTypes, Compared, Copied, Issued
  <2>5. ServedWasValid'
    BY <1>1 DEF InsertSession, IInv, MoreTypes, ServedWasValid
  <2>6. RefusedIsInvalid'
    BY <1>1 DEF InsertSession, IInv, MoreTypes, RefusedIsInvalid, Valid, Issued
  <2>7. SessionsOfCurrentPassword'
    BY <1>1 DEF InsertSession, IInv, MoreTypes, SessionsOfCurrentPassword, Compared
  <2> QED BY <2>1, <2>2, <2>3, <2>4, <2>5, <2>6, <2>7 DEF IInv
<1>2. ASSUME NEW c \in Callers, CopySession(c) PROVE IInv'
  <2>1. TypeOK'
    BY <1>2 DEF CopySession, IInv, TypeOK, Issued
  <2>2. MoreTypes'
    BY <1>2 DEF CopySession, IInv, TypeOK, MoreTypes, ArgumentType, Issued
  <2>3. KeptWhileValid'
    BY <1>2 DEF CopySession, IInv, KeptWhileValid, Valid, Issued
  <2>4. ASSUME NEW d \in Callers PROVE Compared(d)' /\ Copied(d)'
    <3>1. CASE d = c
      <4> DEFINE t == arg[c].token
      <4>1. arg[c].valid \in BOOLEAN /\ arg'[c].valid = arg[c].valid /\ arg'[c].token = t
        BY <1>2 DEF CopySession, IInv, MoreTypes, ArgumentType
      <4>2. CASE t \in sessions
        <5>1. pc'[c] \in {"clock", "look"} /\ arg'[c].expires = expires[t]
          BY <1>2, <4>2 DEF CopySession, IInv, TypeOK, MoreTypes, ArgumentType
        <5>2. t \in Issued /\ (clock <= expires[t] => arg[c].valid)
          BY <1>2, <4>2 DEF CopySession, IInv, TypeOK, Copied
        <5>3. UNCHANGED <<clock, expires, used>>
          BY <1>2 DEF CopySession
        <5> QED BY <3>1, <4>1, <5>1, <5>2, <5>3 DEF Compared, Copied, Issued
      <4>3. CASE t \notin sessions
        BY <1>2, <3>1, <4>3 DEF CopySession, IInv, TypeOK, Compared, Copied
      <4> QED BY <4>2, <4>3
    <3>2. CASE d # c
      BY <1>2, <3>2 DEF CopySession, IInv, TypeOK, MoreTypes, Compared, Copied, Issued
    <3> QED BY <3>1, <3>2
  <2>5. ServedWasValid'
    BY <1>2 DEF CopySession, IInv, TypeOK, MoreTypes, ServedWasValid
  <2>6. RefusedIsInvalid'
    BY <1>2
       DEF CopySession, IInv, TypeOK, MoreTypes, RefusedIsInvalid, KeptWhileValid, Valid, Issued
  <2>7. SessionsOfCurrentPassword'
    BY <1>2 DEF CopySession, IInv, SessionsOfCurrentPassword
  <2> QED BY <2>1, <2>2, <2>3, <2>4, <2>5, <2>6, <2>7 DEF IInv
<1>3. ASSUME NEW c \in Callers, LookAtClock(c) PROVE IInv'
  <2>1. TypeOK'
    BY <1>3 DEF LookAtClock, IInv, TypeOK, Issued
  <2>2. MoreTypes'
    BY <1>3 DEF LookAtClock, IInv, MoreTypes, Issued
  <2>3. KeptWhileValid'
    BY <1>3 DEF LookAtClock, IInv, KeptWhileValid, Valid, Issued
  <2>4. ASSUME NEW d \in Callers PROVE Compared(d)' /\ Copied(d)'
    BY <1>3 DEF LookAtClock, Expired, IInv, Compared, Copied, Issued
  <2>5. ServedWasValid'
    <3>1. ~Expired(c) => arg[c].valid
      BY <1>3 DEF LookAtClock, Expired, IInv, TypeOK, MoreTypes, ArgumentType, Copied
    <3> QED BY <1>3, <3>1 DEF LookAtClock, IInv, ServedWasValid
  <2>6. RefusedIsInvalid'
    BY <1>3 DEF LookAtClock, Expired, IInv, TypeOK, RefusedIsInvalid, Copied, Valid, Issued
  <2>7. SessionsOfCurrentPassword'
    BY <1>3 DEF LookAtClock, IInv, SessionsOfCurrentPassword
  <2> QED BY <2>1, <2>2, <2>3, <2>4, <2>5, <2>6, <2>7 DEF IInv
<1>4. ASSUME NEW c \in Callers, Purge(c) PROVE IInv'
  <2>1. TypeOK'
    BY <1>4 DEF Purge, IInv, TypeOK, Issued
  <2>2. MoreTypes'
    BY <1>4 DEF Purge, IInv, MoreTypes, Issued
  <2>3. KeptWhileValid'
    BY <1>4 DEF Purge, IInv, TypeOK, KeptWhileValid, Copied, Valid, Issued
  <2>4. ASSUME NEW d \in Callers PROVE Compared(d)' /\ Copied(d)'
    BY <1>4 DEF Purge, IInv, Compared, Copied, Issued
  <2>5. ServedWasValid'
    BY <1>4 DEF Purge, IInv, ServedWasValid
  <2>6. RefusedIsInvalid'
    BY <1>4 DEF Purge, IInv, TypeOK, RefusedIsInvalid, Copied, Valid, Issued
  <2>7. SessionsOfCurrentPassword'
    BY <1>4 DEF Purge, IInv, SessionsOfCurrentPassword
  <2> QED BY <2>1, <2>2, <2>3, <2>4, <2>5, <2>6, <2>7 DEF IInv
<1>5. ASSUME NEW c \in Callers, HandleLogout(c) PROVE IInv'
  <2>1. TypeOK'
    BY <1>5 DEF HandleLogout, IInv, TypeOK, Issued
  <2>2. MoreTypes'
    BY <1>5 DEF HandleLogout, IInv, TypeOK, MoreTypes, Issued
  <2>3. KeptWhileValid'
    BY <1>5 DEF HandleLogout, IInv, KeptWhileValid, Valid, Issued
  <2>4. ASSUME NEW d \in Callers PROVE Compared(d)' /\ Copied(d)'
    BY <1>5 DEF HandleLogout, IInv, Compared, Copied, Issued
  <2>5. ServedWasValid'
    BY <1>5 DEF HandleLogout, IInv, ServedWasValid
  <2>6. RefusedIsInvalid'
    BY <1>5 DEF HandleLogout, IInv, RefusedIsInvalid, Valid, Issued
  <2>7. SessionsOfCurrentPassword'
    BY <1>5 DEF HandleLogout, IInv, SessionsOfCurrentPassword
  <2> QED BY <2>1, <2>2, <2>3, <2>4, <2>5, <2>6, <2>7 DEF IInv
<1>6. ASSUME NEW c \in Callers, ReplacePassword(c) PROVE IInv'
  <2>1. TypeOK'
    BY <1>6 DEF ReplacePassword, IInv, TypeOK, Compared, Issued
  <2>2. MoreTypes'
    BY <1>6 DEF ReplacePassword, Overtake, NoArgument, Argument, IInv, TypeOK, MoreTypes, ArgumentType, Issued
  <2>3. KeptWhileValid'
    BY <1>6 DEF ReplacePassword, IInv, KeptWhileValid, Valid, Issued
  <2>4. ASSUME NEW d \in Callers PROVE Compared(d)' /\ Copied(d)'
    BY <1>6 DEF ReplacePassword, Overtake, IInv, TypeOK, MoreTypes, Compared, Copied, Issued
  <2>5. ServedWasValid'
    BY <1>6 DEF ReplacePassword, IInv, ServedWasValid
  <2>6. RefusedIsInvalid'
    BY <1>6 DEF ReplacePassword, IInv, RefusedIsInvalid, Valid, Issued
  <2>7. SessionsOfCurrentPassword'
    BY <1>6 DEF ReplacePassword, IInv, SessionsOfCurrentPassword
  <2> QED BY <2>1, <2>2, <2>3, <2>4, <2>5, <2>6, <2>7 DEF IInv
<1>7. ASSUME NEW c \in Callers, Return(c) PROVE IInv'
  <2>1. TypeOK'
    BY <1>7 DEF Return, IInv, TypeOK, Issued
  <2>2. MoreTypes'
    BY <1>7 DEF Return, NoArgument, Argument, IInv, MoreTypes, ArgumentType, Issued
  <2>3. KeptWhileValid'
    BY <1>7 DEF Return, IInv, KeptWhileValid, Valid, Issued
  <2>4. ASSUME NEW d \in Callers PROVE Compared(d)' /\ Copied(d)'
    BY <1>7 DEF Return, IInv, Compared, Copied, Issued
  <2>5. ServedWasValid'
    BY <1>7 DEF Return, IInv, TypeOK, ServedWasValid
  <2>6. RefusedIsInvalid'
    BY <1>7 DEF Return, IInv, TypeOK, RefusedIsInvalid, Valid, Issued
  <2>7. SessionsOfCurrentPassword'
    BY <1>7 DEF Return, IInv, SessionsOfCurrentPassword
  <2> QED BY <2>1, <2>2, <2>3, <2>4, <2>5, <2>6, <2>7 DEF IInv
<1>8. CASE Tick
  <2>1. TypeOK'
    BY <1>8 DEF Tick, IInv, TypeOK, Issued
  <2>2. MoreTypes'
    BY <1>8 DEF Tick, IInv, MoreTypes, Issued
  <2>3. KeptWhileValid'
    BY <1>8 DEF Tick, IInv, TypeOK, KeptWhileValid, Valid, Issued
  <2>4. ASSUME NEW d \in Callers PROVE Compared(d)' /\ Copied(d)'
    BY <1>8 DEF Tick, IInv, TypeOK, Compared, Copied, Issued
  <2>5. ServedWasValid'
    BY <1>8 DEF Tick, IInv, ServedWasValid
  <2>6. RefusedIsInvalid'
    BY <1>8 DEF Tick, IInv, TypeOK, RefusedIsInvalid, Valid, Issued
  <2>7. SessionsOfCurrentPassword'
    BY <1>8 DEF Tick, IInv, SessionsOfCurrentPassword
  <2> QED BY <2>1, <2>2, <2>3, <2>4, <2>5, <2>6, <2>7 DEF IInv
<1>9. CASE Restart
  <2>1. TypeOK'
    BY <1>9 DEF Restart, IInv, TypeOK, Issued
  <2>2. MoreTypes'
    BY <1>9 DEF Restart, NoArgument, Argument, IInv, TypeOK, MoreTypes, ArgumentType, Issued
  <2>3. KeptWhileValid'
    BY <1>9 DEF Restart, IInv, KeptWhileValid, Valid, Issued
  <2>4. ASSUME NEW d \in Callers PROVE Compared(d)' /\ Copied(d)'
    BY <1>9 DEF Restart, IInv, Compared, Copied
  <2>5. ServedWasValid'
    BY <1>9 DEF Restart, IInv, ServedWasValid
  <2>6. RefusedIsInvalid'
    BY <1>9 DEF Restart, IInv, RefusedIsInvalid
  <2>7. SessionsOfCurrentPassword'
    BY <1>9 DEF Restart, IInv, SessionsOfCurrentPassword
  <2> QED BY <2>1, <2>2, <2>3, <2>4, <2>5, <2>6, <2>7 DEF IInv
<1>10. CASE UNCHANGED vars
  <2>1. TypeOK'
    BY <1>10 DEF vars, IInv, TypeOK, Issued
  <2>2. MoreTypes'
    BY <1>10 DEF vars, IInv, MoreTypes, Issued
  <2>3. KeptWhileValid'
    BY <1>10 DEF vars, IInv, KeptWhileValid, Valid, Issued
  <2>4. ASSUME NEW d \in Callers PROVE Compared(d)' /\ Copied(d)'
    BY <1>10 DEF vars, IInv, Compared, Copied, Issued
  <2>5. ServedWasValid'
    BY <1>10 DEF vars, IInv, ServedWasValid
  <2>6. RefusedIsInvalid'
    BY <1>10 DEF vars, IInv, RefusedIsInvalid, Valid, Issued
  <2>7. SessionsOfCurrentPassword'
    BY <1>10 DEF vars, IInv, SessionsOfCurrentPassword
  <2> QED BY <2>1, <2>2, <2>3, <2>4, <2>5, <2>6, <2>7 DEF IInv
<1> QED BY ArrivalStep, <1>1, <1>2, <1>3, <1>4, <1>5, <1>6, <1>7, <1>8, <1>9, <1>10 DEF Next

\* IInv holds in every reachable state of the service, however the requests
\* of the callers, the clock and restarts interleave.
THEOREM Invariance == Spec => []IInv
BY InitInv, InvStep, PTL DEF Spec

\* The password, the map, the cookies and the requests keep their types; the
\* map only holds sessions that were opened and that nobody has ended.
THEOREM TypeCorrect == Spec => []TypeOK
<1>1. IInv => TypeOK
  BY DEF IInv
<1> QED BY Invariance, <1>1, PTL

\* Middleware and HandleCheck let nobody in whose session was not good when
\* the request arrived, though they look at a copy of it outside the lock.
THEOREM OnlyValidServed == Spec => []ServedWasValid
<1>1. IInv => ServedWasValid
  BY DEF IInv
<1> QED BY Invariance, <1>1, PTL

\* Nobody with a good session is refused, whatever the others purge.
THEOREM ValidNotRefused == Spec => []RefusedIsInvalid
<1>1. IInv => RefusedIsInvalid
  BY DEF IInv
<1> QED BY Invariance, <1>1, PTL

\* ChangePassword leaves no session of another password in the map, but for
\* the logins it overtakes.
THEOREM OldSessionsDropped == Spec => []SessionsOfCurrentPassword
<1>1. IInv => SessionsOfCurrentPassword
  BY DEF IInv
<1> QED BY Invariance, <1>1, PTL

\* The password only changes by a restart, or by a caller who has given the
\* one it replaces, or was overtaken between the comparison and the lock.
THEOREM ChangeAuthorised == Spec => ChangeIsAuthorised
<1> DEFINE Authorised ==
        adminPass' # adminPass =>
            \/ restarts' # restarts
            \/ \E c \in Callers : pc[c] = "replace" /\ (arg[c].pass = adminPass \/ overtaken[c])
<1>1. IInv /\ [Next]_vars => [Authorised]_vars
  <2> SUFFICES ASSUME IInv, Next, adminPass' # adminPass PROVE Authorised
    BY DEF vars, memory
  <2>1. CASE Restart
    BY <2>1 DEF Restart, IInv, MoreTypes
  <2>2. ASSUME NEW c \in Callers, ReplacePassword(c) PROVE Authorised
    BY <2>2 DEF ReplacePassword, IInv, Compared
  <2> QED
    BY <2>1, <2>2 DEF Next, memory, Request, HandleLogin, HandleChangePassword, Middleware, HandleCheck,
          InsertSession, CopySession, LookAtClock, Purge, HandleLogout, Return, Tick
<1> QED BY Invariance, <1>1, PTL DEF Spec, ChangeIsAuthorised
=============================================================================
