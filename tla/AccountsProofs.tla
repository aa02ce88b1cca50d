--------------------------- MODULE AccountsProofs ---------------------------
(***************************************************************************)
(* Proofs about registration, login and tokens, for any names, passwords,  *)
(* number of requests and life of a token.                                 *)
(*                                                                         *)
(* The argument: a request that is about to be given a token has the       *)
(* password of the row (CallsAreSound), because it inserted the row or     *)
(* checked the password and a row never changes.  Only the insert leads to *)
(* the read that answers a registration, and it succeeds once, so at most  *)
(* one request is ever there (WonOnce).  A token lives Ttl from its issue, *)
(* and once an account is disabled no request of it reaches the issue but  *)
(* those that were past the check, and as long as there are any the        *)
(* account does not count as closed (LockedOut).                           *)
(***************************************************************************)
EXTENDS Accounts, TLAPS

HistoryTypes ==
    /\ won \in [Names -> BOOLEAN]
    /\ obtainedWith \in [Names -> SUBSET Passwords]
    /\ closedAt \in [Names -> 0..MaxTime]

\* What the steps of a request before this one have established.
CallsAreSound ==
    \A c \in Calls :
        /\ pc[c] # "idle" => name[c] \in Names
        /\ pc[c] \in {"lookup", "insert"} => name[c] \in ValidUsername /\ password[c] \in ValidPassword
        /\ pc[c] \in {"reread", "issue"} =>
              password[c] \in Passwords /\ row[name[c]] = HashPassword(password[c])
        /\ pc[c] \in {"room", "roomReread"} => row[name[c]] # NoRow

WonOnce ==
    /\ \A n \in Names : won[n] =>
          row[n] # NoRow /\ \A c \in Calls : pc[c] = "reread" => name[c] # n
    /\ \A c, d \in Calls : pc[c] = "reread" /\ pc[d] = "reread" /\ name[c] = name[d] => c = d

LockedOut ==
    \A n \in Names :
        /\ token[n] <= now + Ttl
        /\ status[n] = "disabled" => row[n] # NoRow
        /\ status[n] = "disabled" => token[n] <= closedAt[n] + Ttl
        /\ status[n] = "disabled" /\ PastCheck(n) => closedAt[n] = now

IndInv ==
    /\ TypeOK
    /\ HistoryTypes
    /\ TokenNeedsPassword
    /\ CallsAreSound
    /\ WonOnce
    /\ LockedOut

-----------------------------------------------------------------------------
\* What the end of a call, its next step and its beginning do to the calls.
LEMMA AnswerFrame ==
    ASSUME TypeOK, NEW c \in Calls, NEW what \in Answers, Answer(c, what)
    PROVE  /\ pc' \in [Calls -> Steps] /\ answer' \in [Calls -> Answers]
           /\ name' \in [Calls -> Names \cup {NoName}]
           /\ password' \in [Calls -> Passwords \cup {NoPassword}]
           /\ pc'[c] = "idle" /\ answer'[c] = what
           /\ \A d \in Calls \ {c} : /\ pc'[d] = pc[d] /\ name'[d] = name[d]
                                     /\ password'[d] = password[d] /\ answer'[d] = answer[d]
  BY DEF Answer, TypeOK, Steps

LEMMA GotoFrame ==
    ASSUME TypeOK, NEW c \in Calls, NEW step \in Steps, Goto(c, step)
    PROVE  /\ pc' \in [Calls -> Steps] /\ pc'[c] = step
           /\ \A d \in Calls \ {c} : pc'[d] = pc[d]
           /\ name' = name /\ password' = password /\ answer' = answer
  BY DEF Goto, TypeOK

LEMMA BeginFrame ==
    ASSUME TypeOK, NEW c \in Calls, NEW n \in Names, NEW p \in Passwords \cup {NoPassword},
           NEW step \in Steps, Begin(c, n, p, step)
    PROVE  /\ pc' \in [Calls -> Steps] /\ answer' \in [Calls -> Answers]
           /\ name' \in [Calls -> Names \cup {NoName}]
           /\ password' \in [Calls -> Passwords \cup {NoPassword}]
           /\ pc'[c] = step /\ name'[c] = n /\ password'[c] = p /\ answer'[c] = "none"
           /\ \A d \in Calls \ {c} : /\ pc'[d] = pc[d] /\ name'[d] = name[d]
                                     /\ password'[d] = password[d] /\ answer'[d] = answer[d]
  BY DEF Begin, TypeOK, Answers

\* A call moves and the tables, the tokens and the history stay: it is enough to
\* look at where the call is now.
LEMMA CallMoves ==
    ASSUME IndInv, NEW c \in Calls,
           UNCHANGED <<now, row, status, rooms, token, won, obtainedWith, closedAt>>,
           pc' \in [Calls -> Steps], answer' \in [Calls -> Answers],
           name' \in [Calls -> Names \cup {NoName}],
           password' \in [Calls -> Passwords \cup {NoPassword}],
           \A d \in Calls \ {c} : pc'[d] = pc[d] /\ name'[d] = name[d] /\ password'[d] = password[d],
           pc'[c] # "idle" => name'[c] \in Names,
           pc'[c] \in {"lookup", "insert"} => name'[c] \in ValidUsername /\ password'[c] \in ValidPassword,
           pc'[c] # "reread",
           pc'[c] = "issue" => /\ password'[c] \in Passwords
                               /\ row[name'[c]] = HashPassword(password'[c])
                               /\ status[name'[c]] = "enabled",
           pc'[c] \in {"room", "roomReread"} => row[name'[c]] # NoRow
    PROVE  IndInv'
<1> USE DEF IndInv
<1>1. TypeOK'
  BY DEF TypeOK
<1>2. HistoryTypes' /\ TokenNeedsPassword'
  BY DEF HistoryTypes, TokenNeedsPassword
<1>3. CallsAreSound'
  <2> SUFFICES ASSUME NEW d \in Calls
               PROVE  /\ pc'[d] # "idle" => name'[d] \in Names
                      /\ pc'[d] \in {"lookup", "insert"} =>
                            name'[d] \in ValidUsername /\ password'[d] \in ValidPassword
                      /\ pc'[d] \in {"reread", "issue"} =>
                            password'[d] \in Passwords /\ row[name'[d]] = HashPassword(password'[d])
                      /\ pc'[d] \in {"room", "roomReread"} => row[name'[d]] # NoRow
    BY DEF CallsAreSound
  <2>1. CASE d = c
    BY <2>1
  <2>2. CASE d # c
    BY <2>2 DEF CallsAreSound
  <2> QED BY <2>1, <2>2
<1>4. WonOnce'
  BY DEF WonOnce
<1>5. LockedOut'
  <2>1. \A n \in Names : status[n] = "disabled" /\ PastCheck(n)' => PastCheck(n)
    BY DEF PastCheck
  <2> QED BY <2>1 DEF LockedOut
<1> QED BY <1>1, <1>2, <1>3, <1>4, <1>5

\* A call that ends leaves the invariant behind.
LEMMA AnswerStep ==
    ASSUME IndInv, NEW c \in Calls, NEW what \in Answers, Answer(c, what),
           UNCHANGED <<now, tableVars, token, historyVars>>
    PROVE  IndInv'
<1>1. UNCHANGED <<now, row, status, rooms, token, won, obtainedWith, closedAt>>
  BY DEF tableVars, historyVars
<1>2. TypeOK
  BY DEF IndInv
<1> QED BY <1>1, <1>2, AnswerFrame, CallMoves

-----------------------------------------------------------------------------
LEMMA IndInit == Init => IndInv
<1> SUFFICES ASSUME Init PROVE IndInv
  OBVIOUS
<1>1. TypeOK
  BY AccountsAssumption DEF Init, TypeOK, Steps, Answers
<1>2. HistoryTypes
  BY AccountsAssumption DEF Init, HistoryTypes
<1>3. TokenNeedsPassword /\ CallsAreSound /\ WonOnce
  BY DEF Init, TokenNeedsPassword, CallsAreSound, WonOnce
<1>4. LockedOut
  BY AccountsAssumption DEF Init, LockedOut
<1> QED BY <1>1, <1>2, <1>3, <1>4 DEF IndInv

\* A spelling has one name.
LEMMA NormalizeType == ASSUME NEW s \in Spellings PROVE Normalize[s] \in Names
  BY DEF Names

LEMMA RegisterStep ==
    ASSUME IndInv, NEW c \in Calls, NEW s \in Spellings, NEW p \in Passwords, Register(c, s, p)
    PROVE  IndInv'
<1> DEFINE n == Normalize[s]
           step == IF n \in ValidUsername /\ p \in ValidPassword THEN "lookup" ELSE "invalid"
<1>1. n \in Names /\ step \in Steps /\ TypeOK
  BY NormalizeType DEF Steps, IndInv
<1>2. Begin(c, n, p, step) /\ UNCHANGED <<now, tableVars, token, historyVars>>
  BY DEF Register
<1>3. step = "lookup" => n \in ValidUsername /\ p \in ValidPassword
  OBVIOUS
<1>4. step \in {"lookup", "invalid"}
  OBVIOUS
<1> HIDE DEF n, step
<1>5. UNCHANGED <<now, row, status, rooms, token, won, obtainedWith, closedAt>>
  BY <1>2 DEF tableVars, historyVars
<1>6. /\ pc' \in [Calls -> Steps] /\ answer' \in [Calls -> Answers]
      /\ name' \in [Calls -> Names \cup {NoName}]
      /\ password' \in [Calls -> Passwords \cup {NoPassword}]
      /\ pc'[c] = step /\ name'[c] = n /\ password'[c] = p
      /\ \A d \in Calls \ {c} : pc'[d] = pc[d] /\ name'[d] = name[d] /\ password'[d] = password[d]
  BY <1>1, <1>2, BeginFrame
<1> QED BY <1>1, <1>3, <1>4, <1>5, <1>6, CallMoves

LEMMA LoginStep ==
    ASSUME IndInv, NEW c \in Calls, NEW s \in Spellings, NEW p \in Passwords, Login(c, s, p)
    PROVE  IndInv'
<1>1. Normalize[s] \in Names /\ "login" \in Steps /\ TypeOK
  BY NormalizeType DEF Steps, IndInv
<1>2. UNCHANGED <<now, row, status, rooms, token, won, obtainedWith, closedAt>>
  BY DEF Login, tableVars, historyVars
<1>3. /\ pc' \in [Calls -> Steps] /\ answer' \in [Calls -> Answers]
      /\ name' \in [Calls -> Names \cup {NoName}]
      /\ password' \in [Calls -> Passwords \cup {NoPassword}]
      /\ pc'[c] = "login" /\ name'[c] = Normalize[s]
      /\ \A d \in Calls \ {c} : pc'[d] = pc[d] /\ name'[d] = name[d] /\ password'[d] = password[d]
  BY <1>1, BeginFrame DEF Login
<1> QED BY <1>1, <1>2, <1>3, CallMoves

LEMMA RequireAuthStep ==
    ASSUME IndInv, NEW c \in Calls, NEW n \in Names, RequireAuth(c, n)
    PROVE  IndInv'
<1>1. "room" \in Steps /\ TypeOK
  BY DEF Steps, IndInv
<1>2. UNCHANGED <<now, row, status, rooms, token, won, obtainedWith, closedAt>>
  BY DEF RequireAuth, tableVars, historyVars
<1>3. /\ pc' \in [Calls -> Steps] /\ answer' \in [Calls -> Answers]
      /\ name' \in [Calls -> Names \cup {NoName}]
      /\ password' \in [Calls -> Passwords \cup {NoPassword}]
      /\ pc'[c] = "room" /\ name'[c] = n
      /\ \A d \in Calls \ {c} : pc'[d] = pc[d] /\ name'[d] = name[d] /\ password'[d] = password[d]
  BY <1>1, BeginFrame DEF RequireAuth
<1>4. row[n] # NoRow
  <2>1. token[n] # 0 /\ token[n] \in Nat
    BY <1>1, AccountsAssumption DEF RequireAuth, Verify, TypeOK
  <2> QED BY <1>1, <2>1 DEF TypeOK
<1> QED BY <1>1, <1>2, <1>3, <1>4, CallMoves

\* A refusal, a failed call and a room read back are ends of a call.
LEMMA EndStep ==
    ASSUME IndInv, NEW c \in Calls, RefuseInput(c) \/ RefuseTitle(c) \/ RereadRoom(c) \/ Fail(c)
    PROVE  IndInv'
<1>1. /\ \E what \in Answers : Answer(c, what)
      /\ UNCHANGED <<now, tableVars, token, historyVars>>
  BY DEF RefuseInput, RefuseTitle, RereadRoom, Fail, Answers
<1> QED BY <1>1, AnswerStep

LEMMA LookUpStep == ASSUME IndInv, NEW c \in Calls, LookUp(c) PROVE IndInv'
<1>1. pc[c] = "lookup" /\ UNCHANGED <<now, tableVars, token, historyVars>>
  BY DEF LookUp
<1>2. CASE Answer(c, "USERNAME_TAKEN")
  BY <1>1, <1>2, AnswerStep DEF Answers
<1>3. CASE Goto(c, "insert")
  <2>1. UNCHANGED <<now, row, status, rooms, token, won, obtainedWith, closedAt>>
    BY <1>1 DEF tableVars, historyVars
  <2>2. /\ pc' \in [Calls -> Steps] /\ pc'[c] = "insert"
        /\ \A d \in Calls \ {c} : pc'[d] = pc[d]
        /\ name' = name /\ password' = password /\ answer' = answer
    BY <1>3, GotoFrame DEF IndInv, Steps
  <2>3. name[c] \in Names /\ name[c] \in ValidUsername /\ password[c] \in ValidPassword
    BY <1>1 DEF IndInv, CallsAreSound
  <2>4. /\ name \in [Calls -> Names \cup {NoName}] /\ answer \in [Calls -> Answers]
        /\ password \in [Calls -> Passwords \cup {NoPassword}]
    BY DEF IndInv, TypeOK
  <2> QED BY <2>1, <2>2, <2>3, <2>4, CallMoves
<1> QED BY <1>2, <1>3 DEF LookUp

\* Past the check, a login has the password of an enabled account.
LEMMA CheckCredentialsStep == ASSUME IndInv, NEW c \in Calls, CheckCredentials(c) PROVE IndInv'
<1>1. pc[c] = "login" /\ UNCHANGED <<now, tableVars, token, historyVars>>
  BY DEF CheckCredentials
<1>2. CASE Answer(c, "INVALID_CREDENTIALS") \/ Answer(c, "USER_DISABLED")
  BY <1>1, <1>2, AnswerStep DEF Answers
<1>3. CASE /\ row[name[c]] # NoRow /\ status[name[c]] = "enabled"
           /\ VerifyPassword(row[name[c]], password[c]) /\ Goto(c, "issue")
  <2>1. UNCHANGED <<now, row, status, rooms, token, won, obtainedWith, closedAt>>
    BY <1>1 DEF tableVars, historyVars
  <2>2. /\ pc' \in [Calls -> Steps] /\ pc'[c] = "issue"
        /\ \A d \in Calls \ {c} : pc'[d] = pc[d]
        /\ name' = name /\ password' = password /\ answer' = answer
    BY <1>3, GotoFrame DEF IndInv, Steps
  <2>3. /\ name \in [Calls -> Names \cup {NoName}] /\ answer \in [Calls -> Answers]
        /\ password \in [Calls -> Passwords \cup {NoPassword}]
        /\ row \in [Names -> {HashPassword(p) : p \in ValidPassword} \cup {NoRow}]
    BY DEF IndInv, TypeOK
  <2>4. name[c] \in Names
    BY <1>1 DEF IndInv, CallsAreSound
  <2>5. PICK p \in ValidPassword : row[name[c]] = HashPassword(p)
    BY <1>3, <2>3, <2>4
  <2>6. row[name[c]] = HashPassword(password[c]) /\ password[c] = p
    BY <1>3, <2>5 DEF VerifyPassword, HashPassword
  <2>7. password[c] \in Passwords
    BY <2>6, AccountsAssumption
  <2> QED BY <1>3, <2>1, <2>2, <2>3, <2>4, <2>6, <2>7, CallMoves
<1> QED BY <1>2, <1>3 DEF CheckCredentials

\* The unique index lets one insert of a name through.
LEMMA InsertStep == ASSUME IndInv, NEW c \in Calls, Insert(c) PROVE IndInv'
<1> USE DEF IndInv
<1>0. /\ pc[c] = "insert" /\ UNCHANGED <<now, status, rooms, token, historyVars>>
      /\ name[c] \in Names /\ name[c] \in ValidUsername /\ password[c] \in ValidPassword
      /\ password[c] \in Passwords
  BY AccountsAssumption DEF Insert, CallsAreSound
<1>1. CASE Answer(c, "USERNAME_TAKEN") /\ UNCHANGED row
  BY <1>0, <1>1, AnswerStep DEF Answers, tableVars
<1>2. CASE /\ row[name[c]] = NoRow /\ Goto(c, "reread")
           /\ row' = [row EXCEPT ![name[c]] = HashPassword(password[c])]
  <2>1. /\ pc' \in [Calls -> Steps] /\ pc'[c] = "reread"
        /\ \A d \in Calls \ {c} : pc'[d] = pc[d]
        /\ name' = name /\ password' = password /\ answer' = answer
    BY <1>2, GotoFrame DEF Steps
  <2>2. /\ row'[name[c]] = HashPassword(password[c])
        /\ \A n \in Names \ {name[c]} : row'[n] = row[n]
        /\ HashPassword(password[c]) # NoRow
    BY <1>0, <1>2, AccountsAssumption DEF TypeOK
  <2>3. UNCHANGED <<now, status, rooms, token, won, obtainedWith, closedAt>>
    BY <1>0 DEF historyVars
  <2>4. row' \in [Names -> {HashPassword(p) : p \in ValidPassword} \cup {NoRow}]
    BY <1>0, <1>2 DEF TypeOK
  <2>5. TypeOK'
    BY <1>0, <2>1, <2>2, <2>3, <2>4 DEF TypeOK
  <2>6. HistoryTypes'
    BY <2>3 DEF HistoryTypes
  <2>7. TokenNeedsPassword'
    BY <1>2, <2>2, <2>3 DEF TokenNeedsPassword
  <2>8. \A n \in Names : row[n] # NoRow => row'[n] = row[n]
    BY <1>2, <2>2
  <2>9. \A d \in Calls : pc[d] \in {"reread", "issue", "room", "roomReread"} =>
            name[d] \in Names /\ row[name[d]] # NoRow
    <3> SUFFICES ASSUME NEW d \in Calls, pc[d] \in {"reread", "issue"}
                 PROVE  row[name[d]] # NoRow
      BY DEF CallsAreSound
    <3>1. password[d] \in Passwords /\ row[name[d]] = HashPassword(password[d])
      BY DEF CallsAreSound
    <3> QED BY <3>1, AccountsAssumption
  <2>10. CallsAreSound'
    <3> SUFFICES ASSUME NEW d \in Calls
                 PROVE  /\ pc'[d] # "idle" => name[d] \in Names
                        /\ pc'[d] \in {"lookup", "insert"} =>
                              name[d] \in ValidUsername /\ password[d] \in ValidPassword
                        /\ pc'[d] \in {"reread", "issue"} =>
                              password[d] \in Passwords /\ row'[name[d]] = HashPassword(password[d])
                        /\ pc'[d] \in {"room", "roomReread"} => row'[name[d]] # NoRow
      BY <2>1 DEF CallsAreSound
    <3>1. CASE d = c
      BY <1>0, <2>1, <2>2, <3>1
    <3>2. CASE d # c
      BY <2>1, <2>8, <2>9, <3>2 DEF CallsAreSound
    <3> QED BY <3>1, <3>2
  <2>11. WonOnce'
    <3>1. \A n \in Names : won[n] => n # name[c]
      BY <1>2 DEF WonOnce
    <3>2. \A d \in Calls \ {c} : pc[d] = "reread" => name[d] # name[c]
      BY <1>2, <2>9
    <3> QED BY <2>1, <2>2, <2>3, <3>1, <3>2 DEF WonOnce
  <2>12. LockedOut'
    <3>1. \A n \in Names : status[n] = "disabled" => n # name[c]
      BY <1>2 DEF LockedOut
    <3>2. \A n \in Names : status[n] = "disabled" /\ PastCheck(n)' => PastCheck(n)
      BY <2>1, <3>1 DEF PastCheck
    <3> QED BY <2>2, <2>3, <3>1, <3>2 DEF LockedOut
  <2> QED BY <2>5, <2>6, <2>7, <2>10, <2>11, <2>12
<1> QED BY <1>1, <1>2 DEF Insert

LEMMA RereadStep == ASSUME IndInv, NEW c \in Calls, Reread(c) PROVE IndInv'
<1> USE DEF IndInv
<1>1. /\ pc[c] = "reread" /\ Goto(c, "issue")
      /\ UNCHANGED <<now, row, status, rooms, token, obtainedWith, closedAt>>
      /\ won' = [won EXCEPT ![name[c]] = TRUE]
  BY DEF Reread, tableVars
<1>2. /\ pc' \in [Calls -> Steps] /\ pc'[c] = "issue"
      /\ \A d \in Calls \ {c} : pc'[d] = pc[d]
      /\ name' = name /\ password' = password /\ answer' = answer
  BY <1>1, GotoFrame DEF Steps
<1>3. /\ name[c] \in Names /\ password[c] \in Passwords
      /\ row[name[c]] = HashPassword(password[c]) /\ row[name[c]] # NoRow
  BY <1>1, AccountsAssumption DEF CallsAreSound
<1>4. TypeOK'
  BY <1>1, <1>2 DEF TypeOK
<1>5. HistoryTypes' /\ TokenNeedsPassword'
  BY <1>1, <1>3 DEF HistoryTypes, TokenNeedsPassword
<1>6. CallsAreSound'
  BY <1>1, <1>2, <1>3 DEF CallsAreSound
<1>7. WonOnce'
  <2>1. \A n \in Names : won'[n] => won[n] \/ n = name[c]
    BY <1>1, <1>3 DEF HistoryTypes
  <2>2. \A d \in Calls : pc'[d] = "reread" => pc[d] = "reread" /\ d # c
    BY <1>2
  <2>3. \A d \in Calls : pc'[d] = "reread" => name[d] # name[c]
    BY <1>1, <2>2 DEF WonOnce
  <2> QED BY <1>1, <1>2, <1>3, <2>1, <2>2, <2>3 DEF WonOnce
<1>8. LockedOut'
  <2>1. \A n \in Names : PastCheck(n)' => PastCheck(n)
    BY <1>1, <1>2 DEF PastCheck
  <2> QED BY <1>1, <2>1 DEF LockedOut
<1> QED BY <1>4, <1>5, <1>6, <1>7, <1>8

\* The token goes to who has the password; its life starts now.
LEMMA IssueStep == ASSUME IndInv, NEW c \in Calls, Issue(c) PROVE IndInv'
<1> USE DEF IndInv
<1>1. /\ pc[c] = "issue" /\ Answer(c, "token")
      /\ UNCHANGED <<now, row, status, rooms, won, closedAt>>
      /\ token' = [token EXCEPT ![name[c]] = now + Ttl]
      /\ obtainedWith' = [obtainedWith EXCEPT ![name[c]] = @ \cup {password[c]}]
  BY DEF Issue, tableVars
<1>2. /\ pc' \in [Calls -> Steps] /\ answer' \in [Calls -> Answers]
      /\ name' \in [Calls -> Names \cup {NoName}]
      /\ password' \in [Calls -> Passwords \cup {NoPassword}]
      /\ pc'[c] = "idle"
      /\ \A d \in Calls \ {c} : pc'[d] = pc[d] /\ name'[d] = name[d] /\ password'[d] = password[d]
  BY <1>1, AnswerFrame DEF Answers
<1>3. /\ name[c] \in Names /\ password[c] \in Passwords
      /\ row[name[c]] = HashPassword(password[c]) /\ row[name[c]] # NoRow
  BY <1>1, AccountsAssumption DEF CallsAreSound
<1>4. /\ token'[name[c]] = now + Ttl /\ \A n \in Names \ {name[c]} : token'[n] = token[n]
      /\ now \in Nat /\ Ttl \in Nat /\ MaxTime \in Nat /\ now <= MaxTime
  BY <1>1, <1>3, AccountsAssumption DEF TypeOK
<1>5. TypeOK'
  <2>1. now + Ttl \in 0..(MaxTime + Ttl)
    BY <1>4
  <2>2. token' \in [Names -> 0..(MaxTime + Ttl)]
    BY <1>1, <2>1 DEF TypeOK
  <2>3. \A n \in Names : token'[n] > 0 \/ rooms[n] > 0 => row[n] # NoRow
    BY <1>3, <1>4 DEF TypeOK
  <2> QED BY <1>1, <1>2, <2>2, <2>3 DEF TypeOK
<1>6. HistoryTypes'
  BY <1>1, <1>3 DEF HistoryTypes
<1>7. TokenNeedsPassword'
  <2> SUFFICES ASSUME NEW n \in Names, NEW p \in obtainedWith'[n]
               PROVE  row[n] # NoRow /\ VerifyPassword(row[n], p)
    BY <1>1 DEF TokenNeedsPassword
  <2>1. CASE p \in obtainedWith[n]
    BY <2>1 DEF TokenNeedsPassword
  <2>2. CASE n = name[c] /\ p = password[c]
    BY <1>3, <2>2 DEF VerifyPassword, HashPassword
  <2> QED BY <1>1, <1>3, <2>1, <2>2 DEF HistoryTypes
<1>8. CallsAreSound' /\ WonOnce'
  BY <1>1, <1>2 DEF CallsAreSound, WonOnce
<1>9. LockedOut'
  <2> SUFFICES ASSUME NEW n \in Names
               PROVE  /\ token'[n] <= now + Ttl
                      /\ status[n] = "disabled" => token'[n] <= closedAt[n] + Ttl
                      /\ status[n] = "disabled" /\ PastCheck(n)' => closedAt[n] = now
    BY <1>1 DEF LockedOut
  <2>1. CASE n = name[c]
    <3>1. status[n] = "disabled" => closedAt[n] = now
      BY <1>1, <2>1 DEF LockedOut, PastCheck
    <3> QED BY <1>4, <2>1, <3>1
  <2>2. CASE n # name[c]
    <3>1. PastCheck(n)' => PastCheck(n)
      BY <1>2 DEF PastCheck
    <3> QED BY <1>4, <2>2, <3>1 DEF LockedOut
  <2> QED BY <2>1, <2>2
<1> QED BY <1>5, <1>6, <1>7, <1>8, <1>9

LEMMA CreateRoomStep == ASSUME IndInv, NEW c \in Calls, CreateRoom(c) PROVE IndInv'
<1> USE DEF IndInv
<1>1. /\ pc[c] = "room" /\ Goto(c, "roomReread")
      /\ UNCHANGED <<now, row, status, token, won, obtainedWith, closedAt>>
      /\ rooms[name[c]] < MaxRooms /\ rooms' = [rooms EXCEPT ![name[c]] = @ + 1]
  BY DEF CreateRoom, historyVars
<1>2. /\ pc' \in [Calls -> Steps] /\ pc'[c] = "roomReread"
      /\ \A d \in Calls \ {c} : pc'[d] = pc[d]
      /\ name' = name /\ password' = password /\ answer' = answer
  BY <1>1, GotoFrame DEF Steps
<1>3. name[c] \in Names /\ row[name[c]] # NoRow
  BY <1>1 DEF CallsAreSound
<1>4. TypeOK'
  <2>1. rooms[name[c]] + 1 \in 0..MaxRooms
    BY <1>1, <1>3, AccountsAssumption DEF TypeOK
  <2>2. rooms' \in [Names -> 0..MaxRooms]
    BY <1>1, <2>1 DEF TypeOK
  <2>3. \A n \in Names : token[n] > 0 \/ rooms'[n] > 0 => row[n] # NoRow
    BY <1>1, <1>3 DEF TypeOK
  <2> QED BY <1>1, <1>2, <2>2, <2>3 DEF TypeOK
<1>5. HistoryTypes' /\ TokenNeedsPassword'
  BY <1>1 DEF HistoryTypes, TokenNeedsPassword
<1>6. CallsAreSound' /\ WonOnce'
  BY <1>1, <1>2, <1>3 DEF CallsAreSound, WonOnce
<1>7. LockedOut'
  <2>1. \A n \in Names : PastCheck(n)' => PastCheck(n)
    BY <1>1, <1>2 DEF PastCheck
  <2> QED BY <1>1, <2>1 DEF LockedOut
<1> QED BY <1>4, <1>5, <1>6, <1>7

\* The tokens that are out when an account is disabled end within Ttl.
LEMMA SetStatusStep ==
    ASSUME IndInv, NEW n \in Names, NEW s \in {"enabled", "disabled"}, SetStatus(n, s)
    PROVE  IndInv'
<1> USE DEF IndInv
<1>1. /\ row[n] # NoRow
      /\ status' = [status EXCEPT ![n] = s]
      /\ UNCHANGED <<now, row, rooms, token, pc, name, password, answer, won, obtainedWith>>
  BY DEF SetStatus, callVars
<1>2. /\ closedAt'[n] = IF s = "disabled" THEN now ELSE 0
      /\ \A x \in Names \ {n} : closedAt'[x] = closedAt[x] /\ status'[x] = status[x]
      /\ status'[n] = s
  BY DEF SetStatus, HistoryTypes, TypeOK
<1>3. TypeOK'
  BY <1>1 DEF TypeOK
<1>4. HistoryTypes'
  <2>1. now \in 0..MaxTime /\ 0 \in 0..MaxTime
    BY AccountsAssumption DEF TypeOK
  <2>2. closedAt' \in [Names -> 0..MaxTime]
    BY <2>1 DEF SetStatus, HistoryTypes
  <2> QED BY <1>1, <2>2 DEF HistoryTypes
<1>5. TokenNeedsPassword' /\ CallsAreSound' /\ WonOnce'
  BY <1>1 DEF TokenNeedsPassword, CallsAreSound, WonOnce
<1>6. LockedOut'
  <2> SUFFICES ASSUME NEW x \in Names
               PROVE  /\ token[x] <= now + Ttl
                      /\ status'[x] = "disabled" => row[x] # NoRow
                      /\ status'[x] = "disabled" => token[x] <= closedAt'[x] + Ttl
                      /\ status'[x] = "disabled" /\ PastCheck(x) => closedAt'[x] = now
    BY <1>1 DEF LockedOut, PastCheck
  <2>1. CASE x = n
    BY <1>1, <1>2, <2>1 DEF LockedOut
  <2>2. CASE x # n
    BY <1>2, <2>2 DEF LockedOut
  <2> QED BY <2>1, <2>2
<1> QED BY <1>3, <1>4, <1>5, <1>6

LEMMA TickStep == ASSUME IndInv, Tick PROVE IndInv'
<1> USE DEF IndInv
<1>1. /\ now' = now + 1 /\ now < MaxTime
      /\ UNCHANGED <<row, status, rooms, token, pc, name, password, answer, won, obtainedWith>>
      /\ closedAt' = [n \in Names |-> IF status[n] = "disabled" /\ PastCheck(n) THEN now' ELSE closedAt[n]]
  BY DEF Tick, tableVars, callVars
<1>2. now' \in 1..MaxTime /\ now \in Nat /\ Ttl \in Nat /\ now' \in 0..MaxTime
  BY <1>1, AccountsAssumption DEF TypeOK
<1>3. TypeOK'
  BY <1>1, <1>2 DEF TypeOK
<1>4. HistoryTypes'
  <2>1. closedAt' \in [Names -> 0..MaxTime]
    BY <1>1, <1>2 DEF HistoryTypes
  <2> QED BY <1>1, <2>1 DEF HistoryTypes
<1>5. TokenNeedsPassword' /\ CallsAreSound' /\ WonOnce'
  BY <1>1 DEF TokenNeedsPassword, CallsAreSound, WonOnce
<1>6. LockedOut'
  <2> SUFFICES ASSUME NEW n \in Names
               PROVE  /\ token[n] <= now' + Ttl
                      /\ status[n] = "disabled" => row[n] # NoRow
                      /\ status[n] = "disabled" => token[n] <= closedAt'[n] + Ttl
                      /\ status[n] = "disabled" /\ PastCheck(n) => closedAt'[n] = now'
    BY <1>1 DEF LockedOut, PastCheck
  <2>1. token[n] \in Nat /\ token[n] <= now + Ttl
    BY AccountsAssumption DEF LockedOut, TypeOK
  <2>2. token[n] <= now' + Ttl
    BY <1>1, <1>2, <2>1
  <2>3. closedAt'[n] = IF status[n] = "disabled" /\ PastCheck(n) THEN now' ELSE closedAt[n]
    BY <1>1
  <2> QED BY <2>2, <2>3 DEF LockedOut
<1> QED BY <1>3, <1>4, <1>5, <1>6

LEMMA IndStep == IndInv /\ [Next]_vars => IndInv'
<1> SUFFICES ASSUME IndInv, [Next]_vars PROVE IndInv'
  OBVIOUS
<1>1. ASSUME NEW c \in Calls, Serve(c) PROVE IndInv'
  BY <1>1, EndStep, LookUpStep, InsertStep, RereadStep, CheckCredentialsStep, IssueStep, CreateRoomStep DEF Serve
<1>2. CASE UNCHANGED vars
  BY <1>2 DEF vars, tableVars, callVars, historyVars, IndInv, TypeOK, HistoryTypes, TokenNeedsPassword,
              CallsAreSound, WonOnce, LockedOut, PastCheck
<1> QED BY <1>1, <1>2, RegisterStep, LoginStep, RequireAuthStep, SetStatusStep, TickStep DEF Next

-----------------------------------------------------------------------------
\* The inductive invariant of accounts and tokens.
THEOREM AccountsInvariant == Spec => []IndInv
  BY IndInit, IndStep, PTL DEF Spec

\* The tables of auth.Repository hold valid names and passwords, only accounts
\* have tokens and rooms, and auth.Service gives a token only for the password
\* of the row, to who lost a race for the name too.
THEOREM TokensNeedThePassword == Spec => []AccountsInv
<1>1. IndInv => AccountsInv
  BY DEF IndInv, AccountsInv
<1> QED BY <1>1, AccountsInvariant, PTL

\* What a step does to the row of a name, and when it answers that the name is taken.
LEMMA RowsStay ==
    ASSUME IndInv, Next
    PROVE  /\ \A n \in Names : row[n] # NoRow => row'[n] = row[n]
           /\ \A c \in Calls : answer'[c] = "USERNAME_TAKEN" /\ answer[c] # answer'[c] => row'[name[c]] # NoRow
<1> DEFINE Keeps == \A n \in Names : row[n] # NoRow => row'[n] = row[n]
           Truthful == \A c \in Calls : answer'[c] = "USERNAME_TAKEN" /\ answer[c] # answer'[c]
                                           => row'[name[c]] # NoRow
<1> SUFFICES Keeps /\ Truthful
  OBVIOUS
<1>0. TypeOK
  BY DEF IndInv
\* The other calls keep their answers.
<1>1. ASSUME NEW c \in Calls, NEW what \in Answers, Answer(c, what),
             what = "USERNAME_TAKEN" => row'[name[c]] # NoRow
      PROVE  Truthful
  BY <1>0, <1>1, AnswerFrame
<1>2. ASSUME NEW c \in Calls, RefuseInput(c) \/ RefuseTitle(c) \/ RereadRoom(c) \/ Fail(c) \/ Issue(c)
      PROVE  Keeps /\ Truthful
  <2>1. row' = row /\ \E what \in Answers \ {"USERNAME_TAKEN"} : Answer(c, what)
    BY <1>2 DEF RefuseInput, RefuseTitle, RereadRoom, Fail, Issue, tableVars, Answers
  <2> QED BY <1>1, <2>1
<1>3. ASSUME NEW c \in Calls, LookUp(c) PROVE Keeps /\ Truthful
  <2>1. row' = row
    BY <1>3 DEF LookUp, tableVars
  <2>2. CASE Goto(c, "insert")
    BY <2>1, <2>2 DEF Goto
  <2>3. CASE row[name[c]] # NoRow /\ Answer(c, "USERNAME_TAKEN")
    BY <1>1, <2>1, <2>3 DEF Answers
  <2> QED BY <1>3, <2>2, <2>3 DEF LookUp
<1>4. ASSUME NEW c \in Calls, CheckCredentials(c) PROVE Keeps /\ Truthful
  <2>1. row' = row
    BY <1>4 DEF CheckCredentials, tableVars
  <2>2. CASE Goto(c, "issue")
    BY <2>1, <2>2 DEF Goto
  <2>3. CASE Answer(c, "INVALID_CREDENTIALS") \/ Answer(c, "USER_DISABLED")
    BY <1>1, <2>1, <2>3 DEF Answers
  <2> QED BY <1>4, <2>2, <2>3 DEF CheckCredentials
<1>5. ASSUME NEW c \in Calls, Insert(c) PROVE Keeps /\ Truthful
  <2>1. CASE /\ row[name[c]] = NoRow /\ Goto(c, "reread")
             /\ row' = [row EXCEPT ![name[c]] = HashPassword(password[c])]
    BY <1>0, <2>1 DEF Goto, TypeOK
  <2>2. CASE row[name[c]] # NoRow /\ Answer(c, "USERNAME_TAKEN") /\ UNCHANGED row
    BY <1>1, <2>2 DEF Answers
  <2> QED BY <1>5, <2>1, <2>2 DEF Insert
<1>6. ASSUME NEW c \in Calls, Reread(c) \/ CreateRoom(c) PROVE Keeps /\ Truthful
  BY <1>6 DEF Reread, CreateRoom, Goto, tableVars
<1>7. ASSUME NEW c \in Calls, NEW n, NEW p, NEW step, Begin(c, n, p, step), row' = row
      PROVE  Keeps /\ Truthful
  BY <1>0, <1>7 DEF Begin, TypeOK
<1>8. ASSUME NEW c \in Calls, NEW s \in Spellings, NEW p \in Passwords, Register(c, s, p) \/ Login(c, s, p)
      PROVE  Keeps /\ Truthful
  BY <1>7, <1>8 DEF Register, Login, tableVars
<1>9. ASSUME NEW c \in Calls, NEW n \in Names, RequireAuth(c, n) PROVE Keeps /\ Truthful
  BY <1>7, <1>9 DEF RequireAuth, tableVars
<1>10. ASSUME NEW n \in Names, NEW s \in {"enabled", "disabled"}, SetStatus(n, s) PROVE Keeps /\ Truthful
  BY <1>10 DEF SetStatus, callVars
<1>11. CASE Tick
  BY <1>11 DEF Tick, tableVars, callVars
<1> HIDE DEF Keeps, Truthful
<1>12. ASSUME NEW c \in Calls, Serve(c) PROVE Keeps /\ Truthful
  BY <1>12, <1>2, <1>3, <1>4, <1>5, <1>6 DEF Serve
<1> QED BY <1>8, <1>9, <1>10, <1>11, <1>12 DEF Next

\* auth.Service.Register: a name has one account, its password is final, one
\* registration at most is answered with it, and a name is called taken only
\* when it is, for any races, spellings and retries.
THEOREM NameHasOneAccount == Spec => OneAccountPerName
<1>1. IndInv /\ [Next]_vars =>
        [/\ \A n \in Names : /\ row[n] # NoRow => row'[n] = row[n]
                             /\ won[n] => ~\E c \in Calls : name[c] = n /\ Reread(c)
         /\ \A c \in Calls : answer'[c] = "USERNAME_TAKEN" /\ answer[c] # answer'[c]
                                => row'[name[c]] # NoRow]_vars
  <2> SUFFICES ASSUME IndInv, Next
               PROVE  /\ \A n \in Names : /\ row[n] # NoRow => row'[n] = row[n]
                                          /\ won[n] => ~\E c \in Calls : name[c] = n /\ Reread(c)
                      /\ \A c \in Calls : answer'[c] = "USERNAME_TAKEN" /\ answer[c] # answer'[c]
                                             => row'[name[c]] # NoRow
    OBVIOUS
  <2>1. \A n \in Names : won[n] => ~\E c \in Calls : name[c] = n /\ Reread(c)
    BY DEF IndInv, WonOnce, Reread
  <2> QED BY <2>1, RowsStay
<1> QED BY <1>1, AccountsInvariant, PTL DEF Spec, OneAccountPerName

\* Only RequireAuth starts a request with a token.
LEMMA RoomNeedsToken ==
    ASSUME IndInv, Next, NEW c \in Calls, pc[c] = "idle", pc'[c] = "room"
    PROVE  name'[c] \in Names /\ Verify(name'[c])
<1>0. TypeOK
  BY DEF IndInv
<1>1. ASSUME NEW d \in Calls, Serve(d) PROVE FALSE
  <2>1. \/ \E what \in Answers : Answer(d, what)
        \/ \E step \in {"insert", "reread", "issue", "roomReread"} : Goto(d, step)
    BY <1>1 DEF Serve, RefuseInput, LookUp, Insert, Reread, CheckCredentials, Issue, RefuseTitle,
                CreateRoom, RereadRoom, Fail, Answers
  <2> QED BY <1>0, <2>1, AnswerFrame, GotoFrame DEF Steps
<1>2. ASSUME NEW d \in Calls, NEW s \in Spellings, NEW p \in Passwords, Register(d, s, p) \/ Login(d, s, p)
      PROVE  FALSE
  <2>1. \E n, step : Begin(d, n, p, step) /\ step # "room"
    BY <1>2 DEF Register, Login
  <2> QED BY <1>0, <2>1 DEF Begin, TypeOK
<1>3. ASSUME NEW d \in Calls, NEW n \in Names, RequireAuth(d, n) PROVE name'[c] = n /\ Verify(n)
  BY <1>0, <1>3 DEF RequireAuth, Begin, TypeOK
<1>4. ASSUME NEW n \in Names, NEW s, SetStatus(n, s) PROVE FALSE
  BY <1>4 DEF SetStatus, callVars
<1>5. CASE Tick
  BY <1>5 DEF Tick, callVars
<1> QED BY <1>1, <1>2, <1>3, <1>4, <1>5 DEF Next

\* The middleware RequireAuth never looks the account up, and yet a disabled
\* account is locked out once the life of a token has passed: auth.Service.Login
\* renews none, and a login that was past its check gets one more, from whose issue
\* the life counts.
THEOREM DisabledIsLockedOut == Spec => LockedOutAfterTtl
<1>1. IndInv /\ [Next]_vars =>
        [\A c \in Calls : pc[c] = "idle" /\ pc'[c] = "room" =>
            LET n == name'[c] IN status[n] = "enabled" \/ now < closedAt[n] + Ttl]_vars
  <2> SUFFICES ASSUME IndInv, Next, NEW c \in Calls, pc[c] = "idle", pc'[c] = "room"
               PROVE  status[name'[c]] = "enabled" \/ now < closedAt[name'[c]] + Ttl
    OBVIOUS
  <2>1. PICK n \in Names : n = name'[c] /\ Verify(n)
    BY RoomNeedsToken
  <2>2. CASE status[n] = "disabled"
    <3>1. token[n] <= closedAt[n] + Ttl /\ now < token[n]
      BY <2>1, <2>2 DEF IndInv, LockedOut, Verify
    <3>2. token[n] \in Nat /\ now \in Nat /\ closedAt[n] \in Nat /\ Ttl \in Nat
      BY <2>1, AccountsAssumption DEF IndInv, TypeOK, HistoryTypes
    <3> QED BY <2>1, <3>1, <3>2
  <2>3. status[n] \in {"enabled", "disabled"}
    BY DEF IndInv, TypeOK
  <2> QED BY <2>1, <2>2, <2>3
<1> QED BY <1>1, AccountsInvariant, PTL DEF Spec, LockedOutAfterTtl
=============================================================================
