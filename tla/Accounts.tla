------------------------------ MODULE Accounts ------------------------------
(***************************************************************************)
(* Registration, login and access tokens of live-identity-room, and the    *)
(* creation of a room as what a token is used for.                         *)
(*                                                                         *)
(* A member of Calls is a request in progress.  Every call to MySQL is a   *)
(* step of its own; so is the issue of the token, which follows a slow     *)
(* password derivation.  A token is signed, so a user has the tokens that  *)
(* were issued, and the latest outlives the others.                        *)
(* Nothing in the repository changes users.status: that is done from       *)
(* outside.  Accounts are never deleted.                                   *)
(*                                                                         *)
(* won, obtainedWith and closedAt are history for the properties: whether  *)
(* a registration of the name was given the account, the passwords that    *)
(* tokens were given for, and when a disabled account was closed: it was   *)
(* disabled, and no login or registration of it was past its check.        *)
(***************************************************************************)
EXTENDS Naturals, FiniteSets

CONSTANTS
    Calls,
    Spellings,      \* user names as typed
    Passwords,
    Normalize,      \* the name of each spelling, in lower case and trimmed
    ValidUsername,  \* the names of 3 to 32 letters, digits and underscores; a bad
                    \* nickname is refused as a bad name is
    ValidPassword,  \* the passwords of 8 to 128 bytes
    Ttl,            \* life of a token
    MaxTime, MaxRooms,
    NoRow, NoName, NoPassword

Names == {Normalize[s] : s \in Spellings}

\* The encoded password names its scheme; its salted key matches this password only.
HashPassword(p) == <<"pbkdf2-sha256", p>>
VerifyPassword(encoded, p) == encoded = <<"pbkdf2-sha256", p>>

ASSUME AccountsAssumption ==
    /\ DOMAIN Normalize = Spellings
    /\ ValidUsername \subseteq Names /\ NoName \notin Names
    /\ ValidPassword \subseteq Passwords /\ NoPassword \notin Passwords
    /\ \A p \in Passwords : NoRow # HashPassword(p)
    /\ {Ttl, MaxRooms} \subseteq Nat /\ MaxTime \in Nat \ {0}

VARIABLES
    now,
    row,            \* the users table, by its unique username
    status,         \* users.status of the row
    token,          \* the expiry of the latest token of each account, 0: none
    rooms,          \* the number of rooms of each account
    pc, name, password, answer,
    won, obtainedWith, closedAt

tableVars == <<row, status, rooms>>
callVars == <<pc, name, password, answer>>
historyVars == <<won, obtainedWith, closedAt>>
vars == <<now, tableVars, token, callVars, historyVars>>

Init ==
    /\ now = 1
    /\ row = [n \in Names |-> NoRow]
    /\ status = [n \in Names |-> "enabled"]
    /\ token = [n \in Names |-> 0]
    /\ rooms = [n \in Names |-> 0]
    /\ pc = [c \in Calls |-> "idle"]
    /\ name = [c \in Calls |-> NoName]
    /\ password = [c \in Calls |-> NoPassword]
    /\ answer = [c \in Calls |-> "none"]
    /\ won = [n \in Names |-> FALSE]
    /\ obtainedWith = [n \in Names |-> {}]
    /\ closedAt = [n \in Names |-> 0]

Goto(c, step) == pc' = [pc EXCEPT ![c] = step] /\ UNCHANGED <<name, password, answer>>

\* The call ends; its handler is free for another request.
Answer(c, what) ==
    /\ pc' = [pc EXCEPT ![c] = "idle"]
    /\ name' = [name EXCEPT ![c] = NoName]
    /\ password' = [password EXCEPT ![c] = NoPassword]
    /\ answer' = [answer EXCEPT ![c] = what]

Begin(c, n, p, step) ==
    /\ pc[c] = "idle"
    /\ pc' = [pc EXCEPT ![c] = step]
    /\ name' = [name EXCEPT ![c] = n]
    /\ password' = [password EXCEPT ![c] = p]
    /\ answer' = [answer EXCEPT ![c] = "none"]

-----------------------------------------------------------------------------
(* Register *)

Register(c, spelling, p) ==
    LET n == Normalize[spelling] IN
    /\ Begin(c, n, p, IF n \in ValidUsername /\ p \in ValidPassword THEN "lookup" ELSE "invalid")
    /\ UNCHANGED <<now, tableVars, token, historyVars>>

RefuseInput(c) ==
    /\ pc[c] = "invalid"
    /\ Answer(c, "INVALID_AUTH_INPUT")
    /\ UNCHANGED <<now, tableVars, token, historyVars>>

\* The check before the insert.
LookUp(c) ==
    /\ pc[c] = "lookup"
    /\ IF row[name[c]] = NoRow THEN Goto(c, "insert") ELSE Answer(c, "USERNAME_TAKEN")
    /\ UNCHANGED <<now, tableVars, token, historyVars>>

\* Mutant: the table has no unique index.
Insert_NotUnique(c) ==
    /\ pc[c] = "insert"
    /\ row' = [row EXCEPT ![name[c]] = HashPassword(password[c])]
    /\ Goto(c, "reread")
    /\ UNCHANGED <<now, status, rooms, token, historyVars>>

\* Mutant: who lost the race is given the account that is there.
Insert_Idempotent(c) ==
    /\ pc[c] = "insert"
    /\ row' = [row EXCEPT ![name[c]] = IF @ = NoRow THEN HashPassword(password[c]) ELSE @]
    /\ Goto(c, "reread")
    /\ UNCHANGED <<now, status, rooms, token, historyVars>>

\* The insert: the unique index decides a race.
Insert(c) ==
    /\ pc[c] = "insert"
    /\ IF row[name[c]] = NoRow
       THEN row' = [row EXCEPT ![name[c]] = HashPassword(password[c])] /\ Goto(c, "reread")
       ELSE Answer(c, "USERNAME_TAKEN") /\ UNCHANGED row
    /\ UNCHANGED <<now, status, rooms, token, historyVars>>

\* Create reads the new row back.
Reread(c) ==
    /\ pc[c] = "reread"
    /\ Goto(c, "issue")
    /\ won' = [won EXCEPT ![name[c]] = TRUE]
    /\ UNCHANGED <<now, tableVars, token, obtainedWith, closedAt>>

-----------------------------------------------------------------------------
(* Login *)

Login(c, spelling, p) ==
    /\ Begin(c, Normalize[spelling], p, "login")
    /\ UNCHANGED <<now, tableVars, token, historyVars>>

\* Mutant: the status is not looked at.
CheckCredentials_AnyStatus(c) ==
    /\ pc[c] = "login"
    /\ IF VerifyPassword(row[name[c]], password[c]) THEN Goto(c, "issue") ELSE Answer(c, "INVALID_CREDENTIALS")
    /\ UNCHANGED <<now, tableVars, token, historyVars>>

\* One read of the row; the status is looked at before the password.
CheckCredentials(c) ==
    /\ pc[c] = "login"
    /\ \/ row[name[c]] = NoRow /\ Answer(c, "INVALID_CREDENTIALS")
       \/ row[name[c]] # NoRow /\ status[name[c]] = "disabled" /\ Answer(c, "USER_DISABLED")
       \/ /\ row[name[c]] # NoRow /\ status[name[c]] = "enabled"
          /\ IF VerifyPassword(row[name[c]], password[c]) THEN Goto(c, "issue") ELSE Answer(c, "INVALID_CREDENTIALS")
    /\ UNCHANGED <<now, tableVars, token, historyVars>>

-----------------------------------------------------------------------------
(* Tokens *)

\* The end of Register and of Login.
Issue(c) ==
    /\ pc[c] = "issue"
    /\ token' = [token EXCEPT ![name[c]] = now + Ttl]
    /\ obtainedWith' = [obtainedWith EXCEPT ![name[c]] = @ \cup {password[c]}]
    /\ Answer(c, "token")
    /\ UNCHANGED <<now, tableVars, won, closedAt>>

Verify(n) == token[n] # 0 /\ token[n] > now

\* A request with a token of n: the account is not looked up.
RequireAuth(c, n) ==
    /\ Verify(n)
    /\ Begin(c, n, NoPassword, "room")
    /\ UNCHANGED <<now, tableVars, token, historyVars>>

\* Service.Create refuses an empty title and one that is too long.
RefuseTitle(c) ==
    /\ pc[c] = "room"
    /\ Answer(c, "INVALID_ROOM_INPUT")
    /\ UNCHANGED <<now, tableVars, token, historyVars>>

\* The room is inserted,
CreateRoom(c) ==
    /\ pc[c] = "room"
    /\ rooms[name[c]] < MaxRooms
    /\ rooms' = [rooms EXCEPT ![name[c]] = @ + 1]
    /\ Goto(c, "roomReread")
    /\ UNCHANGED <<now, row, status, token, historyVars>>

\* and read back, with the nickname of its anchor.
RereadRoom(c) ==
    /\ pc[c] = "roomReread"
    /\ Answer(c, "room")
    /\ UNCHANGED <<now, tableVars, token, historyVars>>

\* A call to MySQL fails; an insert that was done all the same is Insert
\* or CreateRoom, and then the failure of the read.
Fail(c) ==
    /\ pc[c] \in {"lookup", "insert", "reread", "login", "room", "roomReread"}
    /\ Answer(c, "INTERNAL_ERROR")
    /\ UNCHANGED <<now, tableVars, token, historyVars>>

\* The account is disabled, or enabled again, from outside.
SetStatus(n, s) ==
    /\ row[n] # NoRow /\ status[n] # s
    /\ status' = [status EXCEPT ![n] = s]
    /\ closedAt' = [closedAt EXCEPT ![n] = IF s = "disabled" THEN now ELSE 0]
    /\ UNCHANGED <<now, row, rooms, token, callVars, won, obtainedWith>>

\* A call that will be given a token of n, whatever becomes of the account.
PastCheck(n) == \E c \in Calls : name[c] = n /\ pc[c] \in {"reread", "issue"}

Tick ==
    /\ now < MaxTime
    /\ now' = now + 1
    /\ closedAt' = [n \in Names |-> IF status[n] = "disabled" /\ PastCheck(n) THEN now' ELSE closedAt[n]]
    /\ UNCHANGED <<tableVars, token, callVars, won, obtainedWith>>

Serve(c) ==
    \/ RefuseInput(c) \/ LookUp(c) \/ Insert(c) \/ Reread(c) \/ CheckCredentials(c) \/ Issue(c)
    \/ RefuseTitle(c) \/ CreateRoom(c) \/ RereadRoom(c) \/ Fail(c)

Next ==
    \/ \E c \in Calls :
          \/ \E s \in Spellings, p \in Passwords : Register(c, s, p) \/ Login(c, s, p)
          \/ \E n \in Names : RequireAuth(c, n)
          \/ Serve(c)
    \/ \E n \in Names, s \in {"enabled", "disabled"} : SetStatus(n, s)
    \/ Tick

Spec == Init /\ [][Next]_vars

-----------------------------------------------------------------------------
(* Properties *)

Steps == {"idle", "invalid", "lookup", "insert", "reread", "login", "issue", "room", "roomReread"}
Answers == {"none", "INVALID_AUTH_INPUT", "USERNAME_TAKEN", "INVALID_CREDENTIALS", "USER_DISABLED",
            "INVALID_ROOM_INPUT", "INTERNAL_ERROR", "token", "room"}

\* Types; a name and a password in the table are valid ones, and only an account has
\* tokens and rooms.
TypeOK ==
    /\ now \in 1..MaxTime
    /\ row \in [Names -> {HashPassword(p) : p \in ValidPassword} \cup {NoRow}]
    /\ status \in [Names -> {"enabled", "disabled"}]
    /\ token \in [Names -> 0..(MaxTime + Ttl)] /\ rooms \in [Names -> 0..MaxRooms]
    /\ pc \in [Calls -> Steps] /\ answer \in [Calls -> Answers]
    /\ name \in [Calls -> Names \cup {NoName}]
    /\ password \in [Calls -> Passwords \cup {NoPassword}]
    /\ \A n \in Names :
          /\ row[n] # NoRow => n \in ValidUsername
          /\ token[n] > 0 \/ rooms[n] > 0 => row[n] # NoRow

\* Two spellings of a name, a registration that races with another one, and one that
\* is repeated after an error: a name has one account, its first password is final,
\* at most one registration was answered with it, and one is refused as taken only
\* when the name has an account.
OneAccountPerName ==
    [][/\ \A n \in Names : /\ row[n] # NoRow => row'[n] = row[n]
                           /\ won[n] => ~\E c \in Calls : name[c] = n /\ Reread(c)
       /\ \A c \in Calls : answer'[c] = "USERNAME_TAKEN" /\ answer[c] # answer'[c]
                              => row'[name[c]] # NoRow]_vars

\* Tokens of an account are only given for its own password, to whoever lost a race
\* for the name too.
TokenNeedsPassword ==
    \A n \in Names : \A p \in obtainedWith[n] : row[n] # NoRow /\ VerifyPassword(row[n], p)

\* The invariant of the users table and the tokens that are out.
AccountsInv == TypeOK /\ TokenNeedsPassword

\* A disabled account creates no request that is accepted later than a token's life
\* after it was disabled and the last login that had read it before was answered: the
\* tokens that are out are not revoked, nor are they renewed.
LockedOutAfterTtl ==
    [][\A c \in Calls : pc[c] = "idle" /\ pc'[c] = "room" =>
          LET n == name'[c] IN status[n] = "enabled" \/ now < closedAt[n] + Ttl]_vars
=============================================================================
