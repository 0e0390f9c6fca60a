--------------------------------- MODULE Auth ---------------------------------
(***************************************************************************)
(* enroll/auth_core.py: users, their OAuth identities, their sessions and    *)
(* their students rows.  Every request is a thread of the enroll service    *)
(* that goes from one transaction to the next, and may fail or die with the *)
(* process in between.  A person is an email address, and a user the person *)
(* who signed up with it, for auth_users.email never changes; the address   *)
(* at a provider may.  Passwords are known by what set them: 0 for the      *)
(* signup, or the position of the reset token.                             *)
(***************************************************************************)
EXTENDS Integers, Sequences, FiniteSets

CONSTANTS
  Person, Desk,       \* email addresses; request threads
  Identity,           \* (provider, subject) pairs
  FailLimit,          \* _FAIL_LIMIT
  MaxLogins,          \* bounds the sessions
  MaxResets,          \* bounds the reset tokens
  MaxCrashes          \* bounds the crashes

ASSUME AuthAssumption ==
  /\ Person \cap {"none", "unlinked", "other"} = {}
  /\ FailLimit \in Nat \ {0} /\ MaxLogins \in Nat /\ MaxResets \in Nat /\ MaxCrashes \in Nat

VARIABLES
  users,       \* auth_users: NoUser, OauthOnly or what set the password
  identities,  \* auth_identities: the user of the identity, or "none"
  students,    \* students of the address: "none", "unlinked", the user it is
               \* linked to, or linked to an account of the "other" system
  logins,      \* auth_sessions, in the order of their creation
  tokens,      \* auth_reset_tokens
  consumed,    \* the tokens a reset consumed, in that order
  written,     \* the tokens a password was written for, in that order
  answered,    \* the tokens whose reset was confirmed to the user
  failures,    \* _login_fails: recent failures of the address
  desk,        \* the request of each thread
  crashes

authVars == <<users, identities, students, logins, tokens, consumed, written, answered,
              failures, desk, crashes>>

Free      == [op |-> "free"]
NoUser    == -2
OauthOnly == -1     \* a user without a password

AuthInit ==
  /\ users = [p \in Person |-> NoUser]
  /\ identities = [x \in Identity |-> "none"]
  /\ students \in [Person -> {"none", "unlinked", "other"}]
  /\ logins = <<>> /\ tokens = <<>> /\ consumed = <<>> /\ written = <<>> /\ answered = {}
  /\ failures = [p \in Person |-> 0]
  /\ desk = [d \in Desk |-> Free] /\ crashes = 0

Goto(d, request) == desk' = [desk EXCEPT ![d] = request]
Signin(d, u, p)  == Goto(d, [op |-> "bridge", person |-> u, address |-> p])   \* _bridge_and_payload
ResetRows        == <<tokens, consumed, written, answered>>

-----------------------------------------------------------------------------
(* signup: the address is looked up ...                                    *)
SignupCheck(d, p) ==
  /\ desk[d] = Free /\ users[p] = NoUser
  /\ Goto(d, [op |-> "insert", person |-> p])
  /\ UNCHANGED <<users, identities, students, logins, failures, crashes, ResetRows>>

(* ... and inserted; if it appeared meanwhile, the database refuses.       *)
SignupInsert(d) ==
  LET p == desk[d].person
  IN /\ desk[d].op = "insert"
     /\ IF users[p] = NoUser
          THEN users' = [users EXCEPT ![p] = 0] /\ Signin(d, p, p)
          ELSE UNCHANGED users /\ Goto(d, Free)
     /\ UNCHANGED <<identities, students, logins, failures, crashes, ResetRows>>

(* oauth_login, in one statement: the user the identity is linked to,       *)
(* whatever the address is now; else the user of the address or a new one, *)
(* to whom the identity is linked.  The row bridged is that of the address. *)
OauthLogin(d, x, p) ==
  LET known == identities[x] # "none"
      u     == IF known THEN identities[x] ELSE p
  IN /\ desk[d] = Free
     /\ users' = [users EXCEPT ![p] = IF ~known /\ @ = NoUser THEN OauthOnly ELSE @]
     /\ identities' = [identities EXCEPT ![x] = u]
     /\ Signin(d, u, p)
     /\ UNCHANGED <<students, logins, failures, crashes, ResetRows>>

(* login: the failures that are still recent and the password are read first, *)
LoginCheck(d, p) ==
  /\ desk[d] = Free
  /\ \E recent \in 0 .. failures[p] :
       /\ recent < FailLimit
       /\ Goto(d, [op |-> "verify", person |-> p, password |-> users[p], recent |-> recent])
  /\ UNCHANGED <<users, identities, students, logins, failures, crashes, ResetRows>>

(* then the hash is computed, and a failure counted on what was read.      *)
LoginVerify(d, right) ==
  LET p == desk[d].person
  IN /\ desk[d].op = "verify"
     /\ right => desk[d].password >= 0
     /\ failures' = [failures EXCEPT ![p] = IF right THEN 0 ELSE desk[d].recent + 1]
     /\ IF right THEN Signin(d, p, p) ELSE Goto(d, Free)
     /\ UNCHANGED <<users, identities, students, logins, crashes, ResetRows>>

HasRow(u) == \E p \in Person : students[p] = u

(* Faulty variant: the session does not wait for the students row.         *)
BridgeStudentLenient(d) ==
  LET p == desk[d].address
  IN /\ desk[d].op = "bridge"
     /\ Goto(d, [op |-> "session", person |-> desk[d].person])
     /\ students' = [students EXCEPT ![p] = IF @ \in {"none", "unlinked"} THEN desk[d].person ELSE @]
     /\ UNCHANGED <<users, identities, logins, failures, crashes, ResetRows>>

(* bridge_student: the students row of the user, one of the address that    *)
(* has no user yet, or a new one; the row of another account is refused.   *)
BridgeStudent(d) ==
  LET u == desk[d].person
      p == desk[d].address
  IN /\ desk[d].op = "bridge"
     /\ \/ /\ HasRow(u)
           /\ UNCHANGED students /\ Goto(d, [op |-> "session", person |-> u])
        \/ /\ ~HasRow(u) /\ students[p] \in {"none", "unlinked"}
           /\ students' = [students EXCEPT ![p] = u] /\ Goto(d, [op |-> "session", person |-> u])
        \/ /\ ~HasRow(u) /\ students[p] \notin {"none", "unlinked"}
           /\ UNCHANGED students /\ Goto(d, Free)
     /\ UNCHANGED <<users, identities, logins, failures, crashes, ResetRows>>

(* _handle_bridge: the same for an account of the other system.            *)
BridgeOther(p) ==
  /\ students[p] \in {"none", "unlinked"}
  /\ students' = [students EXCEPT ![p] = "other"]
  /\ UNCHANGED <<users, identities, logins, failures, desk, crashes, ResetRows>>

(* create_session                                                          *)
CreateSession(d) ==
  /\ desk[d].op = "session" /\ Len(logins) < MaxLogins
  /\ logins' = Append(logins, [person |-> desk[d].person, live |-> TRUE,
                               after |-> Len(consumed)])
  /\ Goto(d, Free)
  /\ UNCHANGED <<users, identities, students, failures, crashes, ResetRows>>

Ended(S) == [i \in DOMAIN logins |-> IF i \in S THEN [logins[i] EXCEPT !.live = FALSE] ELSE logins[i]]

(* revoke_session, or the session's end of life.                           *)
RevokeSession(i) ==
  /\ logins[i].live /\ logins' = Ended({i})
  /\ UNCHANGED <<users, identities, students, failures, desk, crashes, ResetRows>>

-----------------------------------------------------------------------------
Unspent(p) == {i \in DOMAIN tokens : tokens[i].person = p /\ ~tokens[i].used}
Spent(S)   == [i \in DOMAIN tokens |-> IF i \in S THEN [tokens[i] EXCEPT !.used = TRUE] ELSE tokens[i]]

(* request_reset: its UPDATE sees the tokens of the moment it runs ...     *)
RequestReset(d, p) ==
  /\ desk[d] = Free /\ users[p] # NoUser /\ Len(tokens) < MaxResets
  /\ Goto(d, [op |-> "token", person |-> p, retire |-> Unspent(p)])
  /\ UNCHANGED <<users, identities, students, logins, failures, crashes, ResetRows>>

(* ... and is committed with the new token; then the mail is sent.         *)
StoreToken(d) ==
  /\ desk[d].op = "token" /\ Len(tokens) < MaxResets
  /\ tokens' = Append(Spent(desk[d].retire), [person |-> desk[d].person, used |-> FALSE])
  /\ Goto(d, Free)
  /\ UNCHANGED <<users, identities, students, logins, consumed, written, answered, failures, crashes>>

ExpireToken(i) ==
  /\ ~tokens[i].used /\ tokens' = Spent({i})
  /\ UNCHANGED <<users, identities, students, logins, consumed, written, answered, failures, desk, crashes>>

(* confirm_reset: the token is consumed, if it is still good,              *)
ConsumeToken(d, i) ==
  /\ desk[d] = Free /\ ~tokens[i].used
  /\ tokens' = Spent({i}) /\ consumed' = Append(consumed, i)
  /\ Goto(d, [op |-> "write", person |-> tokens[i].person, token |-> i])
  /\ UNCHANGED <<users, identities, students, logins, written, answered, failures, crashes>>

(* the new password is written,                                            *)
WritePassword(d) ==
  /\ desk[d].op = "write"
  /\ users' = [users EXCEPT ![desk[d].person] = desk[d].token]
  /\ written' = Append(written, desk[d].token)
  /\ Goto(d, [op |-> "revoke", person |-> desk[d].person, token |-> desk[d].token])
  /\ UNCHANGED <<identities, students, logins, tokens, consumed, answered, failures, crashes>>

(* Faulty variant: only the latest session is ended.                       *)
RevokeLastSession(d) ==
  /\ desk[d].op = "revoke"
  /\ logins' = Ended({Len(logins)})
  /\ answered' = answered \cup {desk[d].token}
  /\ Goto(d, Free)
  /\ UNCHANGED <<users, identities, students, tokens, consumed, written, failures, crashes>>

(* and every session of the user ended, before the answer.                 *)
RevokeAllSessions(d) ==
  /\ desk[d].op = "revoke"
  /\ logins' = Ended({i \in DOMAIN logins : logins[i].person = desk[d].person})
  /\ answered' = answered \cup {desk[d].token}
  /\ Goto(d, Free)
  /\ UNCHANGED <<users, identities, students, tokens, consumed, written, failures, crashes>>

(* A transaction fails, and with it the request.                           *)
RequestFails(d) ==
  /\ desk[d] # Free /\ Goto(d, Free)
  /\ UNCHANGED <<users, identities, students, logins, failures, crashes, ResetRows>>

(* The process dies: its requests and its count of failures are gone.      *)
AuthCrash ==
  /\ crashes < MaxCrashes /\ crashes' = crashes + 1
  /\ desk' = [d \in Desk |-> Free] /\ failures' = [p \in Person |-> 0]
  /\ UNCHANGED <<users, identities, students, logins, ResetRows>>

AuthNext ==
  \/ \E d \in Desk, p \in Person :
       SignupCheck(d, p) \/ LoginCheck(d, p) \/ RequestReset(d, p)
  \/ \E d \in Desk, x \in Identity, p \in Person : OauthLogin(d, x, p)
  \/ \E d \in Desk :
       \/ SignupInsert(d) \/ BridgeStudent(d) \/ CreateSession(d) \/ StoreToken(d)
       \/ WritePassword(d) \/ RevokeAllSessions(d) \/ RequestFails(d)
       \/ \E right \in BOOLEAN : LoginVerify(d, right)
       \/ \E i \in DOMAIN tokens : ConsumeToken(d, i)
  \/ \E p \in Person : BridgeOther(p)
  \/ \E i \in DOMAIN logins : RevokeSession(i)
  \/ \E i \in DOMAIN tokens : ExpireToken(i)
  \/ AuthCrash

AuthSpec == AuthInit /\ [][AuthNext]_authVars

-----------------------------------------------------------------------------
AuthTypeOK ==
  /\ users \in [Person -> {NoUser, OauthOnly} \cup Nat]
  /\ identities \in [Identity -> {"none"} \cup Person]
  /\ students \in [Person -> {"none", "unlinked", "other"} \cup Person]
  /\ logins \in Seq([person : Person, live : BOOLEAN, after : Nat])
  /\ tokens \in Seq([person : Person, used : BOOLEAN])
  /\ consumed \in Seq(Nat) /\ written \in Seq(Nat) /\ answered \subseteq Nat

(* Who has a session has a user and exactly one students row, in whatever    *)
(* state a signup died, whatever address an identity comes back with, and   *)
(* however a bridge of the other system raced it: the app finds one student *)
(* behind every session.  The row may be that of another address than the  *)
(* user's own.                                                             *)
SessionBacked ==
  /\ \A i \in DOMAIN logins : users[logins[i].person] # NoUser /\ HasRow(logins[i].person)
  /\ \A p, q \in Person : students[p] = students[q] /\ students[p] \in Person => p = q

(* A reset link works once, however many requests use it at once; and when  *)
(* the user is told that the password is new, every session from before     *)
(* the link was used has ended.                                            *)
ResetEndsSessions ==
  /\ \A i, j \in DOMAIN written : written[i] = written[j] => i = j
  /\ \A n \in DOMAIN consumed, i \in DOMAIN logins :
       /\ consumed[n] \in answered
       /\ logins[i].person = tokens[consumed[n]].person
       /\ logins[i].after < n
       => ~logins[i].live
=============================================================================
