----------------------------- MODULE AuthProofs ------------------------------
(***************************************************************************)
(* Theorems about Auth, for every set of accounts and any number of        *)
(* changes, concurrent invocations and restarts: what a session says of    *)
(* the account Firebase has signed in.                                     *)
(***************************************************************************)
EXTENDS Auth, TLAPS

(* The awaits after the answer of getUserByFirebaseUid.                    *)
Answered == {"checkNew", "createUser", "checkAdmin"}

(* The last change not delivered is the account of the moment.             *)
LastEventIsCurrent == events # <<>> => events[Len(events)] = fbUser

(* An invocation runs for an account, and so long as no change came in
   between all of them for the same one, the one last delivered.           *)
RunsForAccount == \A h \in Running : handler[h].account \in Account
OneAccount ==
  ~crossed => \A g, h \in Running : handler[g].account = handler[h].account
RunsForCurrent ==
  ~crossed /\ events = <<>> => \A h \in Running : handler[h].account = fbUser

(* The user is null, or of the account of every invocation that set it.    *)
NobodyIsNull == user.owner = Nobody => user = NoUser
UserIsOwn ==
  ~crossed => \A h \in Handler :
    handler[h].pc \in Answered => user.owner \in {handler[h].account, Nobody}

AuthInv ==
  /\ TypeOK
  /\ LastEventIsCurrent
  /\ RunsForAccount /\ OneAccount /\ RunsForCurrent
  /\ NobodyIsNull /\ UserIsOwn
  /\ RegistersOwnAccount
  /\ SessionFollowsFirebase

-----------------------------------------------------------------------------
(* The users there are.                                                    *)
LEMMA UserTypes ==
  /\ NoUser \in User
  /\ \A a \in Who, f \in BOOLEAN : Decoded(a, f) \in User
  /\ \A a \in Who, f \in BOOLEAN, h \in Handler : [owner |-> a, isAdmin |-> f, madeBy |-> h] \in User
  BY AuthAssumption DEF NoUser, Decoded, User, Who, Handler

(* The invocations there are.                                              *)
LEMMA InvocationTypes ==
  /\ Idle \in Invocation
  /\ \A p \in Awaits, a \in Who, u \in User : [pc |-> p, account |-> a, sent |-> u] \in Invocation
  /\ \A a \in Who : Started(a) \in [Handler -> Invocation]
<1>1. Idle \in Invocation
  BY UserTypes DEF Idle, Invocation, Awaits, Who
<1>2. \A p \in Awaits, a \in Who, u \in User : [pc |-> p, account |-> a, sent |-> u] \in Invocation
  BY DEF Invocation
<1>3. \A a \in Who : Started(a) \in [Handler -> Invocation]
  <2>1. \A a \in Who : [pc |-> "getUser", account |-> a, sent |-> NoUser] \in Invocation
    BY <1>2, UserTypes DEF Awaits
  <2> QED
    BY <1>1, <2>1 DEF Started
<1> QED
  BY <1>1, <1>2, <1>3

(* Every step keeps the types.                                             *)
LEMMA TypeNext == TypeOK /\ [Next]_vars => TypeOK'
<1> SUFFICES ASSUME TypeOK, [Next]_vars PROVE TypeOK'
  OBVIOUS
<1> USE AuthAssumption
<1> "idle" \in Awaits /\ "getUser" \in Awaits /\ "checkNew" \in Awaits /\ "createUser" \in Awaits /\ "checkAdmin" \in Awaits
  BY DEF Awaits
<1>1. ASSUME NEW a \in Who, Change(a) PROVE TypeOK'
  BY <1>1 DEF Change, TypeOK, prefs, backend
<1>2. CASE DeliverSignOut
  <2>1. events' \in Seq(Who) /\ current' \in Who
    BY <1>2 DEF DeliverSignOut, ClearUserData, TypeOK, Who
  <2>2. crossed' \in BOOLEAN
    BY <1>2 DEF DeliverSignOut, TypeOK
  <2> QED
    BY <1>2, <2>1, <2>2 DEF DeliverSignOut, ClearUserData, TypeOK, backend, bounds
<1>3. ASSUME NEW h \in Handler, DeliverSignIn(h) PROVE TypeOK'
  <2>1. Head(events) \in Who /\ Tail(events) \in Seq(Who)
    BY <1>3 DEF DeliverSignIn, TypeOK
  <2>2. handler' \in [Handler -> Invocation]
    BY <1>3, <2>1, UserTypes, InvocationTypes DEF DeliverSignIn, TypeOK
  <2>3. crossed' \in BOOLEAN
    BY <1>3 DEF DeliverSignIn, TypeOK
  <2> QED
    BY <1>3, <2>1, <2>2, <2>3 DEF DeliverSignIn, TypeOK, prefs, backend, bounds
(* A step of an invocation sets its await, its parameters and the user.    *)
<1>4. ASSUME NEW h \in Handler, NEW p \in Awaits
      PROVE  /\ [handler EXCEPT ![h].pc = p] \in [Handler -> Invocation]
             /\ \A u \in User : [handler EXCEPT ![h].pc = p, ![h].sent = u] \in [Handler -> Invocation]
  BY DEF TypeOK, Invocation
<1>5. ASSUME NEW h \in Handler, GetUserFound(h) PROVE TypeOK'
  <2>1. user' \in User
    BY <1>5, UserTypes DEF GetUserFound, TypeOK, Who
  <2>2. handler' \in [Handler -> Invocation]
    BY <1>4, <1>5 DEF GetUserFound
  <2> QED
    BY <1>5, <2>1, <2>2 DEF GetUserFound, TypeOK, prefs, backend, bounds
<1>6. ASSUME NEW h \in Handler, GetUserNull(h) PROVE TypeOK'
  <2>1. user' \in User
    BY <1>6, UserTypes DEF GetUserNull, TypeOK, Invocation
  <2>2. handler' \in [Handler -> Invocation]
    BY <1>4, <1>6 DEF GetUserNull
  <2> QED
    BY <1>6, <2>1, <2>2 DEF GetUserNull, TypeOK, prefs, backend, bounds
<1>7. ASSUME NEW h \in Handler, CheckedNew(h) PROVE TypeOK'
  <2>1. PICK isAdmin \in CheckIfAdmin(handler[h].account) : CheckedNew(h)!(isAdmin)
    BY <1>7 DEF CheckedNew
  <2>2. isAdmin \in BOOLEAN
    BY <2>1 DEF CheckIfAdmin
  <2>3. user' \in User
    BY <2>1, <2>2 DEF TypeOK, User
  <2>4. handler' \in [Handler -> Invocation]
    BY <1>4, <2>1, <2>3
  <2> QED
    BY <2>1, <2>3, <2>4 DEF TypeOK, prefs, backend, bounds
<1>8. ASSUME NEW h \in Handler
      PROVE  handler[h].sent \in User /\ (handler[h].sent.owner # Nobody => handler[h].sent.owner \in Account)
  BY DEF TypeOK, Invocation, User, Who
<1>9. ASSUME NEW h \in Handler, CreateUserOk(h) PROVE TypeOK'
  <2> DEFINE sent == handler[h].sent
  <2>1. sent.owner \in Account /\ sent.isAdmin \in BOOLEAN
    BY <1>8, <1>9 DEF CreateUserOk, User
  <2>2. user' \in User
    BY <1>9, <2>1, UserTypes DEF CreateUserOk, Who
  <2>3. handler' \in [Handler -> Invocation]
    BY <1>4, <1>9, UserTypes DEF CreateUserOk
  <2>4. registered' \in SUBSET Account /\ remoteAdmin' \in [Account -> BOOLEAN]
    BY <1>9, <2>1 DEF CreateUserOk, TypeOK
  <2> QED
    BY <1>9, <2>2, <2>3, <2>4 DEF CreateUserOk, TypeOK, prefs, bounds
<1>10. ASSUME NEW h \in Handler, CreateUserFailed(h) PROVE TypeOK'
  <2>1. registered' \in SUBSET Account /\ remoteAdmin' \in [Account -> BOOLEAN]
    BY <1>8, <1>10 DEF CreateUserFailed, TypeOK, backend, User
  <2>2. user' \in User /\ handler' \in [Handler -> Invocation]
    BY <1>4, <1>10, UserTypes DEF CreateUserFailed
  <2> QED
    BY <1>10, <2>1, <2>2 DEF CreateUserFailed, TypeOK, prefs, bounds
<1>11. ASSUME NEW h \in Handler, CheckedAdmin(h) PROVE TypeOK'
  <2>1. PICK isAdmin \in CheckIfAdmin(handler[h].account) : CheckedAdmin(h)!(isAdmin)
    BY <1>11 DEF CheckedAdmin
  <2>2. isAdmin \in BOOLEAN
    BY <2>1 DEF CheckIfAdmin
  <2>3. user.owner \in Who
    BY DEF TypeOK, User
  <2>4. user' \in User
    BY <2>1, <2>2, <2>3, UserTypes DEF TypeOK
  <2>5. handler' \in [Handler -> Invocation]
    BY <2>1, InvocationTypes DEF TypeOK
  <2>6. current' \in Who
    BY <2>1, <2>3 DEF OwnerOr, TypeOK, Invocation
  <2> QED
    BY <2>1, <2>2, <2>4, <2>5, <2>6 DEF LoginState, TypeOK, backend, bounds
<1>12. CASE Restart
  <2>1. events' \in Seq(Who) /\ handler' \in [Handler -> Invocation]
    BY <1>12, InvocationTypes DEF Restart, TypeOK
  <2>2. user' \in User
    BY <1>12, UserTypes DEF Restart
  <2>3. restarts' \in Nat
    BY <1>12 DEF Restart, TypeOK
  <2>4. crossed' \in BOOLEAN
    BY <1>12 DEF Restart
  <2> QED
    BY <1>12, <2>1, <2>2, <2>3, <2>4 DEF Restart, TypeOK, prefs, backend
<1>13. CASE UNCHANGED vars
  BY <1>13 DEF vars, TypeOK, prefs, backend, bounds
<1> QED
  BY <1>1, <1>2, <1>3, <1>5, <1>6, <1>7, <1>9, <1>10, <1>11, <1>12, <1>13
     DEF Next, SignIn, SignOut, Deliver, Resume, Who

(* The initial states have the types.                                      *)
LEMMA TypeInit == Init => TypeOK
<1> SUFFICES ASSUME Init PROVE TypeOK
  OBVIOUS
<1>1. fbUser \in Who /\ events \in Seq(Who) /\ current \in Who
  BY DEF Init, Who
<1>2. handler \in [Handler -> Invocation] /\ user \in User
  BY UserTypes, InvocationTypes DEF Init
<1>3. remoteAdmin \in [Account -> BOOLEAN]
  BY DEF Init
<1> QED
  BY <1>1, <1>2, <1>3 DEF Init, TypeOK

(* Every variable keeps its type, whatever is interleaved.                 *)
THEOREM TypeCorrect == Spec => []TypeOK
  BY TypeInit, TypeNext, PTL DEF Spec

-----------------------------------------------------------------------------
(* The invariant.                                                          *)

(* The initial states satisfy AuthInv.                                     *)
LEMMA AuthInit == Init => AuthInv
<1> SUFFICES ASSUME Init PROVE AuthInv
  OBVIOUS
<1> USE AuthAssumption
<1>1. TypeOK
  BY TypeInit
<1>2. events = <<fbUser>> /\ Len(events) = 1
  BY DEF Init
<1>3. \A h \in Running : handler[h].account = fbUser /\ fbUser \in Account /\ handler[h].pc = "getUser"
  BY DEF Init, Running, Started, Idle, Who
<1>4. user = NoUser /\ user.owner = Nobody
  BY DEF Init, NoUser
<1>5. \A h \in Handler : handler[h].pc \in {"idle", "getUser"}
  BY <1>3 DEF Running
<1> QED
  BY <1>1, <1>2, <1>3, <1>4, <1>5
     DEF AuthInv, LastEventIsCurrent, RunsForAccount, OneAccount, RunsForCurrent, NobodyIsNull,
         UserIsOwn, RegistersOwnAccount, SessionFollowsFirebase, Quiet, Answered, At

(* What every step of an invocation that goes on has in common: it stays for
   its account, so only the user and what is sent are to be looked at.     *)
LEMMA GoesOn ==
  ASSUME AuthInv, TypeOK', NEW h \in Handler, handler[h].pc # "idle",
         handler'[h].account = handler[h].account, handler'[h].pc # "idle",
         \A g \in Handler \ {h} : handler'[g] = handler[g],
         UNCHANGED <<fbUser, events, crossed>>
  PROVE  /\ LastEventIsCurrent' /\ RunsForAccount' /\ OneAccount' /\ RunsForCurrent'
         /\ SessionFollowsFirebase'
<1>1. Running' = Running /\ \A g \in Handler : handler'[g].account = handler[g].account
  BY DEF Running
<1>2. h \in Running
  BY DEF Running
<1>3. LastEventIsCurrent'
  BY DEF AuthInv, LastEventIsCurrent
<1>4. RunsForAccount' /\ OneAccount' /\ RunsForCurrent'
  BY <1>1 DEF AuthInv, RunsForAccount, OneAccount, RunsForCurrent, Running
<1>5. SessionFollowsFirebase'
  BY <1>1, <1>2 DEF SessionFollowsFirebase, Quiet
<1> QED
  BY <1>3, <1>4, <1>5

(* Every step keeps AuthInv.                                               *)
LEMMA AuthNext == AuthInv /\ [Next]_vars => AuthInv'
<1> SUFFICES ASSUME AuthInv, [Next]_vars PROVE AuthInv'
  OBVIOUS
<1> USE AuthAssumption
<1>0. TypeOK /\ TypeOK'
  BY TypeNext DEF AuthInv
(* Firebase changes the account: there is an event to deliver.             *)
<1>1. ASSUME NEW a \in Who, Change(a) PROVE AuthInv'
  <2>1. events' = Append(events, a) /\ events' # <<>> /\ events'[Len(events')] = a
    BY <1>0, <1>1 DEF Change, TypeOK
  <2>2. UNCHANGED <<handler, user, crossed>> /\ Running' = Running
    BY <1>1 DEF Change, Running
  <2>3. LastEventIsCurrent'
    BY <1>1, <2>1 DEF Change, LastEventIsCurrent
  <2>4. RunsForCurrent' /\ SessionFollowsFirebase'
    BY <2>1 DEF RunsForCurrent, SessionFollowsFirebase, Quiet
  <2> QED
    BY <1>0, <2>2, <2>3, <2>4
       DEF AuthInv, RunsForAccount, OneAccount, NobodyIsNull, UserIsOwn, RegistersOwnAccount, At
(* What is left of the events when one is delivered.                       *)
<1>2. ASSUME events # <<>>, events' = Tail(events), fbUser' = fbUser
      PROVE  LastEventIsCurrent' /\ (events' = <<>> => Head(events) = fbUser)
  <2>1. events \in Seq(Who) /\ events[Len(events)] = fbUser
    BY <1>0, <1>2 DEF TypeOK, AuthInv, LastEventIsCurrent
  <2>2. CASE events' = <<>>
    <3>1. Tail(events) = <<>>
      BY <1>2, <2>2
    <3>2. Len(events) = 1 /\ Head(events) = events[1]
      <4>1. Len(Tail(events)) = Len(events) - 1 /\ Head(events) = events[1] /\ Len(events) \in Nat
        BY <1>2, <2>1
      <4>2. Len(<<>>) = 0
        OBVIOUS
      <4>3. Len(Tail(events)) = 0
        BY <3>1, <4>2, Zenon
      <4> QED
        BY <4>1, <4>3
    <3> QED
      BY <1>2, <2>1, <2>2, <3>2 DEF LastEventIsCurrent
  <2>3. CASE events' # <<>>
    BY <1>2, <2>1, <2>3 DEF LastEventIsCurrent
  <2> QED
    BY <2>2, <2>3
<1>3. CASE DeliverSignOut
  <2>1. LastEventIsCurrent' /\ (events' = <<>> => fbUser' = Nobody)
    BY <1>2, <1>3 DEF DeliverSignOut
  <2>2. UNCHANGED <<handler, user>> /\ Running' = Running
    BY <1>3 DEF DeliverSignOut, Running
  <2>3. ~crossed' => ~crossed /\ Running = {}
    BY <1>3 DEF DeliverSignOut
  <2>4. RunsForAccount' /\ OneAccount' /\ RunsForCurrent'
    BY <2>2, <2>3 DEF AuthInv, RunsForAccount, OneAccount, RunsForCurrent
  <2>5. NobodyIsNull' /\ UserIsOwn' /\ RegistersOwnAccount'
    BY <2>2, <2>3 DEF AuthInv, NobodyIsNull, UserIsOwn, RegistersOwnAccount, At
  <2>6. SessionFollowsFirebase'
    BY <1>3, <2>1 DEF DeliverSignOut, ClearUserData, SessionFollowsFirebase, Quiet
  <2> QED
    BY <1>0, <2>1, <2>4, <2>5, <2>6 DEF AuthInv
<1>4. ASSUME NEW h \in Handler, DeliverSignIn(h) PROVE AuthInv'
  <2> DEFINE a == Head(events)
  <2>1. LastEventIsCurrent' /\ (events' = <<>> => fbUser' = a)
    BY <1>2, <1>4 DEF DeliverSignIn
  <2>2. a \in Account
    BY <1>0, <1>4 DEF DeliverSignIn, TypeOK, Who
  <2>3. /\ handler'[h].account = a /\ handler'[h].pc = "getUser"
        /\ \A g \in Handler \ {h} : handler'[g] = handler[g]
        /\ Running' = Running \cup {h}
    BY <1>0, <1>4 DEF DeliverSignIn, TypeOK, Running
  <2>4. ~crossed' => ~crossed /\ \A g \in Running : handler[g].account = a
    BY <1>4 DEF DeliverSignIn
  <2>5. h \notin Running /\ Running \subseteq Handler \ {h}
    BY <1>4 DEF DeliverSignIn, At, Running
  <2>6. RunsForAccount' /\ OneAccount' /\ RunsForCurrent'
    BY <2>1, <2>2, <2>3, <2>4, <2>5 DEF AuthInv, RunsForAccount, OneAccount, RunsForCurrent
  <2>7. NobodyIsNull' /\ UserIsOwn' /\ RegistersOwnAccount'
    BY <1>4, <2>3, <2>4 DEF AuthInv, DeliverSignIn, NobodyIsNull, UserIsOwn, RegistersOwnAccount, At, Answered
  <2>8. SessionFollowsFirebase'
    BY <2>3 DEF SessionFollowsFirebase, Quiet
  <2> QED
    BY <1>0, <2>1, <2>6, <2>7, <2>8 DEF AuthInv
(* The invocations that go on: the user they leave is of their account, and
   that is every invocation's.                                             *)
<1>5. ASSUME NEW h \in Handler, handler[h].pc # "idle",
             handler'[h].account = handler[h].account, handler'[h].pc \in Answered,
             \A g \in Handler \ {h} : handler'[g] = handler[g],
             UNCHANGED <<fbUser, events, crossed>>,
             NobodyIsNull',
             ~crossed => user'.owner \in {handler[h].account, Nobody},
             ~crossed /\ handler'[h].pc = "createUser" =>
               handler'[h].sent.owner \in {handler[h].account, Nobody}
      PROVE  AuthInv'
  <2>1. \A g \in Handler : ~crossed /\ handler[g].pc # "idle" => handler[g].account = handler[h].account
    BY <1>5 DEF AuthInv, OneAccount, Running
  <2>2. UserIsOwn'
    <3> SUFFICES ASSUME ~crossed, NEW g \in Handler, handler'[g].pc \in Answered
                 PROVE  user'.owner \in {handler'[g].account, Nobody}
      BY <1>5 DEF UserIsOwn
    <3>1. handler'[g].account = handler[h].account
      BY <1>5, <2>1 DEF Answered
    <3> QED
      BY <1>5, <3>1
  <2>3. RegistersOwnAccount'
    BY <1>5 DEF AuthInv, RegistersOwnAccount, At
  <2> QED
    BY <1>0, <1>5, <2>2, <2>3, GoesOn DEF AuthInv, Answered
<1>6. ASSUME NEW h \in Handler, GetUserFound(h) PROVE AuthInv'
  <2>1. handler[h].account \in Account
    BY <1>6 DEF GetUserFound, AuthInv, RunsForAccount, Running, At
  <2>2. user'.owner = handler[h].account /\ NobodyIsNull'
    BY <1>6, <2>1 DEF GetUserFound, Decoded, NobodyIsNull
  <2> QED
    BY <1>0, <1>5, <1>6, <2>2 DEF GetUserFound, At, TypeOK, Invocation, Answered
<1>7. ASSUME NEW h \in Handler, GetUserNull(h) PROVE AuthInv'
  <2>1. handler[h].account \in Account
    BY <1>7 DEF GetUserNull, AuthInv, RunsForAccount, Running, At
  <2>2. user'.owner = handler[h].account /\ NobodyIsNull'
    BY <1>7, <2>1 DEF GetUserNull, NobodyIsNull
  <2> QED
    BY <1>0, <1>5, <1>7, <2>2 DEF GetUserNull, At, TypeOK, Invocation, Answered
<1>8. ASSUME NEW h \in Handler, CheckedNew(h) PROVE AuthInv'
  <2>1. PICK isAdmin \in CheckIfAdmin(handler[h].account) : CheckedNew(h)!(isAdmin)
    BY <1>8 DEF CheckedNew
  <2>2. user'.owner = user.owner
    BY <1>0, <2>1 DEF TypeOK, User
  <2>3. NobodyIsNull'
    <3>1. user = NoUser => user' = user
      <4>1. h # 0
        BY DEF Handler
      <4> QED
        BY <2>1, <4>1 DEF NoUser
    <3> QED
      BY <2>2, <3>1 DEF AuthInv, NobodyIsNull
  <2>4. ~crossed => user.owner \in {handler[h].account, Nobody}
    BY <2>1 DEF AuthInv, UserIsOwn, At, Answered
  <2>5. /\ handler'[h].account = handler[h].account /\ handler'[h].pc = "createUser" /\ handler'[h].sent = user'
        /\ \A g \in Handler \ {h} : handler'[g] = handler[g]
    BY <1>0, <2>1 DEF TypeOK, Invocation
  <2> QED
    BY <1>5, <2>1, <2>2, <2>3, <2>4, <2>5 DEF At, Answered
<1>9. ASSUME NEW h \in Handler, CreateUserOk(h) PROVE AuthInv'
  <2>1. ~crossed => handler[h].sent.owner \in {handler[h].account, Nobody}
    BY <1>9 DEF CreateUserOk, AuthInv, RegistersOwnAccount
  <2>2. user'.owner = handler[h].sent.owner /\ NobodyIsNull'
    BY <1>9 DEF CreateUserOk, Decoded, NobodyIsNull
  <2>3. /\ handler'[h].account = handler[h].account /\ handler'[h].pc = "checkAdmin"
        /\ \A g \in Handler \ {h} : handler'[g] = handler[g]
    BY <1>0, <1>9 DEF CreateUserOk, TypeOK, Invocation
  <2> QED
    BY <1>5, <1>9, <2>1, <2>2, <2>3 DEF CreateUserOk, At, Answered
<1>10. ASSUME NEW h \in Handler, CreateUserFailed(h) PROVE AuthInv'
  <2>1. user'.owner = Nobody /\ NobodyIsNull'
    BY <1>10 DEF CreateUserFailed, NoUser, NobodyIsNull
  <2>2. /\ handler'[h].account = handler[h].account /\ handler'[h].pc = "checkAdmin"
        /\ \A g \in Handler \ {h} : handler'[g] = handler[g]
    BY <1>0, <1>10 DEF CreateUserFailed, TypeOK, Invocation
  <2> QED
    BY <1>5, <1>10, <2>1, <2>2 DEF CreateUserFailed, At, Answered
(* The invocation that ends: if it was the last one, it spoke for the
   account of the moment.                                                  *)
<1>11. ASSUME NEW h \in Handler, CheckedAdmin(h) PROVE AuthInv'
  <2>1. PICK isAdmin \in CheckIfAdmin(handler[h].account) : CheckedAdmin(h)!(isAdmin)
    BY <1>11 DEF CheckedAdmin
  <2>2. user'.owner = user.owner /\ NobodyIsNull'
    BY <2>1 DEF AuthInv, NobodyIsNull, Decoded, NoUser
  <2>3. handler'[h].pc = "idle" /\ \A g \in Handler \ {h} : handler'[g] = handler[g]
    BY <1>0, <2>1 DEF TypeOK, Idle
  <2>4. h \in Running /\ Running' = Running \ {h}
    BY <2>1, <2>3 DEF Running, At
  <2>5. LastEventIsCurrent'
    BY <2>1 DEF AuthInv, LastEventIsCurrent
  <2>6. RunsForAccount' /\ OneAccount' /\ RunsForCurrent'
    BY <2>1, <2>3, <2>4 DEF AuthInv, RunsForAccount, OneAccount, RunsForCurrent
  <2>7. UserIsOwn' /\ RegistersOwnAccount'
    BY <2>1, <2>2, <2>3 DEF AuthInv, UserIsOwn, RegistersOwnAccount, At, Answered
  <2>8. SessionFollowsFirebase'
    <3> SUFFICES ASSUME events = <<>>, ~crossed
                 PROVE  /\ loggedIn' <=> fbUser # Nobody
                        /\ current' = fbUser
                        /\ admin' => fbUser \in Admins
                        /\ fbUser # Nobody /\ user' # NoUser => user'.owner = fbUser /\ user'.isAdmin = admin'
      BY <2>1 DEF SessionFollowsFirebase, Quiet
    <3>1. handler[h].account = fbUser /\ fbUser \in Account
      BY <2>4 DEF AuthInv, RunsForCurrent, RunsForAccount
    <3>2. user.owner \in {fbUser, Nobody}
      BY <2>1, <3>1 DEF AuthInv, UserIsOwn, At, Answered
    <3>3. user # NoUser => user.owner = fbUser
      BY <3>2 DEF AuthInv, NobodyIsNull
    <3>4. loggedIn' /\ current' = fbUser
      BY <2>1, <3>1, <3>3 DEF LoginState, OwnerOr
    <3>5. admin' => fbUser \in Admins
      BY <2>1, <3>1 DEF CheckIfAdmin, AdminLists
    <3>6. user' # NoUser => user'.owner = fbUser /\ user'.isAdmin = admin'
      BY <2>1, <2>2, <3>3 DEF Decoded
    <3> QED
      BY <3>1, <3>4, <3>5, <3>6
  <2> QED
    BY <1>0, <2>2, <2>5, <2>6, <2>7, <2>8 DEF AuthInv
<1>12. CASE Restart
  <2>1. events' = <<fbUser>> /\ fbUser' = fbUser /\ Len(events') = 1
    BY <1>12 DEF Restart
  <2>2. \A h \in Running' : handler'[h].account = fbUser /\ fbUser \in Account /\ handler'[h].pc = "getUser"
    BY <1>0, <1>12 DEF Restart, Running, Started, Idle, Who, TypeOK
  <2>3. \A h \in Handler : handler'[h].pc \in {"idle", "getUser"}
    BY <2>2 DEF Running
  <2>4. LastEventIsCurrent' /\ RunsForAccount' /\ OneAccount' /\ RunsForCurrent' /\ SessionFollowsFirebase'
    BY <2>1, <2>2 DEF LastEventIsCurrent, RunsForAccount, OneAccount, RunsForCurrent, SessionFollowsFirebase, Quiet
  <2>5. UserIsOwn' /\ RegistersOwnAccount' /\ NobodyIsNull'
    BY <1>12, <2>3 DEF Restart, UserIsOwn, RegistersOwnAccount, NobodyIsNull, At, Answered
  <2> QED
    BY <1>0, <2>4, <2>5 DEF AuthInv
<1>13. CASE UNCHANGED vars
  <2>1. UNCHANGED <<fbUser, events, handler, user, loggedIn, admin, current, crossed>> /\ Running' = Running
    BY <1>13 DEF vars, prefs, Running
  <2>2. LastEventIsCurrent' /\ RunsForAccount' /\ OneAccount' /\ RunsForCurrent'
    BY <2>1 DEF AuthInv, LastEventIsCurrent, RunsForAccount, OneAccount, RunsForCurrent
  <2>3. NobodyIsNull' /\ UserIsOwn' /\ RegistersOwnAccount' /\ SessionFollowsFirebase'
    BY <2>1 DEF AuthInv, NobodyIsNull, UserIsOwn, RegistersOwnAccount, SessionFollowsFirebase, At, Quiet
  <2> QED
    BY <1>0, <2>2, <2>3 DEF AuthInv
<1> QED
  BY <1>1, <1>3, <1>4, <1>6, <1>7, <1>8, <1>9, <1>10, <1>11, <1>12, <1>13
     DEF Next, SignIn, SignOut, Deliver, Resume, Who

(* Once all is handled, and unless a change of account overtook a running
   invocation, the session is that of the account Firebase has signed in.  *)
THEOREM SessionAlwaysFollows == Spec => []SessionFollowsFirebase
<1>1. AuthInv => SessionFollowsFirebase
  BY DEF AuthInv
<1> QED
  BY <1>1, AuthInit, AuthNext, PTL DEF Spec

(* With the same proviso no invocation registers somebody else's account,
   although createUser sends a global that others write.                   *)
THEOREM AlwaysRegistersOwn == Spec => []RegistersOwnAccount
<1>1. AuthInv => RegistersOwnAccount
  BY DEF AuthInv
<1> QED
  BY <1>1, AuthInit, AuthNext, PTL DEF Spec

(* A step that writes the preferences writes one whole session.            *)
LEMMA WrittenWhole ==
  AuthInv /\ [Next]_vars =>
    [prefs' # prefs /\ ~crossed =>
       \/ ~loggedIn' /\ ~admin' /\ current' = Nobody
       \/ /\ loggedIn' /\ (admin' => current' \in Admins)
          /\ \A h \in Running : handler[h].account = current'
          /\ user' # NoUser => user'.owner = current' /\ user'.isAdmin = admin']_vars
<1> SUFFICES ASSUME AuthInv, Next, prefs' # prefs, ~crossed
             PROVE  \/ ~loggedIn' /\ ~admin' /\ current' = Nobody
                    \/ /\ loggedIn' /\ (admin' => current' \in Admins)
                       /\ \A h \in Running : handler[h].account = current'
                       /\ user' # NoUser => user'.owner = current' /\ user'.isAdmin = admin'
  BY DEF vars
<1>1. DeliverSignOut \/ \E h \in Handler : CheckedAdmin(h)
  BY DEF Next, SignIn, SignOut, Change, Deliver, DeliverSignIn, Resume, GetUserFound, GetUserNull,
         CheckedNew, CreateUserOk, CreateUserFailed, Restart
<1>2. CASE DeliverSignOut
  BY <1>2 DEF DeliverSignOut, ClearUserData
<1>3. ASSUME NEW h \in Handler, CheckedAdmin(h)
      PROVE  /\ loggedIn' /\ (admin' => current' \in Admins)
             /\ \A g \in Running : handler[g].account = current'
             /\ user' # NoUser => user'.owner = current' /\ user'.isAdmin = admin'
  <2> DEFINE a == handler[h].account
  <2>1. PICK isAdmin \in CheckIfAdmin(a) : CheckedAdmin(h)!(isAdmin)
    BY <1>3 DEF CheckedAdmin
  <2>2. user.owner \in {a, Nobody}
    BY <2>1 DEF AuthInv, UserIsOwn, At, Answered
  <2>3. user # NoUser => user.owner = a
    BY <2>2 DEF AuthInv, NobodyIsNull
  <2>4. loggedIn' /\ current' = a
    BY <2>1, <2>3 DEF LoginState, OwnerOr
  <2>5. admin' => a \in Admins
    BY <2>1 DEF CheckIfAdmin, AdminLists
  <2>6. \A g \in Running : handler[g].account = a
    BY <2>1 DEF AuthInv, OneAccount, Running, At
  <2>7. user' # NoUser => user'.owner = a /\ user'.isAdmin = admin'
    BY <2>1, <2>3 DEF Decoded
  <2> QED
    BY <2>4, <2>5, <2>6, <2>7
<1> QED
  BY <1>1, <1>2, <1>3

(* Also while invocations are running, what is written is one whole session:
   none, or that of the account they all run for.                          *)
THEOREM SessionIsWrittenWhole == Spec => SessionWrittenWhole
  BY WrittenWhole, AuthInit, AuthNext, PTL DEF Spec, SessionWrittenWhole
=============================================================================
