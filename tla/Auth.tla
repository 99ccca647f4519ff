-------------------------------- MODULE Auth ---------------------------------
(***************************************************************************)
(* AuthService (lib/redesign/services/auth_service.dart) and the           *)
(* preferences it keeps (resources/prefs.dart).                            *)
(*                                                                         *)
(* Firebase delivers the changes of the signed-in account one after the    *)
(* other, but _onAuthStateChanged is an async function nobody awaits: every *)
(* await of one invocation lets the next change, or the invocation it       *)
(* started, run.  All invocations share the global user and the            *)
(* preferences, which are written together with their stored copies.       *)
(***************************************************************************)
EXTENDS Naturals, Sequences, FiniteSets

CONSTANTS
  Account,      \* Firebase accounts
  Nobody,       \* no account: the null of authStateChanges, an empty preference
  Admins,       \* the accounts listed in general/adminusers
  Developer,    \* the account of the hardcoded check
  MaxChanges,   \* bound: sign-ins and sign-outs
  MaxHandlers,  \* bound: invocations of _onAuthStateChanged running at once
  MaxRestarts   \* bound: restarts of the app

ASSUME AuthAssumption ==
  /\ Nobody \notin Account
  /\ Admins \in SUBSET Account
  /\ Developer \in Account
  /\ MaxChanges \in Nat /\ MaxHandlers \in Nat /\ MaxRestarts \in Nat

Handler == 1..MaxHandlers
Who == Account \cup {Nobody}

(* The model's User: whose it is, its isAdmin, and the invocation that made
   the object with fromFirebaseUser (0 for one decoded from an answer).    *)
User == [owner : Who, isAdmin : BOOLEAN, madeBy : 0..MaxHandlers]
NoUser == [owner |-> Nobody, isAdmin |-> FALSE, madeBy |-> 0]
Decoded(a, admin) == [owner |-> a, isAdmin |-> admin, madeBy |-> 0]

VARIABLES
  fbUser,      \* the account Firebase has signed in (kept by Firebase)
  events,      \* changes authStateChanges has not delivered
  handler,     \* the invocations: what each awaits, for whom, what it sent
  user,        \* the global user
  loggedIn,    \* isLoggedIn, isAdminUser (with _currentAdminStatus) and the
  admin,       \*   currentUser... preferences: in memory and stored
  current,
  registered,  \* the accounts the backend knows
  remoteAdmin, \* the isAdmin the backend has of each
  crossed,     \* history: a change came while a handler of another account ran
  changes, restarts \* counters of the bounds

prefs == <<loggedIn, admin, current>>
backend == <<registered, remoteAdmin>>
bounds == <<changes, restarts>>
vars == <<fbUser, events, handler, user, prefs, backend, crossed, bounds>>

-----------------------------------------------------------------------------
Awaits == {"idle", "getUser", "checkNew", "createUser", "checkAdmin"}
Invocation == [pc : Awaits, account : Who, sent : User]
Idle == [pc |-> "idle", account |-> Nobody, sent |-> NoUser]

Running == {h \in Handler : handler[h].pc # "idle"}
At(h, pc) == handler[h].pc = pc
Quiet == events = <<>> /\ Running = {}

(* initialize(): the listener gets the account of the moment as its first
   event, and a signed-in account is handled at once besides.              *)
Started(a) ==
  [h \in Handler |-> IF h = 1 /\ a # Nobody
                     THEN [pc |-> "getUser", account |-> a, sent |-> NoUser] ELSE Idle]

Init ==
  /\ fbUser \in Who
  /\ events = <<fbUser>>
  /\ handler = Started(fbUser)
  /\ user = NoUser
  /\ loggedIn = FALSE /\ admin = FALSE /\ current = Nobody
  /\ registered \in SUBSET Account
  /\ remoteAdmin = [a \in Account |-> a \in Admins /\ a \in registered]
  /\ crossed = FALSE
  /\ changes = 0 /\ restarts = 0

-----------------------------------------------------------------------------
(* Firebase.  A sign-in may replace another account: signInWithPopup of    *)
(* linkGoogleAccount does on the web.                                      *)
Change(a) ==
  /\ changes < MaxChanges /\ changes' = changes + 1
  /\ fbUser # a /\ fbUser' = a
  /\ events' = Append(events, a)
  /\ UNCHANGED <<handler, user, prefs, backend, crossed, restarts>>

SignIn(a) == Change(a)
SignOut == Change(Nobody)

(* clearUserData.  The global user is not part of it.
   Mutant: the admin flag is forgotten.                                    *)
ClearUserDataButAdmin == loggedIn' = FALSE /\ current' = Nobody /\ admin' = admin
ClearUserData == loggedIn' = FALSE /\ current' = Nobody /\ admin' = FALSE

(* A change is delivered: signed out.                                      *)
DeliverSignOut ==
  /\ events # <<>> /\ Head(events) = Nobody
  /\ events' = Tail(events)
  /\ ClearUserData
  /\ crossed' = (crossed \/ Running # {})
  /\ UNCHANGED <<fbUser, handler, user, backend, bounds>>

(* A change is delivered: signed in, and getUserByFirebaseUid is awaited.  *)
DeliverSignIn(h) ==
  /\ events # <<>> /\ Head(events) # Nobody
  /\ At(h, "idle") /\ \A g \in 1..(h - 1) : ~At(g, "idle")
  /\ events' = Tail(events)
  /\ handler' = [handler EXCEPT ![h] = [pc |-> "getUser", account |-> Head(events), sent |-> NoUser]]
  /\ crossed' = (crossed \/ \E g \in Running : handler[g].account # Head(events))
  /\ UNCHANGED <<fbUser, user, prefs, backend, bounds>>

-----------------------------------------------------------------------------
(* The rest of _onAuthStateChanged, from await to await.                   *)

(* getAdminUsers: the list of Firestore, or an empty list on any error.    *)
AdminLists == {Admins, {}}

(* _checkIfAdminUser(email).  getAdminUsers never throws, so the catch
   with the hardcoded check never runs.                                    *)
CheckIfAdmin(a) == {isAdmin \in BOOLEAN : \E list \in AdminLists : isAdmin <=> a \in list}

(* The backend knows the account.                                          *)
GetUserFound(h) ==
  LET a == handler[h].account IN
  /\ At(h, "getUser") /\ a \in registered
  /\ user' = Decoded(a, remoteAdmin[a])
  /\ handler' = [handler EXCEPT ![h].pc = "checkAdmin"]
  /\ UNCHANGED <<fbUser, events, prefs, backend, crossed, bounds>>

(* It does not, or cannot be asked: a user is made of the Firebase account.
   Mutant: only if the global is still null.                               *)
GetUserNullKept(h) ==
  /\ At(h, "getUser")
  /\ user' = IF user # NoUser THEN user
             ELSE [owner |-> handler[h].account, isAdmin |-> FALSE, madeBy |-> h]
  /\ handler' = [handler EXCEPT ![h].pc = "checkNew"]
  /\ UNCHANGED <<fbUser, events, prefs, backend, crossed, bounds>>
GetUserNull(h) ==
  /\ At(h, "getUser")
  /\ user' = [owner |-> handler[h].account, isAdmin |-> FALSE, madeBy |-> h]
  /\ handler' = [handler EXCEPT ![h].pc = "checkNew"]
  /\ UNCHANGED <<fbUser, events, prefs, backend, crossed, bounds>>

(* user?.isAdmin = await ... sets the object made before the await; then
   createUser(user) sends what the global holds by now.                    *)
CheckedNew(h) ==
  \E isAdmin \in CheckIfAdmin(handler[h].account) :
    /\ At(h, "checkNew")
    /\ user' = IF user.madeBy = h THEN [user EXCEPT !.isAdmin = isAdmin] ELSE user
    /\ handler' = [handler EXCEPT ![h].pc = "createUser", ![h].sent = user']
    /\ UNCHANGED <<fbUser, events, prefs, backend, crossed, bounds>>

(* The backend stores the user and answers with it, ...                    *)
CreateUserOk(h) ==
  LET sent == handler[h].sent IN
  /\ At(h, "createUser") /\ sent.owner # Nobody
  /\ registered' = registered \cup {sent.owner}
  /\ remoteAdmin' = [remoteAdmin EXCEPT ![sent.owner] = sent.isAdmin]
  /\ user' = Decoded(sent.owner, sent.isAdmin)
  /\ handler' = [handler EXCEPT ![h].pc = "checkAdmin", ![h].sent = NoUser]
  /\ UNCHANGED <<fbUser, events, prefs, crossed, bounds>>

(* ... or the call fails, before or after the backend stored it: null.     *)
CreateUserFailed(h) ==
  LET sent == handler[h].sent IN
  /\ At(h, "createUser")
  /\ \/ UNCHANGED backend
     \/ /\ sent.owner # Nobody
        /\ registered' = registered \cup {sent.owner}
        /\ remoteAdmin' = [remoteAdmin EXCEPT ![sent.owner] = sent.isAdmin]
  /\ user' = NoUser
  /\ handler' = [handler EXCEPT ![h].pc = "checkAdmin", ![h].sent = NoUser]
  /\ UNCHANGED <<fbUser, events, prefs, crossed, bounds>>

(* saveCurrentUser(user?.id ?? firebaseUser.uid, ...).
   Mutant: the user itself is saved.                                       *)
OwnerWhole(a) == user
OwnerOr(a) == IF user = NoUser THEN a ELSE user.owner

(* saveLoginState(true).  Mutant: only when there is a user to speak of.   *)
LoginStateOfUser == user' # NoUser
LoginState == TRUE

(* saveLoginState, saveAdminUser, saveCurrentUser.                         *)
CheckedAdmin(h) ==
  \E isAdmin \in CheckIfAdmin(handler[h].account) :
    /\ At(h, "checkAdmin")
    /\ user' = IF user # NoUser /\ user.isAdmin # isAdmin
               THEN Decoded(user.owner, isAdmin) ELSE user
    /\ loggedIn' = LoginState
    /\ admin' = isAdmin
    /\ current' = OwnerOr(handler[h].account)
    /\ handler' = [handler EXCEPT ![h] = Idle]
    /\ UNCHANGED <<fbUser, events, backend, crossed, bounds>>

(* The app starts again: Firebase and the stored preferences survive.      *)
Restart ==
  /\ restarts < MaxRestarts /\ restarts' = restarts + 1
  /\ events' = <<fbUser>>
  /\ handler' = Started(fbUser)
  /\ user' = NoUser
  /\ crossed' = FALSE
  /\ UNCHANGED <<fbUser, prefs, backend, changes>>

-----------------------------------------------------------------------------
Resume(h) ==
  \/ GetUserFound(h) \/ GetUserNull(h) \/ CheckedNew(h)
  \/ CreateUserOk(h) \/ CreateUserFailed(h) \/ CheckedAdmin(h)

Deliver == DeliverSignOut \/ \E h \in Handler : DeliverSignIn(h)

Next ==
  \/ \E a \in Account : SignIn(a)
  \/ SignOut
  \/ Deliver
  \/ \E h \in Handler : Resume(h)
  \/ Restart

(* The event loop delivers the changes, and every call is answered.        *)
Fairness == WF_vars(Deliver) /\ \A h \in Handler : WF_vars(Resume(h))

Spec == Init /\ [][Next]_vars
FairSpec == Spec /\ Fairness

-----------------------------------------------------------------------------
(* Types of the variables.                                                 *)
TypeOK ==
  /\ fbUser \in Who
  /\ events \in Seq(Who)
  /\ handler \in [Handler -> Invocation]
  /\ user \in User
  /\ loggedIn \in BOOLEAN /\ admin \in BOOLEAN /\ current \in Who
  /\ registered \in SUBSET Account /\ remoteAdmin \in [Account -> BOOLEAN]
  /\ crossed \in BOOLEAN
  /\ changes \in Nat /\ restarts \in Nat

(* When every change is delivered and every handler has ended, and no change
   came while a handler of another account was running, the preferences and
   the global user speak of the account Firebase has signed in.            *)
SessionFollowsFirebase ==
  Quiet /\ ~crossed =>
    /\ loggedIn <=> fbUser # Nobody
    /\ current = fbUser
    /\ admin => fbUser \in Admins
    /\ fbUser # Nobody /\ user # NoUser => user.owner = fbUser /\ user.isAdmin = admin

(* createUser(user) reads the global after an await: with that proviso, it
   registers the account of its own handler, or nobody.                    *)
RegistersOwnAccount ==
  ~crossed => \A h \in Handler :
    At(h, "createUser") => handler[h].sent.owner \in {handler[h].account, Nobody}

(* What is written to the preferences is one whole session, also while
   handlers are still running: with that proviso it is cleared, or it is
   that of the account of the handlers, with the flag of that account, and
   the global user is nobody else.                                         *)
SessionWrittenWhole ==
  [][prefs' # prefs /\ ~crossed =>
       \/ ~loggedIn' /\ ~admin' /\ current' = Nobody
       \/ /\ loggedIn' /\ (admin' => current' \in Admins)
          /\ \A h \in Running : handler[h].account = current'
          /\ user' # NoUser => user'.owner = current' /\ user'.isAdmin = admin']_vars

(* No outage of the backend or of Firestore keeps a signed-in account from
   being shown as logged in.                                               *)
SignInShows ==
  fbUser # Nobody ~> loggedIn \/ fbUser = Nobody

(* 'User signed out, clearing admin mode': once a sign-out is handled and
   nothing is running, no preference is left of the account.               *)
SignedOutIsCleared ==
  Quiet /\ fbUser = Nobody => ~loggedIn /\ ~admin /\ current = Nobody

(* "Fallback to hardcoded check if Firestore fails": the developer account
   is an administrator whatever Firestore answers.                         *)
DeveloperStaysAdmin ==
  Quiet /\ ~crossed /\ fbUser = Developer => admin
=============================================================================
