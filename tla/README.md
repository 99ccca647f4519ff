# Bolola: TLA+ models, model checking and proofs

Bolola is a Flutter application that shows a catalogue of short videos and
audios. The code the models are translated from is `src/lib/main.dart` and
`src/lib/redesign/` (written `redesign/` below): about 17 000 lines of Dart. The
rest of the repository is build output, pods, platform projects and vendored
plugins. The repository has no tests.

Dart runs one event at a time. There are no data races, but every `await` lets
other events run: answers of the network and of SQLite, timers, taps, rebuilds of
the widget tree. So in every module **an action is the code between two awaits**,
and what a suspended function will use later is part of the state.

## 1. The system

| Component | State it keeps | Operations | Talks to |
|---|---|---|---|
| Repository and catalogue (`resources/repository.dart`, `sourceData.dart`) | globals `favorites`, `medias`, `chartList`, `allItems`; REST client | `fetchData`, `fetch`, `fetchTopChart`, `makeFavorite`, `unFavorite`, admin edits, keywords, suggestions, messages | SQLite, REST server, Firestore; called by `AppBloc` |
| Local database (`resources/database/database_refactor.dart`) | tables categories, groups, items | `insertAllMedias`, `insertAllItems`, `insertItem`, `getMediasFromDB`, `getFavorites`, schema upgrades | sqflite, one operation at a time |
| `AppBloc` (`bloc/appBloc.dart`) | streams `dataLoading`, downloads, search; `isDownloading` | `fetchSources`, toggles, save and share, messages | repository |
| Authentication (`services/auth_service.dart`) | `_currentAdminStatus`, global `user` | `initialize`, `_onAuthStateChanged`, sign in and out, linking | Firebase, repository, preferences |
| Preferences (`resources/prefs.dart`) | `isLoggedIn`, `isAdminUser`, `currentUser…`, environment | `save…`, `clearUserData`, `setSavedDate` | GetStorage |
| Video list (`pages/video/`) | `_controllers`, `_currentController`, `_currentAlias`; per card `_controller`, `_isPlaying`, `_isInitializing`, `_retryCount` … | mount, initialize, retry, tap, autoplay, stop, dispose | `video_player` plugin |
| Audio list (`pages/audio/audios_list_widget.dart`) | one player, `playingItem`, `playingItemIndex` | tap, download, completion, autoplay, stop, dispose | `audioplayers`, cached files |
| Downloads and sharing (`utils/utils.dart`, `bloc/appBloc.dart`) | cached files, `isDownloading` | `downloadFromUrlToPath`, `shareAudio`, saves | REST server, share sheet |
| Search (`pages/media_list_widget.dart`) | debounce timer, `searchedItems` | `search`, `cancelSearch` | video and audio lists |
| API key (`services/api_key_service.dart`) | `_apiKey`, `_isInitialized` | `initialize`, `waitForInitialization` | Firestore |
| User messages (`bloc/appBloc.dart`, `pages/user_messages_page.dart`, `repository.dart`) | one Firestore document per device: messages and their links; per page the list shown, the spinner, a dialog | `sendUserMessage`, `getUserMessages`, `removeUserMessage` | Firestore transactions |
| Firestore client (`ios/Pods/FirebaseFirestoreInternal`, `core/transaction*.cc`) | attempts, preconditions and writes of a transaction | `Run`, `Lookup`, `Commit`, retries | the server |
| Suggestions, moderation | Firestore documents | send, accept | Firestore |
| Admin upload and edits | items of the backend, files | `processAndUpload`, `deleteX` | REST server |

What is hard here, and what makes each component correct:

- **Catalogue.** Refreshes overlap (start, upload, migration, switch of the
  environment). Each replaces global lists of *new objects* in several steps;
  equality of items is equality of aliases, but `isFavorite` lives in the object.
  The answer is written by two transactions nobody awaits while taps write single
  rows, and the process may die at any step. Correct means: a favourite is listed
  once, its heart is full, disk and memory agree when the writes are done, the
  tables always hold one whole catalogue, the spinner ends.
- **Session.** `_onAuthStateChanged` is started, never awaited, and started twice
  for the account found at the start. Correct means: when all is quiet the session
  is that of the account Firebase has, and nobody registers a stranger.
- **Messages.** An administrator removes by an index of a list read earlier, while
  users send and other administrators remove; commits are refused and retried, and
  answers get lost. Correct means: links stay with their messages, no whole message is
  lost or restored, an answer says what happened, the confirmed message goes.
- **Audios.** The player, the list and a share meet in one player and one cached file
  per audio; everything is awaited. Correct means: what plays is what is shown, and a
  file half written is never taken for the audio.
- **Videos.** Taps, the autoplay timer, scrolling and the network meet in shared
  controllers. Correct means: what plays is on screen and is the current video, at
  most one plays, no player is leaked into the manager, an initialization ends.

`PROJECT.json` lists every hazard at its line with the properties that cover it,
including those of components that are not modelled.

## 2. Modules

| Module | Models |
|---|---|
| `Catalog` | repository, favourites, database, restarts |
| `Auth` | the auth service, preferences and registration |
| `VideoList` | the cards of a list, the `VideoControllerManager`, autoplay |
| `FirestoreTransactions` | optimistic transactions of the Firestore client and its server |
| `UserMessages` | sending, listing and removing messages, on top of `FirestoreTransactions` |
| `Inbox` | what the storage of messages promises; `UserMessages` implements it |
| `FavouriteSet` | what the catalogue promises about favourites; `Catalog` implements it |
| `AudioList` | the audio list with its player, downloads, `shareAudio` |
| `MCCatalog`, `MCAuth`, `MCVideoList`, `MCUserMessages`, `MCAudioList` | values of the constants for TLC |
| `CatalogProofs`, `FavouriteProofs`, `FavouriteSetProofs`, `AuthProofs`, `VideoListProofs`, `UserMessagesProofs`, `AudioListProofs` | theorems and their proofs |

### Catalog

A refresh is a record in `call`: where `fetchData` is suspended (`chart`, `favs`,
`cats`, `groups`, `items`, `net`), the groups it has read, the environment it asked
and what it was answered. `ChartReply` … `NetReply`, `NetFail` are the continuations.
`queue` holds the database operations in the order they were asked for: sqflite runs
one at a time and a transaction keeps the others out. A transaction reads
`isFavorite` of each object only when it builds its row (`TxnBegin`, `TxnRow`), and
commits at once (`TxnCommit`); `Restart` drops the queue and rolls it back.

An object is `<<alias, call, source>>`: every load makes new objects and `heart` is
their `isFavorite`. `favorites[a]` is the sequence of the objects of alias `a`, in
list order: `List.remove` takes the first one *equal*, that is of the same alias,
whichever object was tapped. `OpenPage` keeps the objects of the list a page was opened on.

Two histories say where the code gives up on purpose. An alias is `tainted` when
the tapped object is in neither list of the moment, or when a refresh is between its
reads, and when a replacement of the tables takes its row away, as a favourite's, while
refreshes overlap; `overlapped` says that two refreshes ran at once. Both are part of the
statements of the properties, so that what does not hold is said, not hidden.

Abstracted: names, keywords, share counts and ordering; the REST calls
`addToFavorites` and `removeFromFavorites`, whose outcome nothing reads; errors of
the disk. Every item the server sends is in a group it sends, and comes with
`isFavorite` false: `fetch` sets it from `favorites` only.

`FavouriteSet` is the abstract specification: a set of favourites, the items without a
row, those with a tap that is not stored, and those about which nothing is promised until
the next restart. Only `Tap` changes the set on purpose; `Store` and `Replace` write,
`Reload` reads it again and `Restart` reads it without the taps that waited: both let go
only what has no row. `Favourites == INSTANCE FavouriteSet WITH favs <- …` takes `favorites`
once the life's first refresh has read it, and the rows until then; a refresh has no step of
its own in it except the one that reads, wherever it is suspended.

### Auth

`events` are changes Firebase has not delivered, `handler` the running invocations
with what each awaits, for whom, and the user it sent to `createUser`. A user made
from the Firebase account remembers the handler that made it (`madeBy`), because
`user?.isAdmin = await …` evaluates the target before the await, while
`createUser(user)` reads the global after it. The two `AdminLists` are the stored
list and the empty list `getAdminUsers` returns on errors. Preferences and their
stored copies change together. A `createUser` still on its way when the app is closed
is taken as not arrived. Linking, passwords and account deletion are single calls of
Firebase whose effect here is a change of account.

### VideoList

`card` is the `State` of each card, `ctl` the players ever made, `init` where the
`_initializePlayer` that made one is suspended, `op` the taps, autoplays and stops
under way. The plugin is external: `play()` and `pause()` set `value.isPlaying` and
notify listeners before they wait; a disposed controller neither seeks nor plays.
Two cards of one item are never mounted at once (their key is the alias). `web`
chooses between initialization on mount and on tap. Every item has a URL: the early
return for an empty one only sets the error. `orphaned` marks runs in which an
initialization went on although the URL of its card changed, or made a second player
for a card that is gone; `overlapped` those in which an operation started while
another was suspended, or the URL changed of a card that shows its video as playing
(see "outside `video_list`" below).

### FirestoreTransactions, UserMessages, Inbox

`txn` follows `TransactionRunner`: a transaction reads its document, the app's handler
computes a write, and `Commit` carries it under the precondition that the version is
still the one read (`pre`). The server applies or refuses it; the client learns OK, a
refusal, a permanent error, or that the connection is lost (`ConnectionLost`, before or
after the server applied it), and `HandleError` runs the whole handler again while
attempts are left. So a write can be applied twice, which the code does not exclude.
`doc` keeps what is not there as version 0.

`UserMessages` EXTENDS that module and gives it the two handlers: `SendWrite` appends to
both lists of a document, `RemoveWrite` takes index `i` out of both and deletes a document
without messages. `sendUserMessage` catches a failed read inside its handler, so that an
empty transaction commits and reports success (`SendReadFailed`, `swallowed`);
`removeUserMessage` lets it fail and catches it outside, and the page loads anew and
toasts success either way (`Removed`). `page` holds the listing shown, the spinner and the
dialog, which keeps device and index while the list behind it may be replaced by a later
load; `load` is `getUserMessages` under way, which answers an empty list when it fails.
`seen` and `removals` are histories: how many messages the device had lost when the list
was read, and by now; a removal is `misled` if they differ.

A message is a model value and its link goes by the same name, so that "parallel" is an
equation. Left out: the sort of the devices by sending date, replies (one notification
call), the 30 seconds between two messages of one user (another message then simply comes
later), and a page closed during a load. A commit the client has given up is not applied
later.

`Inbox` is the abstract specification: lists per device, changed by one whole send at the
end or the removal of one message. `Messages == INSTANCE Inbox WITH inbox <- …` reads
them from the documents; every commit is one of its steps and all else stutters.

### AudioList

`call` holds the handlers that are under way: a tap that waits for `player.stop()`, a
look at the file (`checking`), a download (`asked` until the answer begins, then
`receiving`), a `player.play` that prepares. The end of an audio and `shareAudio` are
handlers too. `shown` is `playingItem` with its index, `player` the one `AudioPlayer`
with the source it was given, whether it is to play (`desired`) and does (`on`);
`player.play` sets the source at once and may be overtaken by a stop while it prepares.
`file` is the cache both the list and the share use: opening it empties it, a failure
leaves the part (`deleteOnError: false`), and the list takes a file that exists for
whole. The flag `isDownloading` of the bloc is one for all shares and keeps taps off; the
list's own download does not set it.

Two histories name what the code does not exclude. A source is `late` when it was set
while the list showed another item, a stop was awaited or an end was on its way. A file
is `hurt` when a download of it failed or died, two handlers looked for it or
downloaded it at once, or two shares were under way together. `saveAudio`, `saveVideo`
and `shareVideo` have the shape of `shareAudio` on files of their own and share its flag
only; they are not modelled, and a save that overlaps a share clears the flag as a second
share does. A failed download of the list is not caught and leaves the list's own spinner
on, which is only drawn. Left out: the web branches, pause, seeking and drawing.

## 3. Runs

| Run | Question | Bounds | Result |
|---|---|---|---|
| `catalog_overlap` | Do memory, hearts and tables agree when two refreshes and two taps interleave? | 2 items in 2 groups, one server whose catalogue loses or regains an item, 2 refreshes, 2 taps | 4.8 M states, holds |
| `catalog_restart` | What survives the death of the process at any step? Does the spinner end? | 2 items, 2 environments, a chart, 1 refresh per life, 2 restarts, 2 taps | 216 k states, holds |
| `catalog_switch` | Is the catalogue shown that of the selected environment? | 2 refreshes, no taps | violated |
| `auth` | Does the session follow Firebase? | 2 accounts, 2 changes, 3 handlers, 1 restart | 803 k states, holds |
| `auth_signout` | Does a handled sign-out clear the preferences? | as above, no restart | violated |
| `auth_fallback` | Does the developer stay an administrator when Firestore fails? | 1 change | violated |
| `video_list` | Do cards, manager and players agree? | 2 items, 3 cards, 3 players, 4 operations; the two cards of one item are symmetric | 3.7 M states, holds |
| `video_two` | Does playing one video pause all others? | 2 players, 2 operations | violated |
| `video_retry` | Does an initialization under way stay under way? | 1 player | violated |
| `user_messages` | Do documents, answers and pages agree, and is that an inbox? Does every transaction end? | 1 device, 3 messages of which 1 or 2 are stored, 2 transactions of 2 attempts, 2 loads of 1 page | 761 k states, holds |
| `message_removal` | Does a removal hit the message it was confirmed for? | as above | violated |
| `audio_list` | Does the player play what is shown, and whole files? Does the flag of downloads end? | 2 audios, lists of 2 and 1, 3 handlers | 950 k states, holds |

Why the bounds are enough for the questions asked: a lost update or a stale answer
needs two refreshes; what takes three (below, "outside `catalog_overlap`") is the proofs'
part, which hold for any number; two taps make and
undo a favourite, or change two items. A restart between every two steps, twice,
covers recovery from a recovery. Three handlers are the two of the start and one of a
change. Three players are an initialization, its retry and another card; an operation
that is overtaken needs two operations, a third follows them and a fourth starts anew;
the two cards of one item differ by name only, and the run states no liveness, so that
they may be exchanged. Two transactions meet in every order of their reads and commits
on one document, and documents do not depend on each other; a refused attempt and its
retry are two attempts; an index goes stale between one load and the next. Three
handlers of audios are two of the user and the end of an audio, and two audios are the one that plays
and the one that is to. Deadlock is not
checked: bounded taps, refreshes and changes run out, and then the system may rest.

### Properties

`catalog_*`: `StoredCatalogueWhole`, `NoDuplicateFavourite`, `FavouriteShowsHeart`,
`FavouritesOnDisk`, `ShownIsStored`, `CatalogueStays` (an action property),
`ImplementsFavouriteSet` (refinement), `LoadingEnds` (liveness). `auth`:
`SessionFollowsFirebase`, `RegistersOwnAccount`, `SessionWrittenWhole` (an action property),
`SignInShows` (liveness). `video_list`: `RegisteredIsLive`, `NoPlayerLost`, `PlaysOnScreen`,
`PlayingIsCurrent`, `OneInitialization`, `StartsInSilence` (an action property).
`user_messages`: `LinksFollowMessages`, `NoEmptyDocument`, `AnswersAreTrue`,
`RemovesConfirmedMessage`, `StepsRunOut` (an action property), `TransactionsEnd` (liveness),
`ImplementsInbox` (refinement). `audio_list`: `PlaysShown`, `OnlyWholeFiles`,
`DownloadedOnce` (an action property), `FlagEnds` (liveness). Each is stated in words where
it is defined. Operators such as
`ProcessItemsSkipped` or `UnmountForgetful`, placed before the operator they alter,
are plausible mistakes in that code; each breaks the property `PROJECT.json` pairs it with.

### Fairness

`LoadingEnds` assumes that the database works its queue off and that each call gets
an answer, of success or failure: both are futures the event loop completes. Nothing
is assumed of the user, of the server's success or of restarts. `SignInShows` assumes
that Firebase's stream delivers and that calls end with an answer or an error.
`TransactionsEnd` assumes that each call of a transaction is answered or fails, as the client
reports UNAVAILABLE when a connection is gone; that attempts are finite is the code's
doing. `FlagEnds` assumes, by one `WF` per handler, that the platform answers every call and
that every download ends, with success or failure. Taps and shares are not fair.
`VideoList` states safety only.

### What the violated runs show

- **`catalog_switch`** (`home_page.dart:510`): the refresh under way is not cancelled
  by the switch, and the last answer wins, even of the old server.
- **`auth_signout`** (`auth_service.dart:104`): a handler suspended in the admin check
  ends after the sign-out and marks the account as logged in again; the next start of
  the app corrects it.
- **`auth_fallback`** (`auth_service.dart:147`): `getAdminUsers` never throws, so that
  the fallback in the caller's `catch` never runs.
- **`video_two`** (`video_list_widget.dart:409`): both taps have paused the others
  before either plays.
- **`video_retry`** (`base_video_widget.dart:190`): the retry returns at the guard of its
  own flag.

- **`message_removal`** (`repository.dart:651`): the index of a list that another removal
  has changed since takes away the message that moved there, and the page says that the
  removal was a success.

Outside `catalog_overlap` by `tainted` and worth knowing: a favourite can get lost although
nobody takes it back. Of three refreshes that overlap, the first is answered a catalogue
without the item and its replacement drops the row; the second is answered with it again
and will write it back, as a favourite, from memory; the third reads `favorites` between
the two (`repository.dart:58`), and its own write makes the loss final. Two refreshes
cannot show it: the attempt to prove `FavouritesOnDisk` for any number of them did.

A tap can also do nothing. `Tap` of `FavouriteSet` was first the flip of one item, and TLC
refuted it: two objects of one alias may be within reach (a page, the chart and the list each
have their own), taking the favourite back through one empties that one's heart only, and a
tap on the full heart of the other (`repository.dart:436`) removes what is no longer listed.
So the abstract tap takes a favourite back always, and makes one of another item or nothing.

Outside `video_list` by `orphaned` and worth knowing: a changed URL during a failing
initialization can register a player its card no longer holds, and the range-request
retry does not look at `mounted`, so that a waiting tap can play a video whose card is
gone. Outside it by `overlapped`: `didUpdateWidget` releases the player of a changed URL
but leaves `_isPlaying` set (`base_video_widget.dart:72`), so that the next tap on that card
initializes a new player, pauses it, and tells the manager that nothing is current while
another video may play on.

## 4. Proofs

| Theorem | Statement |
|---|---|
| `CatalogProofs!TypeCorrect` | `Spec => []TypeOK` |
| `CatalogProofs!StoredCatalogueAlwaysWhole` | `Spec => []StoredCatalogueWhole` |
| `FavouriteProofs!ListedOnce` | `Spec => []NoDuplicateFavourite` |
| `FavouriteProofs!HeartShown` | `Spec => []FavouriteShowsHeart` |
| `FavouriteProofs!StoredFavourites` | `Spec => []FavouritesOnDisk` |
| `FavouriteProofs!ShownStored` | `Spec => []ShownIsStored` |
| `FavouriteProofs!NeverBlank` | `Spec => CatalogueStays` |
| `FavouriteSetProofs!FavouritesAreASet` | `Spec => Favourites!Spec` |
| `AuthProofs!TypeCorrect` | `Spec => []TypeOK` |
| `AuthProofs!SessionAlwaysFollows` | `Spec => []SessionFollowsFirebase` |
| `AuthProofs!AlwaysRegistersOwn` | `Spec => []RegistersOwnAccount` |
| `AuthProofs!SessionIsWrittenWhole` | `Spec => SessionWrittenWhole` |
| `VideoListProofs!TypeCorrect` | `Spec => []TypeOK` |
| `VideoListProofs!AlwaysRegisteredIsLive` | `Spec => []RegisteredIsLive` |
| `VideoListProofs!AlwaysOnScreen` | `Spec => []PlaysOnScreen` |
| `VideoListProofs!AlwaysOneInitialization` | `Spec => []OneInitialization` |
| `VideoListProofs!NeverLosesPlayers` | `Spec => []NoPlayerLost` |
| `VideoListProofs!AlwaysCurrent` | `Spec => []PlayingIsCurrent` |
| `VideoListProofs!AlwaysStartsInSilence` | `Spec => StartsInSilence` |
| `UserMessagesProofs!TypeCorrect` | `Spec => []TypeOK` |
| `UserMessagesProofs!LinksAlwaysFollow` | `Spec => []LinksFollowMessages` |
| `UserMessagesProofs!NeverEmpty` | `Spec => []NoEmptyDocument` |
| `UserMessagesProofs!StorageIsInbox` | `Spec => Messages!Spec` |
| `UserMessagesProofs!AnswersAlwaysTrue` | `Spec => []AnswersAreTrue` |
| `UserMessagesProofs!RemovesTheConfirmed` | `Spec => []RemovesConfirmedMessage` |
| `UserMessagesProofs!StepsAlwaysRunOut` | `Spec => StepsRunOut` |
| `AudioListProofs!TypeCorrect` | `Spec => []TypeOK` |
| `AudioListProofs!AlwaysPlaysShown` | `Spec => []PlaysShown` |
| `AudioListProofs!AlwaysWholeFiles` | `Spec => []OnlyWholeFiles` |
| `AudioListProofs!AudioDownloadedOnce` | `Spec => DownloadedOnce` |

They hold for every value of the constants that satisfies the named assumption of the
module (`CatalogAssumption`, `AuthAssumption`, …): any sets of items, groups, servers,
answers, accounts, cards, players, devices, messages and pages, any number of refreshes,
taps, handlers, transactions, attempts and restarts. The assumptions say that sets are
not empty, that null is not a member, and that bounds are numbers.

*The stored catalogue.* `StoredCatalogueWhole` speaks of the tables and is not
inductive: a transaction writes what its refresh was answered long before.
`StoredInv` adds `QueuedCataloguesServed`: a transaction in the queue belongs to a call
that has ended (so that its answer no longer changes), and the answer is one a server
gives. Steps that touch neither tables nor ended calls and add no transaction are one
lemma (`NoWriteKeeps`); what remains is the answer that queues two transactions, the
rows of a tap, which never remove a row, and the commit (`CommittedRows`).

*The favourites.* Rows lag behind memory, as no write is awaited, so that `FavInv` speaks of
the queue: of every alias that is not tainted, the last operation that will write its row,
a tap or a transaction, writes what `favorites` says (`Agree`), and without a tap in the
queue the row says so already (`Settled`) and so do the rows an open transaction has read
(`RowsRead`). A refresh may then replace `favorites` by what it reads, because the writes of
taps stand before its queries (`ReadsLast`): only a favourite without a row would get lost.
`DroppedInv` says when there may be one: no transaction that waits brings it back and no
call that read `favorites` is still to answer, which with one refresh at a time follows
from the order of the queue (`AloneInv`), and with several only if the replacement took no
favourite's row, hence the second reason for `tainted`. Objects need `ObjInv`: the hearts of the objects a call will be answered
are empty until then, and the catalogue holds one object of an alias. Each action has a
lemma; the four queries, the chart and the failure share `MoveKeeps`, the writes `WriteDone`,
the taps `TapKeeps`.

*The set of favourites.* `FavouritesAreASet` rests on `FavInv`, with one lemma per kind of
step (`TapStep`, `StoreStep`, `CommitStep`, `ReadStep`, `QueryStep`, `RestartStep`). The one
with something to prove is `ReadStep`: replacing memory by rows is `Reload` only because
no tap's write waits behind a query (`ReadsLast`), and then the rows say what memory says of
every untainted item that has one (`Settled`). The taps need `EmptyHeart`: of a favourite that
is not tainted, no object in reach has an empty heart that a tap could list a second time.

*The screen.* `ShownInv`, for one refresh at a time: what is on screen is in the tables, or
in the answer of the replacement that waits; the groups a call has read are still those
stored. `CatalogueStays` follows: a query is answered only with no replacement waiting.

*The session.* `SessionFollowsFirebase` speaks of quiet states only. `AuthInv` says what
holds on the way: the last event queued is Firebase's account; unless a change crossed a
handler, all running handlers are of one account, that of the last change delivered, and
the global user is theirs, made by one of them, or null; with no handler running the
preferences are already those of the last delivered change. `SessionWrittenWhole` is
about the steps between: `WrittenWhole` looks at those that write preferences, the sign-out
and the end of an admin check, which by `AuthInv` writes the account all running handlers share.

*The messages.* The documents alone are not inductive: a commit writes what was computed
long before. `StorageInv` adds `CommitsComputed`: a transaction about to commit carries what
its job computes from the version its precondition names, hence from the document of now
if the precondition holds. From it follow the parallel lists, the deletion of empty
documents and the refinement: each commit is one `Send`, one `Remove` or a stutter of
`Inbox` (`InboxStep`). `AppliedOnce` ties the phase of a transaction to the number of its
applications, unless an answer was lost. `RemovalInv` follows the index on its way from the
document to a load, the page, a dialog and a job: as long as `removals` is what it was at
the read, the list read is the beginning of the list stored (`ListsStand`), and the index
still points at the message (`IndexesStand`). `StepsRunOut` is the part of `TransactionsEnd`
the prover can have: `StepAdvances` gives, for each step of a transaction, which way it goes in
the order read, commit, answer, and that the one way back uses up an attempt; so a running
transaction can take only so many more steps, and fairness has only to make it take them.

*Videos.* Four invariants, each resting on the one before. `Typed`: types, and the card of
a waiting operation. `Books`: players are made in order, for cards that were mounted; at
most one card of an item is mounted. `Live`, which holds while no initialization was
orphaned, must speak of cards, initializations, players and the manager at once, for each
is kept only by the others: a mounted card's player is its own and live, and registered
once initialized (`CardLive`); an initialization is the only one of its card (`InitLive`); a
working player is in the hands of its card (`CtlLive`); and the manager's entries are such
players (`Entry`). Two branches of the code turn out to be dead under it: the delayed retry
never passes its guard, and an initialization never finds its card without a player.
`Alone`, while moreover nothing overlapped: an operation that waits to play has been through the
pause of all others (`OpAlone`), and a card shows no more than its player does (`Shown`).
The last is where the URL change of a playing card breaks, which is how that behaviour was
found. `StartsInSilence` needs `OpAlone` again, and that every start is by such an operation
(`OnlySoughtStarts`); `NoPlayerLost` is `CtlLive` for players nobody plays.

*Audios.* `PlayInv`: once a source is set in time, the only steps that change what is shown
are a stop, which takes the source first, and the end of an audio, which is reported with
none. `FileInv`: a file that is not hurt has at most one handler that looks for it or
downloads it, a part is what that handler is writing, and who plays or shares it has
seen it whole. For `DownloadedOnce` the file of a download must exist while it is received
(`Opened`, an invariant of its own), so that the answer that opens a file finds none and the
one that ends it finds the part.

Only model-checked: liveness (`LoadingEnds`, `SignInShows`, `TransactionsEnd`, `FlagEnds`),
which is out of the prover's reach. Every invariant, action property and refinement a
passing run checks is a theorem.

## 5. Not modelled, and what could follow

Not modelled, with the reason:

- *Search* (`media_list_widget.dart`): a debounce timer and a filter, whose result the
  lists take as any set of items (`SetItems`, the mounts of `VideoList`). The timer
  that fires after `cancelSearch` is a hazard `PROJECT.json` lists without a property.
- *API key*: one load at the start, and a poll that gives up after three seconds.
- *Suggestions and moderation*: the transactions of `FirestoreTransactions` again, removed by value.
- *Admin upload and edits*: sequences of calls from one page; the next refresh, which
  `Catalog` has, shows what they did.
- *Favourites of the backend* (`addToFavorites`, `removeFromFavorites`): external lists the
  application never reads back.
- *Accounts*: linking, passwords and deletion are calls of Firebase whose effect here is a
  change of account.
- Layout, themes, dialogs and forms; generated JSON and REST code; the text tables of the
  transliteration; the commented-out `database.dart`; platform projects and vendored
  plugins, but for the transactions of the Firestore pod.

What could follow: an abstract specification of the stored tables, and fairness for
`VideoList` once the retry is repaired.
