---------------------------- MODULE Pages_proofs ----------------------------
(***************************************************************************)
(* Proofs about what surrounds every page: the cache of what the pages     *)
(* show of the server (PageCache), for any accounts and any number of      *)
(* changes, and the dialog of a sign-in (AuthDialog), for any addresses    *)
(* and any number of requests in flight.                                   *)
(***************************************************************************)
EXTENDS PageCache, AuthDialog, FiniteSetTheorems, TLAPS

-----------------------------------------------------------------------------
(*                                 THE CACHE                                *)
-----------------------------------------------------------------------------

AllPages == PublicPages \union PrivatePages
Visitors == Users \union {Guest}

\* What every mutation leads to is a page, and what it changes is either marked
\* or known to be left.
LEMMA MutationFacts ==
  ASSUME NEW m \in DOMAIN Mutation
  PROVE  /\ Mutation[m].to \subseteq AllPages
         /\ \A q \in Mutation[m].changes : q \in LeftStale(m) \/ q \in Mutation[m].marks
  <1> DEFINE Fine(r, n) == /\ r.to \subseteq AllPages
                           /\ \A q \in r.changes : q \in LeftStale(n) \/ q \in r.marks
  <1>1. Fine(RecordCoin, "recordCoin") /\ Fine(EditCoin, "editCoin") /\ Fine(DeleteCoin, "deleteCoin")
    BY DEF RecordCoin, EditCoin, DeleteCoin, InstanceData, CollectionDependent, LeftStale,
           CatalogQueries, CollectionQueries, ExpenseQueries, SeriesQueries, CompletenessQueries,
           AllPages, PublicPages, PrivatePages
  <1>2. Fine(EditPhoto, "editPhoto")
    BY DEF EditPhoto, LeftStale
  <1>3. Fine(RecordExpense, "recordExpense") /\ Fine(EditExpense, "editExpense")
    BY DEF RecordExpense, EditExpense, ExpenseData, ExpenseQueries, LeftStale,
           AllPages, PublicPages, PrivatePages
  <1>4. Fine(ReviewProposal, "reviewProposal")
    BY DEF ReviewProposal, CatalogQueries, LeftStale, AllPages, PublicPages, PrivatePages
  <1>5. Fine(SetRole, "setRole") /\ Fine(UnlinkTelegram, "unlinkTelegram")
        /\ Fine(RememberView, "rememberView") /\ Fine(ChangeSetting, "changeSetting")
    BY DEF SetRole, UnlinkTelegram, RememberView, ChangeSetting
  <1>6. Fine(ShowPackaging, "showPackaging")
    BY DEF ShowPackaging, CatalogQueries
  <1>7. Fine(NameLocation, "nameLocation") /\ Fine(DeleteLocation, "deleteLocation")
    BY DEF NameLocation, DeleteLocation, LeftStale
  <1>8. Fine(Mutation[m], m)
    <2> HIDE DEF Fine
    <2> QED BY <1>1, <1>2, <1>3, <1>4, <1>5, <1>6, <1>7 DEF Mutation
  <1> QED BY <1>8

\* Where a visitor gets is a page, and a public one for a guest.
LEMMA ReachesFacts ==
  ASSUME NEW p \in AllPages, NEW u \in Visitors
  PROVE  Reaches(p, u) \in AllPages /\ (u = Guest => Reaches(p, u) \in PublicPages)
  BY DEF Reaches, GuestPage, AllPages, PublicPages, PrivatePages

LEMMA GuestPageFacts ==
  ASSUME NEW p \in AllPages PROVE GuestPage(p) \in PublicPages
  BY DEF GuestPage, AllPages, PublicPages, PrivatePages

\* The entry, as it is and as it is asked for.
LEMMA EmptyFacts ==
  Empty \in Entries /\ Empty.data = Nothing /\ Empty.flight = Nothing /\ ~ Empty.invalid
  BY DEF Empty, Entries

LEMMA AskAgainFacts ==
  ASSUME NEW e \in Entries, NEW u \in Visitors, NEW l \in Languages
  PROVE  LET a == AskAgain(e, u, l) IN
         /\ a \in Entries /\ a.data = e.data /\ a.invalid = e.invalid
         /\ a.flight # Nothing /\ a.flight.of = u /\ a.flight.lang = l
         /\ a.flight.version = Unread
  <1> DEFINE f == [of |-> u, lang |-> l, version |-> Unread, overtaken |-> FALSE]
             b == e.failed /\ e.data # Nothing
  <1>1. f \in Flights  BY DEF Flights, Visitors
  <1>2. f # Nothing  BY <1>1, NothingAssumption
  <1>3. b \in BOOLEAN  OBVIOUS
  <1>4. AskAgain(e, u, l) = [e EXCEPT !.flight = f, !.failed = b]  BY DEF AskAgain, Entries
  <1> HIDE DEF f, b
  <1>5. [e EXCEPT !.flight = f, !.failed = b] \in Entries  BY <1>1, <1>3 DEF Entries
  <1>6. LET a == [e EXCEPT !.flight = f, !.failed = b] IN
        a.data = e.data /\ a.invalid = e.invalid /\ a.flight = f
    BY DEF Entries
  <1>7. f.of = u /\ f.lang = l /\ f.version = Unread  BY DEF f
  <1> QED BY <1>2, <1>4, <1>5, <1>6, <1>7

LEMMA MountFacts ==
  ASSUME NEW e \in Entries, NEW u \in Visitors, NEW l \in Languages
  PROVE  LET a == Mount(e, u, l) IN
         /\ a \in Entries /\ a.data = e.data /\ a.invalid = e.invalid
         /\ \/ a.flight = e.flight
            \/ a.flight.of = u /\ a.flight.lang = l /\ a.flight.version = Unread
         /\ a.data # Nothing /\ a.invalid => a.flight # Nothing
         /\ e.flight # Nothing => a.flight # Nothing
  BY AskAgainFacts DEF Mount

\* Marked: what is on show is asked for, what is not and has an answer waits.
LEMMA MarkedFacts ==
  ASSUME NEW e \in Entries, user \in Visitors, language \in Languages
  PROVE  LET a == Marked(e) IN
         /\ a \in Entries /\ a.data = e.data
         /\ \/ a.flight = e.flight
            \/ a.flight.of = user /\ a.flight.lang = language /\ a.flight.version = Unread
         /\ e.flight # Nothing => a.flight # Nothing
         /\ a.data # Nothing => a.invalid
         /\ a.data # Nothing /\ OnShow /\ attached => a.flight # Nothing
  <1> DEFINE i == [e EXCEPT !.invalid = TRUE]
             n == [e EXCEPT !.invalid = (e # Empty)]
  <1>1. i \in Entries /\ i.data = e.data /\ i.invalid = TRUE /\ i.flight = e.flight
    BY DEF Entries
  <1>2. n \in Entries /\ n.data = e.data /\ n.flight = e.flight /\ n.invalid = (e # Empty)
    BY DEF Entries
  <1>3. e.data # Nothing => e # Empty  BY EmptyFacts
  <1>4. Marked(e) = IF OnShow /\ attached
                    THEN IF e.data = Nothing /\ e.flight # Nothing THEN i
                         ELSE AskAgain(i, user, language)
                    ELSE n
    BY DEF Marked
  <1> HIDE DEF i, n
  <1>5. LET a == AskAgain(i, user, language) IN
        /\ a \in Entries /\ a.data = i.data /\ a.invalid = i.invalid
        /\ a.flight # Nothing /\ a.flight.of = user /\ a.flight.lang = language
        /\ a.flight.version = Unread
    BY <1>1, AskAgainFacts
  <1> QED BY <1>1, <1>2, <1>3, <1>4, <1>5

\* Overtaken: only a flight that was read before now is told of it.
LEMMA OvertakeFacts ==
  ASSUME NEW e \in Entries
  PROVE  LET a == Overtake(e) IN
         /\ a \in Entries /\ a.data = e.data /\ a.invalid = e.invalid
         /\ e.flight # Nothing => /\ a.flight # Nothing
                                  /\ a.flight.of = e.flight.of /\ a.flight.lang = e.flight.lang
                                  /\ a.flight.version = e.flight.version
         /\ e.flight = Nothing => a.flight = Nothing
         /\ a.flight # Nothing => \/ a.flight.overtaken
                                  \/ a.flight.version \in {Unread, fact}
  <1>1. CASE e.flight # Nothing /\ e.flight.version \notin {Unread, fact}
    <2> DEFINE f == [e.flight EXCEPT !.overtaken = TRUE]
    <2>1. e.flight \in Flights  BY <1>1 DEF Entries
    <2>2. f \in Flights /\ f.of = e.flight.of /\ f.lang = e.flight.lang
          /\ f.version = e.flight.version /\ f.overtaken
      BY <2>1 DEF Flights
    <2>3. f # Nothing  BY <2>2, NothingAssumption
    <2>4. Overtake(e) = [e EXCEPT !.flight = f]  BY <1>1 DEF Overtake, Entries
    <2> HIDE DEF f
    <2>5. /\ [e EXCEPT !.flight = f] \in Entries /\ [e EXCEPT !.flight = f].data = e.data
          /\ [e EXCEPT !.flight = f].invalid = e.invalid /\ [e EXCEPT !.flight = f].flight = f
      BY <2>2 DEF Entries
    <2> QED BY <1>1, <2>2, <2>3, <2>4, <2>5
  <1>2. CASE ~ (e.flight # Nothing /\ e.flight.version \notin {Unread, fact})
    BY <1>2 DEF Overtake
  <1> QED BY <1>1, <1>2

-----------------------------------------------------------------------------
(* The invariant.                                                           *)

\* What the cache has, or is being asked for, is of this visitor and language.
OfThisVisit ==
  /\ cached.data # Nothing => cached.data.of = user /\ cached.data.lang = language
  /\ cached.flight # Nothing => cached.flight.of = user /\ cached.flight.lang = language

\* A placeholder stands for rows that are on the way.
PlaceholderComes ==
  attached /\ held # Nothing => cached.flight # Nothing /\ watched \in KeepsPrevious

\* Only the card a guest was reading when he signed in stays with the query it
\* had, and what that shows is the guest's.
GuestsCard ==
  ~ attached =>
    /\ page = "card" /\ watched = "card" /\ user # Guest
    /\ held # Nothing => held.of = Guest /\ held.lang = language

\* A change that was acknowledged and has to be shown.
Owed == due # Nothing /\ ~ due.left

Tells(x) == x.overtaken \/ x.version >= due.version

\* What is read from now on tells of it, what was read before it was overtaken;
\* what came before it is marked, and asked for again where it is on show.
ReadAfter ==
  Owed /\ cached.flight # Nothing /\ cached.flight.version # Unread => Tells(cached.flight)

MarkedOrTells ==
  Owed /\ cached.data # Nothing => cached.invalid \/ Tells(cached.data)

MarkedComes ==
  OnShow /\ attached /\ cached.data # Nothing /\ cached.invalid
    => cached.flight # Nothing \/ cached.failed

\* What is being saved is within the bound of changes.
WithinBound ==
  saving # Nothing /\ saving.at = "sent" => fact < MaxChanges

CacheInv ==
  /\ WithinBound
  /\ CacheTypeOK /\ OfThisVisit /\ PlaceholderComes /\ GuestsCard
  /\ ReadAfter /\ MarkedOrTells /\ MarkedComes

LEMMA CachedTyped ==
  ASSUME CacheTypeOK
  PROVE  /\ cached \in Entries /\ user \in Visitors /\ language \in Languages
         /\ cached.data \in Answers \union {Nothing}
         /\ cached.flight \in Flights \union {Nothing}
         /\ Shown \in Answers \union {Nothing}
         /\ page \in AllPages
  BY DEF CacheTypeOK, Entries, Visitors, AllPages, Shown

\* A page that opens keeps all of this.
LEMMA OpenKeeps ==
  ASSUME CacheInv, NEW p \in AllPages, user = Guest => p \in PublicPages,
         Open(p, user), UNCHANGED <<watched, language, fact, due>>,
         saving' \in Savings \union {Nothing}, saving' \in {saving, Nothing}
  PROVE  CacheInv'
  <1> DEFINE a == Mount(cached, user, language)
  <1>1. CacheTypeOK /\ OfThisVisit /\ MarkedOrTells /\ ReadAfter  BY DEF CacheInv
  <1>2. /\ page' = p /\ user' = user /\ attached' = TRUE /\ held' = Nothing
        /\ cached' = IF OnShow' THEN a ELSE cached
    BY DEF Open, On, OnShow
  <1>3. /\ a \in Entries /\ a.data = cached.data /\ a.invalid = cached.invalid
        /\ \/ a.flight = cached.flight
           \/ a.flight.of = user /\ a.flight.lang = language /\ a.flight.version = Unread
        /\ a.data # Nothing /\ a.invalid => a.flight # Nothing
    BY <1>1, CachedTyped, MountFacts
  <1> HIDE DEF a
  <1>4. CacheTypeOK'
    BY <1>1, <1>2, <1>3 DEF CacheTypeOK, AllPages
  <1>5. OfThisVisit'
    BY <1>1, <1>2, <1>3 DEF OfThisVisit
  <1>6. PlaceholderComes' /\ GuestsCard'
    BY <1>2 DEF PlaceholderComes, GuestsCard
  <1>7. ReadAfter' /\ MarkedOrTells'
    BY <1>1, <1>2, <1>3 DEF ReadAfter, MarkedOrTells, Owed, Tells
  <1>8. MarkedComes'
    BY <1>2, <1>3 DEF MarkedComes
  <1>9. WithinBound'
    BY DEF CacheInv, WithinBound
  <1> QED BY <1>4, <1>5, <1>6, <1>7, <1>8, <1>9 DEF CacheInv

\* So does a page that is rendered again over an emptied cache.
LEMMA RenderKeeps ==
  ASSUME CacheInv, NEW p \in AllPages, NEW u \in Visitors, NEW l \in Languages,
         u = Guest => p \in PublicPages, RenderAgain(p, u, l),
         page' = p, user' = u, language' = l, UNCHANGED <<watched, fact, saving, due>>
  PROVE  CacheInv'
  <1> DEFINE a == AskAgain(Empty, u, l)
  <1>1. CacheTypeOK  BY DEF CacheInv
  <1>2. /\ a \in Entries /\ a.data = Nothing /\ a.flight # Nothing
        /\ a.flight.of = u /\ a.flight.lang = l /\ a.flight.version = Unread
    BY EmptyFacts, AskAgainFacts
  <1> HIDE DEF a
  <1>3. /\ attached' = TRUE
        /\ \/ cached' = a
           \/ cached' = Empty /\ held' = Nothing
        /\ held' # Nothing => watched \in KeepsPrevious
        /\ held' \in Answers \union {Nothing}
    BY <1>1, CachedTyped DEF RenderAgain, a
  <1>4. CacheTypeOK'
    BY <1>1, <1>2, <1>3, EmptyFacts DEF CacheTypeOK, AllPages, Visitors
  <1>5. OfThisVisit' /\ PlaceholderComes' /\ GuestsCard'
    BY <1>2, <1>3, EmptyFacts DEF OfThisVisit, PlaceholderComes, GuestsCard
  <1>6. ReadAfter' /\ MarkedOrTells' /\ MarkedComes'
    BY <1>2, <1>3, EmptyFacts DEF ReadAfter, MarkedOrTells, MarkedComes
  <1>7. WithinBound'
    BY DEF CacheInv, WithinBound
  <1> QED BY <1>4, <1>5, <1>6, <1>7 DEF CacheInv

\* What is on show when the cache is emptied around the card of a guest.
LEMMA CardShows ==
  ASSUME CacheInv, user = Guest, watched = "card", Shown # Nothing
  PROVE  Shown.of = Guest /\ Shown.lang = language
  <1>1. attached  BY DEF CacheInv, GuestsCard
  <1>2. held = Nothing
    BY <1>1 DEF CacheInv, PlaceholderComes, KeepsPrevious
  <1> QED BY <1>1, <1>2 DEF CacheInv, OfThisVisit, Shown

-----------------------------------------------------------------------------
(* Every step keeps it.                                                     *)

LEMMA VisitorKeeps ==
  ASSUME CacheInv, Navigate \/ SignIn \/ EndSession \/ ChangeLanguage
  PROVE  CacheInv'
  <1>0. /\ CacheTypeOK /\ user \in Visitors /\ language \in Languages /\ page \in AllPages
        /\ saving \in Savings \union {Nothing} /\ Guest \notin Users
        /\ user = Guest => page \in PublicPages
    BY CachedTyped, AccountAssumption DEF CacheInv, CacheTypeOK
  <1>1. CASE Navigate
    <2>1. PICK p \in AllPages : Open(Reaches(p, user), user)
      BY <1>1 DEF Navigate, AllPages
    <2>2. UNCHANGED <<watched, language, fact, due, saving>>  BY <1>1 DEF Navigate
    <2> QED BY <1>0, <2>1, <2>2, ReachesFacts, OpenKeeps
  <1>2. CASE SignIn
    <2>1. PICK u \in Users :
            /\ user' = u /\ page' = Reaches(page, u)
            /\ IF page' # page \/ FollowsAccount(page, watched)
               THEN RenderAgain(page', u, language)
               ELSE cached' = Empty /\ attached' = FALSE /\ held' = Shown
      BY <1>2 DEF SignIn
    <2>2. UNCHANGED <<watched, language, fact, due, saving>> /\ user = Guest
      BY <1>2 DEF SignIn
    <2>3. page' \in AllPages /\ u # Guest /\ u \in Visitors
      BY <1>0, <2>1, ReachesFacts DEF Visitors
    <2>4. CASE page' # page \/ FollowsAccount(page, watched)
      BY <1>0, <2>1, <2>2, <2>3, <2>4, RenderKeeps
    <2>5. CASE ~ (page' # page \/ FollowsAccount(page, watched))
      <3>1. /\ page' = page /\ page = "card" /\ watched = "card"
            /\ cached' = Empty /\ attached' = FALSE /\ held' = Shown
        BY <2>1, <2>5 DEF FollowsAccount
      <3>2. Shown \in Answers \union {Nothing}
            /\ (Shown # Nothing => Shown.of = Guest /\ Shown.lang = language)
        BY <1>0, <2>2, <3>1, CachedTyped, CardShows
      <3>3. CacheTypeOK'
        BY <1>0, <2>1, <2>2, <2>3, <3>1, <3>2, EmptyFacts DEF CacheTypeOK, Visitors, AllPages
      <3>4. OfThisVisit' /\ PlaceholderComes' /\ GuestsCard'
        BY <2>1, <2>2, <2>3, <3>1, <3>2, EmptyFacts DEF OfThisVisit, PlaceholderComes, GuestsCard
      <3>5. ReadAfter' /\ MarkedOrTells' /\ MarkedComes'
        BY <3>1, EmptyFacts DEF ReadAfter, MarkedOrTells, MarkedComes
      <3>6. WithinBound'
        BY <2>2 DEF CacheInv, WithinBound
      <3> QED BY <3>3, <3>4, <3>5, <3>6 DEF CacheInv
    <2> QED BY <2>4, <2>5
  <1>3. CASE EndSession
    <2>1. GuestPage(page) \in PublicPages /\ GuestPage(page) \in AllPages /\ Guest \in Visitors
      BY <1>0, GuestPageFacts DEF AllPages, Visitors
    <2>2. RenderAgain(GuestPage(page), Guest, language)
      BY <1>3 DEF EndSession
    <2>3. /\ user' = Guest /\ page' = GuestPage(page)
          /\ UNCHANGED <<watched, language, fact, due, saving>>
      BY <1>3 DEF EndSession
    <2> QED BY <1>0, <2>1, <2>2, <2>3, RenderKeeps
  <1>4. CASE ChangeLanguage
    <2>1. PICK l \in Languages : language' = l /\ RenderAgain(page, user, l)
      BY <1>4 DEF ChangeLanguage
    <2>2. UNCHANGED <<watched, page, user, fact, due, saving>>  BY <1>4 DEF ChangeLanguage
    <2> QED BY <1>0, <2>1, <2>2, RenderKeeps
  <1> QED BY <1>1, <1>2, <1>3, <1>4

LEMMA RequestKeeps ==
  ASSUME CacheInv,
         ServerReads \/ Answered \/ Fails \/ TryAgain \/ GrowsOld \/ IsCollected
  PROVE  CacheInv'
  <1>0. /\ CacheTypeOK /\ OfThisVisit /\ PlaceholderComes /\ GuestsCard
        /\ ReadAfter /\ MarkedOrTells /\ MarkedComes
        /\ cached \in Entries /\ user \in Visitors /\ language \in Languages
        /\ cached.data \in Answers \union {Nothing}
        /\ cached.flight \in Flights \union {Nothing}
    BY CachedTyped DEF CacheInv
  <1>1. UNCHANGED <<watched, visit, fact, attached, saving>>
    BY DEF ServerReads, Answered, Fails, TryAgain, GrowsOld, IsCollected
  <1>2. UNCHANGED <<page, user, language>> /\ OnShow' = OnShow
    BY <1>1 DEF visit, OnShow, On
  <1>w. WithinBound'
    BY <1>1 DEF CacheInv, WithinBound
  <1>3. ASSUME cached' \in Entries, held' \in {held, Nothing}, due' \in {due, Nothing}
        PROVE  CacheTypeOK'
    BY <1>0, <1>1, <1>2, <1>3 DEF CacheTypeOK
  <1>4. CASE ServerReads
    <2> DEFINE f == [cached.flight EXCEPT !.version = fact]
    <2>1. cached.flight \in Flights /\ fact \in 0..MaxChanges /\ UNCHANGED <<held, due>>
      BY <1>0, <1>4 DEF ServerReads, CacheTypeOK
    <2>2. /\ f \in Flights /\ f.of = cached.flight.of /\ f.lang = cached.flight.lang
          /\ f.version = fact /\ f.overtaken = cached.flight.overtaken
      BY <2>1 DEF Flights
    <2>3. f # Nothing  BY <2>2, NothingAssumption
    <2>4. cached' = [cached EXCEPT !.flight = f]  BY <1>0, <1>4 DEF ServerReads, Entries
    <2> HIDE DEF f
    <2>5. /\ cached' \in Entries /\ cached'.flight = f /\ cached'.data = cached.data
          /\ cached'.invalid = cached.invalid
      BY <1>0, <2>2, <2>4 DEF Entries
    <2>6. CacheTypeOK'  BY <1>3, <2>1, <2>5
    <2>7. OfThisVisit' /\ PlaceholderComes' /\ GuestsCard' /\ MarkedComes'
      BY <1>0, <1>1, <1>2, <1>4, <2>1, <2>2, <2>3, <2>5
      DEF OfThisVisit, PlaceholderComes, GuestsCard, MarkedComes, ServerReads
    <2>8. MarkedOrTells'
      BY <1>0, <2>1, <2>5 DEF MarkedOrTells, Owed, Tells
    <2>9. ReadAfter'
      BY <1>0, <2>1, <2>2, <2>5 DEF ReadAfter, Owed, Tells, CacheTypeOK, Dues
    <2> QED BY <1>w, <2>6, <2>7, <2>8, <2>9 DEF CacheInv
  <1>5. CASE Answered
    <2>1. cached.flight \in Flights /\ cached.flight.version # Unread
      BY <1>0, <1>5 DEF Answered
    <2>2. cached.flight \in Answers /\ cached.flight # Nothing
      BY <2>1, <1>5 DEF Answers, Flights, Answered
    <2>3. /\ cached' = [Empty EXCEPT !.data = cached.flight]
          /\ held' = IF attached THEN Nothing ELSE held
          /\ due' = IF due # Nothing /\ Tells(cached.flight) THEN Nothing ELSE due
      BY <1>5 DEF Answered, Tells
    <2>4. /\ cached' \in Entries /\ cached'.data = cached.flight /\ cached'.flight = Nothing
          /\ ~ cached'.invalid
      BY <2>2, <2>3 DEF Empty, Entries
    <2>5. CacheTypeOK'  BY <1>3, <2>3, <2>4
    <2>6. OfThisVisit' /\ PlaceholderComes' /\ GuestsCard' /\ MarkedComes' /\ ReadAfter'
      BY <1>0, <1>1, <1>2, <2>2, <2>3, <2>4
      DEF OfThisVisit, PlaceholderComes, GuestsCard, MarkedComes, ReadAfter
    <2>7. MarkedOrTells'
      BY <1>0, <2>1, <2>2, <2>3, <2>4 DEF ReadAfter, MarkedOrTells, Owed, Tells
    <2> QED BY <1>w, <2>5, <2>6, <2>7 DEF CacheInv
  <1>6. CASE Fails
    <2>1. /\ cached' = [cached EXCEPT !.flight = Nothing, !.failed = TRUE]
          /\ held' = IF attached THEN Nothing ELSE held
          /\ due' = due
      BY <1>6 DEF Fails
    <2>2. /\ cached' \in Entries /\ cached'.data = cached.data /\ cached'.flight = Nothing
          /\ cached'.invalid = cached.invalid /\ cached'.failed
      BY <1>0, <2>1 DEF Entries
    <2>3. CacheTypeOK'  BY <1>3, <2>1, <2>2
    <2>4. OfThisVisit' /\ PlaceholderComes' /\ GuestsCard' /\ MarkedComes' /\ ReadAfter'
      BY <1>0, <1>1, <1>2, <2>1, <2>2
      DEF OfThisVisit, PlaceholderComes, GuestsCard, MarkedComes, ReadAfter
    <2>5. MarkedOrTells'
      BY <1>0, <2>1, <2>2 DEF MarkedOrTells, Owed, Tells
    <2> QED BY <1>w, <2>3, <2>4, <2>5 DEF CacheInv
  <1>7. CASE TryAgain
    <2>1. cached' = AskAgain(cached, user, language) /\ UNCHANGED <<held, due>>
      BY <1>7 DEF TryAgain
    <2>2. /\ cached' \in Entries /\ cached'.data = cached.data
          /\ cached'.invalid = cached.invalid /\ cached'.flight # Nothing
          /\ cached'.flight.of = user /\ cached'.flight.lang = language
          /\ cached'.flight.version = Unread
      BY <1>0, <2>1, AskAgainFacts
    <2>3. CacheTypeOK'  BY <1>3, <2>1, <2>2
    <2>4. OfThisVisit' /\ PlaceholderComes' /\ GuestsCard' /\ MarkedComes' /\ ReadAfter'
      BY <1>0, <1>1, <1>2, <2>1, <2>2
      DEF OfThisVisit, PlaceholderComes, GuestsCard, MarkedComes, ReadAfter
    <2>5. MarkedOrTells'
      BY <1>0, <2>1, <2>2 DEF MarkedOrTells, Owed, Tells
    <2> QED BY <1>w, <2>3, <2>4, <2>5 DEF CacheInv
  <1>8. CASE GrowsOld
    <2>1. cached' = [cached EXCEPT !.old = TRUE] /\ UNCHANGED <<held, due>>
      BY <1>8 DEF GrowsOld
    <2>2. /\ cached' \in Entries /\ cached'.data = cached.data
          /\ cached'.invalid = cached.invalid /\ cached'.flight = cached.flight
          /\ cached'.failed = cached.failed
      BY <1>0, <2>1 DEF Entries
    <2>3. CacheTypeOK'  BY <1>3, <2>1, <2>2
    <2>4. OfThisVisit' /\ PlaceholderComes' /\ GuestsCard' /\ MarkedComes'
      BY <1>0, <1>1, <1>2, <2>1, <2>2
      DEF OfThisVisit, PlaceholderComes, GuestsCard, MarkedComes
    <2>5. MarkedOrTells' /\ ReadAfter'
      BY <1>0, <2>1, <2>2 DEF MarkedOrTells, ReadAfter, Owed, Tells
    <2> QED BY <1>w, <2>3, <2>4, <2>5 DEF CacheInv
  <1>9. CASE IsCollected
    <2>1. cached' = Empty /\ UNCHANGED <<held, due>> /\ cached.flight = Nothing
      BY <1>9 DEF IsCollected
    <2>2. CacheTypeOK'  BY <1>3, <2>1, EmptyFacts
    <2>3. OfThisVisit' /\ PlaceholderComes' /\ GuestsCard' /\ MarkedComes' /\ MarkedOrTells'
          /\ ReadAfter'
      BY <1>0, <1>1, <1>2, <2>1, EmptyFacts
      DEF OfThisVisit, PlaceholderComes, GuestsCard, MarkedComes, MarkedOrTells, ReadAfter
    <2> QED BY <1>w, <2>2, <2>3 DEF CacheInv
  <1> QED BY <1>4, <1>5, <1>6, <1>7, <1>8, <1>9

LEMMA AcknowledgedKeeps ==
  ASSUME CacheInv, Acknowledged PROVE CacheInv'
  <1> DEFINE m == saving.what
             a == Marked(cached)
             b == Overtake(a)
  <1>0. /\ CacheTypeOK /\ OfThisVisit /\ PlaceholderComes /\ GuestsCard
        /\ ReadAfter /\ MarkedOrTells /\ MarkedComes
        /\ cached \in Entries /\ user \in Visitors /\ language \in Languages
    BY CachedTyped DEF CacheInv
  <1>1. /\ UNCHANGED <<watched, page, user, language, fact, attached, held>>
        /\ OnShow' = OnShow
        /\ saving' = [saving EXCEPT !.at = "marked"]
        /\ cached' = IF watched \in Mutation[m].marks THEN b ELSE cached
        /\ due' = IF watched \in Mutation[m].changes
                  THEN [left |-> watched \in LeftStale(m), version |-> fact] ELSE due
    BY DEF Acknowledged, visit, OnShow, On
  <1>2. m \in DOMAIN Mutation /\ saving' \in Savings
    <2>1. saving \in Savings  BY <1>0 DEF Acknowledged, CacheTypeOK
    <2> QED BY <1>1, <2>1 DEF Savings
  <1>3. watched \in Mutation[m].changes => watched \in LeftStale(m) \/ watched \in Mutation[m].marks
    BY <1>2, MutationFacts
  <1> HIDE DEF m
  <1>4. /\ a \in Entries /\ a.data = cached.data
        /\ \/ a.flight = cached.flight
           \/ a.flight.of = user /\ a.flight.lang = language /\ a.flight.version = Unread
        /\ cached.flight # Nothing => a.flight # Nothing
        /\ a.data # Nothing => a.invalid
        /\ a.data # Nothing /\ OnShow /\ attached => a.flight # Nothing
    BY <1>0, MarkedFacts
  <1>5. /\ b \in Entries /\ b.data = a.data /\ b.invalid = a.invalid
        /\ a.flight # Nothing => /\ b.flight # Nothing
                                 /\ b.flight.of = a.flight.of /\ b.flight.lang = a.flight.lang
        /\ a.flight = Nothing => b.flight = Nothing
        /\ b.flight # Nothing => b.flight.overtaken \/ b.flight.version \in {Unread, fact}
    BY <1>4, OvertakeFacts
  <1> HIDE DEF a, b
  <1>6. fact \in 0..MaxChanges  BY <1>0 DEF CacheTypeOK
  <1>7. \/ due' = due
        \/ /\ due' \in Dues /\ due'.version = fact /\ due' # Nothing
           /\ ~ due'.left => watched \in Mutation[m].marks
    <2> DEFINE d == [left |-> watched \in LeftStale(m), version |-> fact]
    <2>1. d \in Dues  BY <1>6 DEF Dues
    <2>2. d.version = fact /\ d.left = (watched \in LeftStale(m))  OBVIOUS
    <2>3. d # Nothing  BY <2>1, NothingAssumption
    <2>4. due' \in {due, d} /\ (due' = d => watched \in Mutation[m].changes \/ due' = due)
      BY <1>1
    <2> HIDE DEF d
    <2> QED BY <1>3, <2>1, <2>2, <2>3, <2>4
  <1>8. CacheTypeOK'
    <2>1. cached' \in Entries  BY <1>0, <1>1, <1>5
    <2>2. due' \in Dues \union {Nothing} /\ (due' # Nothing => due'.version <= fact)
      BY <1>0, <1>6, <1>7 DEF CacheTypeOK
    <2> QED BY <1>0, <1>1, <1>2, <2>1, <2>2 DEF CacheTypeOK
  <1>9. OfThisVisit' /\ PlaceholderComes' /\ GuestsCard'
    BY <1>0, <1>1, <1>4, <1>5 DEF OfThisVisit, PlaceholderComes, GuestsCard
  <1>10. MarkedComes'
    BY <1>0, <1>1, <1>4, <1>5 DEF MarkedComes
  <1>11. MarkedOrTells'
    <2>1. CASE watched \in Mutation[m].marks
      BY <1>1, <1>4, <1>5, <2>1 DEF MarkedOrTells
    <2>2. CASE watched \notin Mutation[m].marks
      BY <1>0, <1>1, <1>7, <2>2 DEF MarkedOrTells, Owed, Tells
    <2> QED BY <2>1, <2>2
  <1>12. ReadAfter'
    <2>1. CASE watched \in Mutation[m].marks
      <3>1. cached' = b  BY <1>1, <2>1
      <3>2. due' # Nothing => due'.version <= fact
        BY <1>0, <1>6, <1>7 DEF CacheTypeOK
      <3>3. ASSUME due' # Nothing PROVE fact >= due'.version
        <4>1. due'.version \in 0..MaxChanges  BY <1>0, <1>7, <3>3 DEF CacheTypeOK, Dues
        <4> QED BY <1>6, <3>2, <3>3, <4>1
      <3>4. ASSUME b.flight # Nothing, b.flight.version # Unread
            PROVE  b.flight.overtaken \/ b.flight.version = fact
        BY <1>5, <3>4
      <3> QED BY <3>1, <3>3, <3>4 DEF ReadAfter, Tells, Owed
    <2>2. CASE watched \notin Mutation[m].marks
      BY <1>0, <1>1, <1>7, <2>2 DEF ReadAfter, Owed, Tells
    <2> QED BY <2>1, <2>2
  <1>13. WithinBound'
    BY <1>0, <1>1, <1>2 DEF WithinBound, Acknowledged, CacheTypeOK, Savings
  <1> QED BY <1>8, <1>9, <1>10, <1>11, <1>12, <1>13 DEF CacheInv

LEMMA SavingKeeps ==
  ASSUME CacheInv, Save \/ ServerCommits \/ SaveFails \/ Finish PROVE CacheInv'
  <1>0. /\ CacheTypeOK /\ OfThisVisit /\ PlaceholderComes /\ GuestsCard
        /\ ReadAfter /\ MarkedOrTells /\ MarkedComes
        /\ user \in Visitors /\ page \in AllPages /\ saving \in Savings \union {Nothing}
        /\ fact \in 0..MaxChanges /\ MaxChanges \in Nat
    BY CachedTyped, ChangesAssumption DEF CacheInv, CacheTypeOK
  <1>1. ASSUME UNCHANGED <<watched, page, user, language, observed, due>>,
               fact' \in {fact, fact + 1}, fact' \in 0..MaxChanges,
               saving' \in Savings \union {Nothing}, WithinBound'
        PROVE  CacheInv'
    <2>1. UNCHANGED <<cached, attached, held>> /\ OnShow' = OnShow
      BY <1>1 DEF observed, OnShow, On
    <2>2. CacheTypeOK'
      <3>1. due # Nothing => due.version <= fact'
        BY <1>0, <1>1 DEF CacheTypeOK, Dues
      <3> QED BY <1>0, <1>1, <2>1, <3>1 DEF CacheTypeOK
    <2>3. OfThisVisit' /\ PlaceholderComes' /\ GuestsCard' /\ MarkedComes'
      BY <1>0, <1>1, <2>1 DEF OfThisVisit, PlaceholderComes, GuestsCard, MarkedComes
    <2>4. ReadAfter' /\ MarkedOrTells'
      BY <1>0, <1>1, <2>1 DEF ReadAfter, MarkedOrTells, Owed, Tells
    <2> QED BY <1>1, <2>2, <2>3, <2>4 DEF CacheInv
  <1>2. CASE Save
    <2>1. PICK m \in DOMAIN Mutation : saving' = [what |-> m, at |-> "sent"]
      BY <1>2 DEF Save
    <2>2. saving' \in Savings  BY <2>1 DEF Savings
    <2>3. WithinBound'  BY <1>2 DEF Save, WithinBound
    <2> QED BY <1>0, <1>1, <1>2, <2>2, <2>3 DEF Save, visit
  <1>3. CASE ServerCommits
    <2>1. saving \in Savings  BY <1>0, <1>3 DEF ServerCommits
    <2>2. saving' \in Savings  BY <1>3, <2>1 DEF ServerCommits, Savings
    <2>3. fact' \in {fact, fact + 1} /\ UNCHANGED <<watched, page, user, language, observed, due>>
      BY <1>3 DEF ServerCommits, visit
    <2>4. fact' \in 0..MaxChanges
      BY <1>0, <1>3, <2>3 DEF ServerCommits, CacheInv, WithinBound
    <2>5. WithinBound'
      BY <1>3, <2>1 DEF ServerCommits, WithinBound, Savings
    <2> QED BY <1>1, <2>2, <2>3, <2>4, <2>5
  <1>4. CASE SaveFails
    <2>1. WithinBound'  BY <1>4 DEF SaveFails, WithinBound
    <2> QED BY <1>0, <1>1, <1>4, <2>1 DEF SaveFails, visit
  <1>5. CASE Finish
    <2>1. /\ saving \in Savings /\ saving' = Nothing
          /\ UNCHANGED <<watched, language, fact, due>>
      BY <1>0, <1>5 DEF Finish
    <2>2. \/ UNCHANGED <<page, user, observed>>
          \/ \E p \in Mutation[saving.what].to : Open(Reaches(p, user), user)
      BY <1>5 DEF Finish
    <2>3. CASE UNCHANGED <<page, user, observed>>
      <3>1. WithinBound'  BY <2>1 DEF WithinBound
      <3> QED BY <1>0, <1>1, <2>1, <2>3, <3>1
    <2>4. CASE \E p \in Mutation[saving.what].to : Open(Reaches(p, user), user)
      <3>1. saving.what \in DOMAIN Mutation  BY <2>1 DEF Savings
      <3>2. PICK p \in AllPages : Open(Reaches(p, user), user)
        BY <2>4, <3>1, MutationFacts
      <3> QED BY <1>0, <2>1, <3>2, ReachesFacts, OpenKeeps
    <2> QED BY <2>2, <2>3, <2>4
  <1> QED BY <1>2, <1>3, <1>4, <1>5

LEMMA CacheInvariant == CacheSpec => []CacheInv
  <1>1. CacheInit => CacheInv
    <2> SUFFICES ASSUME CacheInit PROVE CacheInv
      OBVIOUS
    <2>1. CacheTypeOK
      BY EmptyFacts, ChangesAssumption DEF CacheInit, CacheTypeOK, PublicPages, Languages
    <2> QED BY <2>1, EmptyFacts DEF CacheInit, CacheInv, WithinBound, OfThisVisit,
            PlaceholderComes, GuestsCard, ReadAfter, MarkedOrTells, MarkedComes
  <1>2. CacheInv /\ [CacheNext]_cacheVars => CacheInv'
    <2> SUFFICES ASSUME CacheInv, [CacheNext]_cacheVars PROVE CacheInv'
      OBVIOUS
    <2>1. CASE UNCHANGED cacheVars
      <3>1. /\ UNCHANGED <<watched, page, user, language, fact, cached, attached, held,
                           saving, due>>
            /\ OnShow' = OnShow
        BY <2>1 DEF cacheVars, visit, observed, OnShow, On
      <3> QED BY <3>1 DEF CacheInv, CacheTypeOK, WithinBound, OfThisVisit, PlaceholderComes,
              GuestsCard, ReadAfter, MarkedOrTells, MarkedComes, Owed, Tells
    <2> QED BY <2>1, VisitorKeeps, RequestKeeps, AcknowledgedKeeps, SavingKeeps DEF CacheNext
  <1> QED BY <1>1, <1>2, PTL DEF CacheSpec

\* The cache, the pages and the mutations keep their types.
THEOREM CacheTyped == CacheSpec => []CacheTypeOK
  <1>1. CacheInv => CacheTypeOK  BY DEF CacheInv
  <1> QED BY <1>1, CacheInvariant, PTL

\* Whoever signs in, out or in again, in any order with requests and their
\* answers: what an account was shown stays on no screen of the next visitor's,
\* but as a placeholder while its replacement is on the way (AuthCacheReset).
THEOREM NothingOfAnotherShown == CacheSpec => []NothingOfAnother
  <1>1. CacheInv => NothingOfAnother
    BY DEF CacheInv, OfThisVisit, PlaceholderComes, GuestsCard, NothingOfAnother, Shown, Coming
  <1> QED BY <1>1, CacheInvariant, PTL

\* And everything on show is in the language of the interface, or about to be
\* (LocaleCacheReset).
THEOREM OneLanguageShown == CacheSpec => []InOneLanguage
  <1>1. CacheInv => InOneLanguage
    BY DEF CacheInv, OfThisVisit, PlaceholderComes, GuestsCard, InOneLanguage, Shown, Coming
  <1> QED BY <1>1, CacheInvariant, PTL

\* For every query, page and mutation, and any number of changes: once one is
\* acknowledged, no page goes on to show what was there before it, but for the
\* keys known to be left out (COLLECTION_DEPENDENT_KEYS and its users).
THEOREM ChangesShown == CacheSpec => []ChangeIsShown
  <1>1. CacheInv => ChangeIsShown
    <2> SUFFICES ASSUME CacheInv, Shown # Nothing, Owed, attached, cached.flight = Nothing
                 PROVE  Tells(Shown)
      BY DEF ChangeIsShown, Owed, Tells, Coming
    <2>1. Shown = cached.data /\ OnShow /\ ~ cached.failed
      BY DEF Shown, CacheInv, PlaceholderComes
    <2> QED BY <2>1 DEF CacheInv, MarkedOrTells, MarkedComes
  <1> QED BY <1>1, CacheInvariant, PTL

-----------------------------------------------------------------------------
(*                                THE DIALOG                                *)
-----------------------------------------------------------------------------
USE NoneAssumption, AddressAssumption, BoundAssumption

\* Entries and where a guest is sent: never to a private page.
LEMMA AskingFacts ==
  ASSUME NEW p \in Paths, NEW m \in Modes, NEW f \in Paths
  PROVE  /\ Asking(p, m, f) \in Entry
         /\ Asking(p, m, f).path = p /\ Asking(p, m, f).handled = "none"
         /\ Asking(p, m, f).request # None
  <1>1. [mode |-> m, from |-> f] \in Request  BY DEF Request
  <1>2. Asking(p, m, f) = [path |-> p, handled |-> "none", request |-> [mode |-> m, from |-> f]]
    BY DEF Asking, Plain
  <1> QED BY <1>1, <1>2 DEF Entry, Handled

LEMMA AskingRequest ==
  ASSUME NEW p, NEW m, NEW f
  PROVE  Asking(p, m, f).request = [mode |-> m, from |-> f]
  BY DEF Asking, Plain

LEMMA EntryFacts ==
  ASSUME NEW p \in Paths
  PROVE  /\ Plain(p) \in Entry /\ Plain(p).path = p
         /\ Plain(p).handled = "none" /\ Plain(p).request = None
  BY DEF Plain, Entry, Handled

LEMMA GuestDestinationFacts ==
  /\ \A p \in Paths : GuestDestination(p) \in Pages \ Private
  /\ GuestDestination("add") = "coins" /\ GuestDestination("money") = "money"
  BY DEF GuestDestination, Pages, Private, Forms, Paths, Requesting, Compact

LEMMA HomeFacts ==
  ASSUME saved \in Pages \union {None} PROVE Home \in Pages
  BY DEF Home, Pages

\* What may become of a draft.
LEMMA DraftFacts ==
  ASSUME NEW d \in Drafts
  PROVE  /\ NoDrafts \in Drafts
         /\ \A who : SetOwner(d, who) \in Drafts
         /\ Retain(d) \in Drafts
         /\ \A p \in Forms, text \in Texts : Write(d, p, text) \in Drafts
         /\ \A p \in Forms : Release(d, p) \in Drafts
  <1>1. NoDrafts \in Drafts  BY DEF NoDrafts, Drafts
  <1>2. ASSUME NEW who PROVE SetOwner(d, who) \in Drafts
    BY DEF SetOwner, NoDrafts, Drafts
  <1>3. Retain(d) \in Drafts  BY DEF Retain, Drafts
  <1>4. ASSUME NEW p \in Forms, NEW text \in Texts PROVE Write(d, p, text) \in Drafts
    <2>1. d.of \in [Forms -> Texts \union {None}]  BY DEF Drafts
    <2>2. [d.of EXCEPT ![p] = IF ~ d.owned THEN @ ELSE IF text = "blank" THEN None ELSE text]
            \in [Forms -> Texts \union {None}]
      BY <2>1
    <2> QED BY <2>2 DEF Write, Drafts
  <1>5. ASSUME NEW p \in Forms PROVE Release(d, p) \in Drafts
    <2>1. [d.of EXCEPT ![p] = None] \in [Forms -> Texts \union {None}]  BY DEF Drafts
    <2> QED BY <2>1 DEF Release, Drafts
  <1> QED BY <1>1, <1>2, <1>3, <1>4, <1>5

-----------------------------------------------------------------------------
(* Effects.                                                                 *)

Effects == [entry : Entry, dialog : Dialog \union {None}, end : Handled,
            touched : BOOLEAN, moved : BOOLEAN]

LEMMA ReplacedFacts ==
  ASSUME NEW w \in Effects, NEW e \in Entry
  PROVE  LET r == Replaced(w, e) IN
         /\ r \in Effects /\ r.entry = e /\ r.moved /\ r.dialog = w.dialog
         /\ r.end = w.end /\ r.touched = w.touched
  BY DEF Replaced, Effects

LEMMA UnaffectedFacts ==
  ASSUME TypeOK
  PROVE  /\ Unaffected \in Effects /\ Unaffected.entry = entry /\ Unaffected.dialog = dialog
         /\ Unaffected.end = session.end /\ ~ Unaffected.touched /\ ~ Unaffected.moved
  BY DEF Unaffected, Effects, TypeOK

LEMMA RedirectsFacts ==
  ASSUME TypeOK, NEW p \in Paths, NEW opened
  PROVE  /\ \A r \in Redirects(p, session, opened) : r \in Entry /\ r.handled = "none"
         /\ p \notin {"root", "login", "forgot-password"}
            /\ (p \in Private => session.user \/ session.end # "none")
              => Redirects(p, session, opened) = {}
         /\ p = "add" /\ session.ready /\ ~ session.user /\ session.end = "none"
              => Redirects(p, session, opened) = {Asking("coins", "login", "add")}
  <1>1. Home \in Pages  BY HomeFacts DEF TypeOK
  <1>2. /\ Pages \subseteq Paths /\ {"login", "forgot-password"} \subseteq Modes
        /\ "collection" \in Paths
    BY DEF Paths, Modes, Pages
  <1>3. /\ Plain("collection") \in Entry /\ Plain("collection").handled = "none"
        /\ Plain(Home) \in Entry /\ Plain(Home).handled = "none"
    BY <1>1, <1>2, EntryFacts
  <1>4. ASSUME NEW m \in Modes, NEW f \in Paths
        PROVE  /\ Asking(GuestDestination(f), m, f) \in Entry
               /\ Asking(GuestDestination(f), m, f).handled = "none"
    <2>1. GuestDestination(f) \in Paths  BY <1>2, GuestDestinationFacts
    <2> QED BY <2>1, AskingFacts
  <1>5. \A r \in Redirects(p, session, opened) :
          \/ r = Plain("collection") \/ r = Plain(Home)
          \/ \E m \in Modes, f \in Paths : r = Asking(GuestDestination(f), m, f)
    BY <1>1, <1>2 DEF Redirects, Private
  <1>6. p \notin {"root", "login", "forgot-password"}
        /\ (p \in Private => session.user \/ session.end # "none")
          => Redirects(p, session, opened) = {}
    BY DEF Redirects
  <1>7. p = "add" /\ session.ready /\ ~ session.user /\ session.end = "none"
          => Redirects(p, session, opened) = {Asking("coins", "login", "add")}
    BY GuestDestinationFacts DEF Redirects, Private
  <1> QED BY <1>3, <1>4, <1>5, <1>6, <1>7

LEMMA RedirectEffectFacts ==
  ASSUME TypeOK, NEW w \in Effects, NEW e \in Entry, NEW opened
  PROVE  LET r == RedirectEffect(w, e, opened) IN
         /\ r \in Effects /\ r.dialog = w.dialog /\ r.end = w.end /\ r.touched = w.touched
         /\ r = w \/ (r.moved /\ r.entry \in Redirects(e.path, session, opened)
                              /\ r.entry.handled = "none")
         /\ Redirects(e.path, session, opened) = {} => r = w
         /\ \A x : Redirects(e.path, session, opened) = {x} => r.moved /\ r.entry = x
  <1>1. e.path \in Paths  BY DEF Entry
  <1>2. \A r \in Redirects(e.path, session, opened) : r \in Entry /\ r.handled = "none"
    BY <1>1, RedirectsFacts
  <1>3. CASE Redirects(e.path, session, opened) = {}
    BY <1>3 DEF RedirectEffect
  <1>4. CASE Redirects(e.path, session, opened) # {}
    <2>1. PICK x \in Redirects(e.path, session, opened) :
            RedirectEffect(w, e, opened) = Replaced(w, x)
      BY <1>4 DEF RedirectEffect
    <2> QED BY <1>2, <1>4, <2>1, ReplacedFacts
  <1> QED BY <1>3, <1>4

LEMMA PathEffectFacts ==
  ASSUME NEW w \in Effects
  PROVE  LET r == PathEffect(w) IN
         /\ r \in Effects /\ r.dialog = None /\ r.touched /\ r.end = w.end
         /\ r.entry = w.entry /\ r.moved = w.moved
  BY DEF PathEffect, Effects

LEMMA RequestEffectFacts ==
  ASSUME NEW w \in Effects, NEW e \in Entry
  PROVE  LET r == RequestEffect(w, e) IN
         /\ r \in Effects /\ r.end = w.end
         /\ e.request = None => r = w
         /\ e.request # None =>
              /\ r.moved /\ r.touched
              /\ r.entry.path = e.path /\ r.entry.handled = e.handled /\ r.entry.request = None
              /\ r.dialog \in Dialog /\ r.dialog # None
              /\ e.request.from \in Pages => r.dialog.from = e.request.from
  <1>1. CASE e.request = None
    BY <1>1 DEF RequestEffect
  <1>2. CASE e.request # None
    <2> DEFINE x == [e EXCEPT !.request = None]
               v == Replaced(w, x)
               d == Requested(e)
    <2>1. x \in Entry /\ x.path = e.path /\ x.handled = e.handled /\ x.request = None
      BY DEF Entry
    <2>2. v \in Effects /\ v.entry = x /\ v.moved /\ v.end = w.end
      BY <2>1, ReplacedFacts
    <2>3. e.request \in Request  BY <1>2 DEF Entry
    <2>4. /\ d \in Dialog /\ (e.request.from \in Pages => d.from = e.request.from)
      BY <2>3 DEF Requested, Request, Dialog, Pages
    <2>5. d # None  BY <2>4
    <2>6. RequestEffect(w, e) = [v EXCEPT !.dialog = d, !.touched = TRUE]
      BY <1>2 DEF RequestEffect
    <2> HIDE DEF x, v, d
    <2>7. LET r == [v EXCEPT !.dialog = d, !.touched = TRUE] IN
          /\ r \in Effects /\ r.end = v.end /\ r.moved = v.moved /\ r.touched
          /\ r.entry = v.entry /\ r.dialog = d
      BY <2>2, <2>4 DEF Effects
    <2> QED BY <1>2, <2>1, <2>2, <2>4, <2>5, <2>6, <2>7
  <1> QED BY <1>1, <1>2

LEMMA EndEffectFacts ==
  ASSUME NEW w \in Effects, NEW e \in Entry
  PROVE  LET r == EndEffect(w, e) IN
         /\ r \in Effects
         /\ w.end = "none" => r = w
         /\ w.end # "none" /\ e.handled = w.end =>
              /\ r.end = "none" /\ r.dialog = w.dialog /\ r.touched = w.touched
              /\ \/ r.entry = w.entry /\ r.moved = w.moved
                 \/ e.request = None /\ r.entry = Plain(e.path) /\ r.moved
         /\ w.end # "none" /\ e.handled # w.end =>
              /\ r.end = w.end /\ r.dialog = None /\ r.touched /\ r.moved
              /\ r.entry.path = GuestDestination(e.path) /\ r.entry.handled = w.end
              /\ w.end = "expired" => /\ r.entry.request = [mode |-> "login", from |-> e.path]
                                      /\ r.entry.request # None
  <1>1. e.path \in Paths /\ GuestDestination(e.path) \in Paths
    BY GuestDestinationFacts DEF Entry, Paths
  <1>2. CASE w.end = "none"
    BY <1>2 DEF EndEffect
  <1>3. CASE w.end # "none" /\ e.handled = w.end
    <2>1. Plain(e.path) \in Entry  BY <1>1, EntryFacts
    <2> DEFINE v == IF e.request = None THEN Replaced(w, Plain(e.path)) ELSE w
    <2>2. /\ v \in Effects /\ v.dialog = w.dialog /\ v.touched = w.touched
          /\ \/ v.entry = w.entry /\ v.moved = w.moved
             \/ e.request = None /\ v.entry = Plain(e.path) /\ v.moved
      BY <2>1, ReplacedFacts
    <2>3. EndEffect(w, e) = [v EXCEPT !.end = "none"]  BY <1>3 DEF EndEffect
    <2> HIDE DEF v
    <2>4. LET r == [v EXCEPT !.end = "none"] IN
          /\ r \in Effects /\ r.end = "none" /\ r.dialog = v.dialog /\ r.touched = v.touched
          /\ r.entry = v.entry /\ r.moved = v.moved
      BY <2>2 DEF Effects, Handled
    <2> QED BY <1>3, <2>2, <2>3, <2>4
  <1>4. CASE w.end # "none" /\ e.handled # w.end
    <2> DEFINE to == GuestDestination(e.path)
               x == IF w.end = "expired" THEN Asking(to, "login", e.path) ELSE Plain(to)
               y == [x EXCEPT !.handled = w.end]
               v == Replaced(w, y)
    <2>1. /\ x \in Entry /\ x.path = to
          /\ w.end = "expired" => x.request = [mode |-> "login", from |-> e.path]
                                  /\ x.request # None
      <3>1. CASE w.end = "expired"
        <4>1. x = Asking(to, "login", e.path)  BY <3>1
        <4>2. "login" \in Modes  BY DEF Modes
        <4>3. x.request = [mode |-> "login", from |-> e.path]  BY <4>1, AskingRequest
        <4>4. x \in Entry /\ x.path = to /\ x.request # None  BY <1>1, <4>1, <4>2, AskingFacts
        <4> QED BY <4>3, <4>4
      <3>2. CASE w.end # "expired"
        <4>1. x = Plain(to)  BY <3>2
        <4> QED BY <1>1, <3>2, <4>1, EntryFacts
      <3> QED BY <3>1, <3>2
    <2>2. w.end \in Handled  BY DEF Effects
    <2> HIDE DEF x
    <2>3. y \in Entry /\ y.path = to /\ y.handled = w.end /\ y.request = x.request
      BY <2>1, <2>2 DEF Entry
    <2>4. v \in Effects /\ v.entry = y /\ v.moved /\ v.end = w.end
      BY <2>3, ReplacedFacts
    <2>5. EndEffect(w, e) = [v EXCEPT !.dialog = None, !.touched = TRUE]
      BY <1>4 DEF EndEffect, x
    <2> HIDE DEF y, v
    <2>6. LET r == [v EXCEPT !.dialog = None, !.touched = TRUE] IN
          /\ r \in Effects /\ r.end = v.end /\ r.dialog = None /\ r.touched
          /\ r.entry = v.entry /\ r.moved = v.moved
      BY <2>4 DEF Effects
    <2> QED BY <1>4, <2>1, <2>3, <2>4, <2>5, <2>6
  <1> QED BY <1>2, <1>3, <1>4

-----------------------------------------------------------------------------
(* Requests in flight, forms and drafts.                                    *)

\* A window, or an answer that will act on the dialog, means that there is one.
FlightsHaveDialog(fs, d) ==
  \A f \in fs : f.kind = "window" \/ (f.live /\ f.kind \notin {"verify", "here"})
                  => d # None

\* No draft is of another account, nor from before a sign-out.
OwnDrafts(d) ==
  \A p \in Forms : /\ d.of[p] \in {None, "own"}
                   /\ p \in d.recoverable => d.of[p] = "own"

LEMMA DetachedFacts ==
  ASSUME NEW fs \in SUBSET Flight, IsFiniteSet(fs)
  PROVE  /\ Detached(fs) \subseteq Flight /\ IsFiniteSet(Detached(fs))
         /\ Cardinality(Detached(fs)) <= Cardinality(fs)
         /\ \A d : FlightsHaveDialog(Detached(fs), d)
  <1> DEFINE kept == {g \in fs : g.kind # "window"}
             D(f) == IF f.kind \in {"verify", "here"} THEN f ELSE [f EXCEPT !.live = FALSE]
             h == [f \in kept |-> D(f)]
  <1>1. Detached(fs) = {D(f) : f \in kept}  BY DEF Detached
  <1>2. ASSUME NEW f \in kept
        PROVE  /\ D(f) \in Flight /\ D(f).kind # "window"
               /\ D(f).live => D(f).kind \in {"verify", "here"}
    BY DEF Flight
  <1>3. Detached(fs) \subseteq Flight  BY <1>1, <1>2
  <1>4. \A d : FlightsHaveDialog(Detached(fs), d)
    BY <1>1, <1>2 DEF FlightsHaveDialog
  <1>5. IsFiniteSet(kept) /\ Cardinality(kept) <= Cardinality(fs)
    <2>1. kept \in SUBSET fs  OBVIOUS
    <2> HIDE DEF kept
    <2> QED BY <2>1, FS_Subset
  <1>6. h \in Surjection(kept, Detached(fs))
    <2> HIDE DEF kept
    <2>1. DOMAIN h = kept /\ \A f \in kept : h[f] = D(f)  OBVIOUS
    <2>2. h \in [kept -> Detached(fs)]  BY <1>1
    <2> HIDE DEF h, D
    <2>3. \A t \in Detached(fs) : \E f \in kept : h[f] = t  BY <1>1, <2>1
    <2> QED BY <2>2, <2>3 DEF Surjection
  <1>7. IsFiniteSet(Detached(fs)) /\ Cardinality(Detached(fs)) <= Cardinality(kept)
    <2> HIDE DEF kept, h
    <2> QED BY <1>5, <1>6, FS_Surjection
  <1>8. Cardinality(Detached(fs)) \in Nat /\ Cardinality(kept) \in Nat /\ Cardinality(fs) \in Nat
    <2> HIDE DEF kept
    <2> QED BY <1>5, <1>7, FS_CardinalityType
  <1> HIDE DEF kept
  <1> QED BY <1>3, <1>4, <1>5, <1>7, <1>8

LEMMA OwnDraftFacts ==
  ASSUME NEW d \in Drafts, OwnDrafts(d)
  PROVE  /\ OwnDrafts(NoDrafts) /\ OwnDrafts(Retain(d))
         /\ \A who : OwnDrafts(SetOwner(d, who))
         /\ \A p \in Forms : /\ OwnDrafts(Release(d, p))
                             /\ Recovered(d, p) \in {"blank", "own"}
                             /\ OwnDrafts(Write(d, p, "own")) /\ OwnDrafts(Write(d, p, "blank"))
  <1>1. OwnDrafts(NoDrafts)  BY DEF OwnDrafts, NoDrafts
  <1>2. OwnDrafts(Retain(d))  BY DEF OwnDrafts, Retain, Drafts
  <1>3. ASSUME NEW who PROVE OwnDrafts(SetOwner(d, who))
    <2>1. CASE who = "same"  BY <2>1 DEF OwnDrafts, SetOwner, Drafts
    <2>2. CASE who # "same"  BY <1>1, <2>2 DEF OwnDrafts, SetOwner, NoDrafts
    <2> QED BY <2>1, <2>2
  <1>4. ASSUME NEW p \in Forms
        PROVE  /\ OwnDrafts(Release(d, p)) /\ Recovered(d, p) \in {"blank", "own"}
               /\ OwnDrafts(Write(d, p, "own")) /\ OwnDrafts(Write(d, p, "blank"))
    <2>1. OwnDrafts(Release(d, p))
      BY DEF OwnDrafts, Release, Drafts
    <2>2. Recovered(d, p) \in {"blank", "own"}
      <3>1. p \in d.recoverable => d.of[p] = "own"  BY DEF OwnDrafts
      <3> QED BY <3>1 DEF Recovered
    <2>3. ASSUME NEW text \in {"own", "blank"} PROVE OwnDrafts(Write(d, p, text))
      <3>1. \A q \in Forms :
              /\ Write(d, p, text).of[q] = IF q # p \/ ~ d.owned THEN d.of[q]
                                           ELSE IF text = "blank" THEN None ELSE text
              /\ q \in Write(d, p, text).recoverable => q # p /\ q \in d.recoverable
        BY DEF Write, Drafts
      <3> QED BY <3>1 DEF OwnDrafts
    <2> QED BY <2>1, <2>2, <2>3
  <1> QED BY <1>1, <1>2, <1>3, <1>4

-----------------------------------------------------------------------------
(* The dialog, the place and the drafts keep to each other.                 *)

\* A place that has been rendered holds no request.
AtRest == ~ moving => entry.request = None

DialogInv ==
  /\ TypeOK
  /\ IsFiniteSet(flights)
  /\ FlightsHaveDialog(flights, dialog)
  /\ AtRest
  /\ OwnDrafts(drafts)

LEMMA FormFacts ==
  \A p \in Forms : p \in Paths /\ p # None
  BY DEF Paths, Pages

\* Who has been sent away from a page of users is on one of guests.
SentAway(e) == e.handled # "none" => e.path \notin Private

LEMMA EndSentAway ==
  ASSUME NEW w \in Effects, NEW e \in Entry, SentAway(w.entry)
  PROVE  SentAway(EndEffect(w, e).entry)
  <1>1. e.path \in Paths /\ w.end \in Handled  BY DEF Entry, Effects
  <1>2. GuestDestination(e.path) \notin Private /\ Plain(e.path).handled = "none"
    BY <1>1, GuestDestinationFacts, EntryFacts
  <1> QED BY <1>2, EndEffectFacts DEF SentAway

\* What effects leave alone.
LEMMA RenderEffects ==
  ASSUME TypeOK
  PROVE  LET w == EndEffect(RedirectEffect(Unaffected, shown, TRUE), shown) IN
         /\ w \in Effects
         /\ ~ w.touched => w.dialog = dialog
         /\ ~ w.moved => w.entry = entry
         /\ SentAway(entry) => SentAway(w.entry)
  <1> DEFINE v == RedirectEffect(Unaffected, shown, TRUE)
             w == EndEffect(v, shown)
  <1>1. shown \in Entry  BY DEF TypeOK
  <1>2. /\ v \in Effects /\ v.dialog = dialog /\ ~ v.touched
        /\ ~ v.moved => v.entry = entry
        /\ SentAway(entry) => SentAway(v.entry)
    <2>1. /\ Unaffected \in Effects /\ Unaffected.entry = entry /\ Unaffected.dialog = dialog
          /\ ~ Unaffected.touched
      BY UnaffectedFacts
    <2>2. ASSUME NEW o
          PROVE  LET r == RedirectEffect(Unaffected, shown, o) IN
                 /\ r \in Effects /\ r.dialog = Unaffected.dialog
                 /\ r.touched = Unaffected.touched
                 /\ r = Unaffected \/ (r.moved /\ r.entry.handled = "none")
      BY <1>1, <2>1, RedirectEffectFacts
    <2>3. /\ v \in Effects /\ v.dialog = Unaffected.dialog /\ v.touched = Unaffected.touched
          /\ v = Unaffected \/ (v.moved /\ v.entry.handled = "none")
      BY <2>2, Zenon
    <2> QED BY <2>1, <2>3 DEF SentAway
  <1> HIDE DEF v
  <1>3. /\ w \in Effects
        /\ ~ w.touched => w.dialog = dialog
        /\ ~ w.moved => w.entry = entry
        /\ SentAway(entry) => SentAway(w.entry)
    BY <1>1, <1>2, EndEffectFacts, EndSentAway
  <1> QED BY <1>3 DEF v

LEMMA CommitEffects ==
  ASSUME TypeOK
  PROVE  LET opened == entry.path # shown.path
             w1 == RedirectEffect(Unaffected, entry, opened)
             w2 == IF opened THEN PathEffect(w1) ELSE w1
             w == EndEffect(RequestEffect(w2, entry), entry) IN
         /\ w \in Effects
         /\ ~ w.touched => w.dialog = dialog
         /\ ~ w.moved => w.entry = entry /\ entry.request = None
         /\ SentAway(entry) => SentAway(w.entry)
  <1> DEFINE opened == entry.path # shown.path
             w1 == RedirectEffect(Unaffected, entry, opened)
             w2 == IF opened THEN PathEffect(w1) ELSE w1
             w3 == RequestEffect(w2, entry)
             w == EndEffect(w3, entry)
  <1>1. entry \in Entry  BY DEF TypeOK
  <1>2. /\ w1 \in Effects /\ w1.dialog = dialog /\ ~ w1.touched
        /\ ~ w1.moved => w1.entry = entry
        /\ SentAway(entry) => SentAway(w1.entry)
    <2>1. /\ Unaffected \in Effects /\ Unaffected.entry = entry /\ Unaffected.dialog = dialog
          /\ ~ Unaffected.touched
      BY UnaffectedFacts
    <2>2. /\ w1 \in Effects /\ w1.dialog = Unaffected.dialog
          /\ w1.touched = Unaffected.touched
          /\ w1 = Unaffected \/ (w1.moved /\ w1.entry.handled = "none")
      BY <1>1, <2>1, RedirectEffectFacts
    <2> QED BY <2>1, <2>2 DEF SentAway
  <1> HIDE DEF w1
  <1>3. /\ w2 \in Effects
        /\ ~ w2.touched => w2.dialog = dialog
        /\ ~ w2.moved => w2.entry = entry
        /\ SentAway(entry) => SentAway(w2.entry)
    BY <1>2, PathEffectFacts
  <1> HIDE DEF w2
  <1>4. /\ w3 \in Effects
        /\ ~ w3.touched => w3.dialog = dialog
        /\ ~ w3.moved => w3.entry = entry /\ entry.request = None
        /\ SentAway(entry) => SentAway(w3.entry)
    BY <1>1, <1>3, RequestEffectFacts DEF SentAway
  <1> HIDE DEF w3
  <1>5. /\ w \in Effects
        /\ ~ w.touched => w.dialog = dialog
        /\ ~ w.moved => w.entry = entry /\ entry.request = None
        /\ SentAway(entry) => SentAway(w.entry)
    BY <1>1, <1>4, EndEffectFacts, EndSentAway
  <1> QED BY <1>5 DEF w1, w2, w3

LEMMA AffectedFacts ==
  ASSUME DialogInv, NEW w \in Effects, ~ w.touched => w.dialog = dialog, Affected(w)
  PROVE  /\ entry' \in Entry /\ dialog' \in Dialog \union {None}
         /\ flights' \subseteq Flight /\ Cardinality(flights') <= MaxFlights
         /\ IsFiniteSet(flights') /\ FlightsHaveDialog(flights', dialog')
         /\ session' \in [user : BOOLEAN, ready : BOOLEAN, end : Handled]
         /\ stale' \in BOOLEAN /\ verified' \in BOOLEAN
         /\ saved' \in Pages \union {None} /\ left' \in Form \union {None}
  <1>1. /\ TypeOK /\ IsFiniteSet(flights) /\ FlightsHaveDialog(flights, dialog)
    BY DEF DialogInv
  <1>2. entry' \in Entry /\ dialog' \in Dialog \union {None}
    BY DEF Affected, Effects
  <1>3. session' \in [user : BOOLEAN, ready : BOOLEAN, end : Handled]
    BY <1>1 DEF Affected, Effects, TypeOK
  <1>4. /\ stale' \in BOOLEAN /\ verified' \in BOOLEAN
        /\ saved' \in Pages \union {None} /\ left' \in Form \union {None}
    BY <1>1 DEF Affected, TypeOK
  <1>5. flights \in SUBSET Flight /\ Cardinality(flights) <= MaxFlights
    BY <1>1 DEF TypeOK
  <1>6. CASE w.touched /\ dialog # None
    <2>1. flights' = Detached(flights)  BY <1>6 DEF Affected
    <2>2. /\ Cardinality(Detached(flights)) \in Nat /\ Cardinality(flights) \in Nat
          /\ MaxFlights \in Nat
      BY <1>1, <1>5, DetachedFacts, FS_CardinalityType
    <2>3. Cardinality(flights') <= MaxFlights  BY <1>1, <1>5, <2>1, <2>2, DetachedFacts
    <2> QED BY <1>1, <1>2, <1>3, <1>4, <1>5, <2>1, <2>3, DetachedFacts
  <1>7. CASE ~ (w.touched /\ dialog # None)
    <2>1. flights' = flights  BY <1>7 DEF Affected
    <2>2. dialog = None \/ dialog' = dialog  BY <1>7 DEF Affected
    <2>3. FlightsHaveDialog(flights', dialog')  BY <1>1, <2>1, <2>2 DEF FlightsHaveDialog
    <2> QED BY <1>1, <1>2, <1>3, <1>4, <1>5, <2>1, <2>3
  <1> QED BY <1>6, <1>7

\* A form that comes reads a draft of its user's, or nothing.
LEMMA MountedFacts ==
  ASSUME DialogInv, NEW e, Mounted(e)
  PROVE  /\ form' \in Form \union {None} /\ drafts' \in Drafts /\ OwnDrafts(drafts')
         /\ form' # None /\ (form = None \/ form.page # form'.page)
              => form'.text \in {"blank", "own"}
  <1> DEFINE before == IF form = None THEN None ELSE form.page
             kept == IF before = None THEN drafts ELSE Release(drafts, before)
             page_ == FormPage(e)
             text == Recovered(kept, page_)
  <1>1. drafts \in Drafts /\ OwnDrafts(drafts) /\ form \in Form \union {None}
    BY DEF DialogInv, TypeOK
  <1>2. before \in Forms \union {None}  BY <1>1 DEF Form
  <1>3. kept \in Drafts /\ OwnDrafts(kept)  BY <1>1, <1>2, DraftFacts, OwnDraftFacts
  <1>4. page_ \in Forms \union {None}  BY DEF FormPage
  <1>5. /\ page_ = before => UNCHANGED <<form, drafts>>
        /\ page_ # before /\ page_ = None => form' = None /\ drafts' = kept
        /\ page_ # before /\ page_ # None => /\ form' = [page |-> page_, text |-> text]
                                             /\ drafts' = Write(kept, page_, text)
    BY DEF Mounted
  <1>6. ASSUME page_ # None PROVE text \in {"blank", "own"} /\ text \in Texts
    <2>1. page_ \in Forms  BY <1>4, <1>6
    <2>2. text \in {"blank", "own"}
      <3> HIDE DEF kept, page_
      <3> QED BY <2>1, <1>3, OwnDraftFacts
    <2> QED BY <2>2 DEF Texts
  <1> HIDE DEF before, kept, page_, text
  <1>7. CASE page_ = before
    <2>1. form' = form /\ drafts' = drafts  BY <1>5, <1>7
    <2> QED BY <1>1, <2>1
  <1>8. CASE page_ # before /\ page_ = None
    BY <1>1, <1>3, <1>5, <1>8
  <1>9. CASE page_ # before /\ page_ # None
    <2>1. /\ form' = [page |-> page_, text |-> text] /\ drafts' = Write(kept, page_, text)
          /\ page_ \in Forms /\ text \in Texts /\ text \in {"blank", "own"}
      BY <1>4, <1>5, <1>6, <1>9
    <2>2. form' \in Form /\ form'.text = text  BY <2>1 DEF Form
    <2>3. drafts' \in Drafts  BY <1>3, <2>1, DraftFacts
    <2>4. OwnDrafts(drafts')
      <3>1. CASE text = "own"  BY <1>3, <2>1, <3>1, OwnDraftFacts
      <3>2. CASE text = "blank"  BY <1>3, <2>1, <3>2, OwnDraftFacts
      <3> QED BY <2>1, <3>1, <3>2
    <2> QED BY <2>1, <2>2, <2>3, <2>4
  <1> QED BY <1>7, <1>8, <1>9

LEMMA RenderKeepsDialog == ASSUME DialogInv, Render PROVE DialogInv'
  <1> DEFINE w == EndEffect(RedirectEffect(Unaffected, shown, TRUE), shown)
  <1>1. TypeOK /\ AtRest  BY DEF DialogInv
  <1>2. /\ w \in Effects /\ (~ w.touched => w.dialog = dialog)
        /\ ~ w.moved => w.entry = entry
    BY <1>1, RenderEffects
  <1>3. Affected(w) /\ moving' = (moving \/ w.moved) /\ Mounted(shown) /\ shown' = shown
    BY DEF Render
  <1> HIDE DEF w
  <1>4. moving \in BOOLEAN /\ w.moved \in BOOLEAN /\ shown \in Entry
    BY <1>1, <1>2 DEF TypeOK, Effects
  <1>5. moving' \in BOOLEAN /\ shown' \in Entry  BY <1>3, <1>4
  <1>6. AtRest'
    <2>1. entry' = w.entry  BY <1>3 DEF Affected
    <2> QED BY <1>1, <1>2, <1>3, <1>4, <2>1 DEF AtRest
  <1> QED BY <1>2, <1>3, <1>5, <1>6, AffectedFacts, MountedFacts DEF DialogInv, TypeOK

LEMMA CommitKeepsDialog == ASSUME DialogInv, Commit PROVE DialogInv'
  <1> DEFINE opened == entry.path # shown.path
             w1 == RedirectEffect(Unaffected, entry, opened)
             w2 == IF opened THEN PathEffect(w1) ELSE w1
             w == EndEffect(RequestEffect(w2, entry), entry)
  <1>1. TypeOK /\ AtRest  BY DEF DialogInv
  <1>2. /\ w \in Effects /\ (~ w.touched => w.dialog = dialog)
        /\ ~ w.moved => w.entry = entry /\ entry.request = None
    BY <1>1, CommitEffects
  <1>3. Affected(w) /\ moving' = w.moved /\ Mounted(entry) /\ shown' = entry
    BY DEF Commit
  <1> HIDE DEF w
  <1>4. w.moved \in BOOLEAN /\ entry \in Entry
    BY <1>1, <1>2 DEF TypeOK, Effects
  <1>5. moving' \in BOOLEAN /\ shown' \in Entry  BY <1>3, <1>4
  <1>6. AtRest'
    <2>1. entry' = w.entry  BY <1>3 DEF Affected
    <2> QED BY <1>2, <1>3, <2>1 DEF AtRest
  <1> QED BY <1>2, <1>3, <1>5, <1>6, AffectedFacts, MountedFacts DEF DialogInv, TypeOK

FlightsFine(fs, d) ==
  /\ fs \subseteq Flight /\ IsFiniteSet(fs) /\ Cardinality(fs) <= MaxFlights
  /\ FlightsHaveDialog(fs, d)

LEMMA FewerFlights ==
  ASSUME DialogInv, NEW f
  PROVE  /\ FlightsFine(flights, dialog) /\ FlightsFine(flights \ {f}, dialog)
         /\ \A d : FlightsFine(Detached(flights \ {f}), d)
  <1>1. flights \subseteq Flight /\ IsFiniteSet(flights) /\ Cardinality(flights) <= MaxFlights
        /\ FlightsHaveDialog(flights, dialog)
    BY DEF DialogInv, TypeOK
  <1> DEFINE fs == flights \ {f}
  <1>2. /\ fs \in SUBSET Flight /\ IsFiniteSet(fs) /\ Cardinality(fs) <= Cardinality(flights)
    <2>1. fs \in SUBSET flights  OBVIOUS
    <2> HIDE DEF fs
    <2> QED BY <1>1, <2>1, FS_Subset
  <1>3. FlightsHaveDialog(fs, dialog)  BY <1>1 DEF FlightsHaveDialog
  <1> HIDE DEF fs
  <1>4. Cardinality(flights) \in Nat /\ Cardinality(fs) \in Nat /\ MaxFlights \in Nat
    BY <1>1, <1>2, FS_CardinalityType
  <1>5. FlightsFine(flights, dialog) /\ FlightsFine(fs, dialog)
    BY <1>1, <1>2, <1>3, <1>4 DEF FlightsFine
  <1>6. ASSUME NEW d PROVE FlightsFine(Detached(fs), d)
    <2>1. /\ Detached(fs) \subseteq Flight /\ IsFiniteSet(Detached(fs))
          /\ Cardinality(Detached(fs)) <= Cardinality(fs)
          /\ FlightsHaveDialog(Detached(fs), d)
      BY <1>2, DetachedFacts
    <2>2. Cardinality(Detached(fs)) \in Nat  BY <2>1, FS_CardinalityType
    <2>3. Cardinality(Detached(fs)) <= MaxFlights  BY <1>1, <1>2, <1>4, <2>1, <2>2
    <2> QED BY <2>1, <2>3 DEF FlightsFine
  <1> QED BY <1>5, <1>6 DEF fs

LEMMA AskFacts ==
  ASSUME DialogInv, NEW kind \in {"login", "register", "forgot", "window", "verify"},
         NEW from \in Pages \union {None}, kind = "verify" \/ dialog # None, Ask(kind, from)
  PROVE  FlightsFine(flights', dialog)
  <1> DEFINE f == [kind |-> kind, from |-> from, live |-> TRUE]
  <1>1. FlightsFine(flights, dialog)  BY FewerFlights
  <1>2. flights' = flights \union {f} /\ Cardinality(flights) < MaxFlights  BY DEF Ask
  <1>3. f \in Flight /\ f.kind = kind  BY DEF Flight
  <1>4. IsFiniteSet(flights) /\ Cardinality(flights) \in Nat /\ MaxFlights \in Nat
    BY <1>1, FS_CardinalityType DEF FlightsFine
  <1>5. FlightsHaveDialog(flights', dialog)
    BY <1>1, <1>2, <1>3 DEF FlightsFine, FlightsHaveDialog
  <1> HIDE DEF f
  <1>6. IsFiniteSet(flights') /\ Cardinality(flights') <= MaxFlights
    <2>1. /\ IsFiniteSet(flights \union {f})
          /\ Cardinality(flights \union {f})
               = IF f \in flights THEN Cardinality(flights) ELSE Cardinality(flights) + 1
      BY <1>4, FS_AddElement
    <2>2. Cardinality(flights \union {f}) <= MaxFlights
      BY <1>2, <1>4, <2>1
    <2> QED BY <1>2, <2>1, <2>2
  <1> QED BY <1>1, <1>2, <1>3, <1>5, <1>6 DEF FlightsFine

LEMMA OwningFacts ==
  ASSUME DialogInv, NEW who, Owning(who)
  PROVE  /\ drafts' \in Drafts /\ OwnDrafts(drafts') /\ form' \in Form \union {None}
         /\ form' # None => form # None /\ form'.page = form.page
  <1>1. drafts \in Drafts /\ OwnDrafts(drafts) /\ form \in Form \union {None}
    BY DEF DialogInv, TypeOK
  <1>2. drafts' \in Drafts /\ OwnDrafts(drafts')
    BY <1>1, DraftFacts, OwnDraftFacts DEF Owning
  <1>3. CASE form = None \/ who = "same"
    BY <1>1, <1>2, <1>3 DEF Owning
  <1>4. CASE form # None /\ who # "same"
    <2>1. form' = [form EXCEPT !.text = Aged(form.text)] /\ form \in Form
      BY <1>1, <1>4 DEF Owning
    <2>2. Aged(form.text) \in Texts  BY <2>1 DEF Aged, Form, Texts
    <2>3. form' \in Form /\ form'.page = form.page  BY <2>1, <2>2 DEF Form
    <2> QED BY <1>2, <1>4, <2>3
  <1> QED BY <1>3, <1>4

\* Every entry the tab can have left behind is one.
LEMMA EarlierFacts == Earlier \subseteq Entry
  <1>1. Addresses \subseteq Paths
    BY DEF Paths
  <1>2. ASSUME NEW p \in Addresses
        PROVE  Plain(p) \in Entry /\ GuestDestination(p) \in Paths
    BY <1>1, EntryFacts, GuestDestinationFacts DEF Paths
  <1>3. ASSUME NEW p \in Addresses, NEW h \in {"none", "expired"}
        PROVE  [Asking(GuestDestination(p), "login", p) EXCEPT !.handled = h] \in Entry
    <2> DEFINE a == Asking(GuestDestination(p), "login", p)
    <2>1. "login" \in Modes  BY DEF Modes
    <2>2. a \in Entry  BY <1>1, <1>2, <2>1, AskingFacts
    <2> HIDE DEF a
    <2>3. [a EXCEPT !.handled = h] \in Entry  BY <2>2 DEF Entry, Handled
    <2> QED BY <2>3 DEF a
  <1>4. [path : {GuestDestination(p) : p \in Addresses}, handled : {"none", "expired"},
         request : {None}] \subseteq Entry
    BY <1>2 DEF Entry, Handled
  <1>5. {Plain(p) : p \in Addresses} \subseteq Entry  BY <1>2
  <1>6. {[Asking(GuestDestination(p), "login", p) EXCEPT !.handled = h] :
           p \in Addresses \ Requesting, h \in {"none", "expired"}} \subseteq Entry
    <2> DEFINE A(p, h) == [Asking(GuestDestination(p), "login", p) EXCEPT !.handled = h]
    <2>1. \A p \in Addresses, h \in {"none", "expired"} : A(p, h) \in Entry  BY <1>3
    <2> HIDE DEF A
    <2>2. {A(p, h) : p \in Addresses \ Requesting, h \in {"none", "expired"}} \subseteq Entry
      BY <2>1
    <2> QED BY <2>2 DEF A
  <1> QED BY <1>4, <1>5, <1>6 DEF Earlier

LEMMA GoKeepsDialog ==
  ASSUME DialogInv, NEW e \in Entry, Go(e) PROVE DialogInv'
  <1>1. TypeOK /\ IsFiniteSet(flights) /\ FlightsHaveDialog(flights, dialog) /\ OwnDrafts(drafts)
    BY DEF DialogInv
  <1>2. entry' = e /\ moving' /\ left' = None
        /\ UNCHANGED <<shown, dialog, flights, verified, session, stale, drafts, saved, form>>
    BY DEF Go, account
  <1>3. TypeOK'  BY <1>1, <1>2 DEF TypeOK, Go
  <1> QED BY <1>1, <1>2, <1>3 DEF DialogInv, AtRest

LEMMA FreshKeepsDialog ==
  ASSUME Fresh, entry' \in Entry, shown' \in Entry, saved' \in Pages \union {None},
         \/ flights' = {}
         \/ flights' = {[kind |-> "here", from |-> None, live |-> TRUE]}
  PROVE  DialogInv'
  <1>1. /\ flights' \subseteq Flight /\ IsFiniteSet(flights') /\ Cardinality(flights') <= MaxFlights
        /\ FlightsHaveDialog(flights', dialog')
    <2>1. CASE flights' = {}
      BY <2>1, FS_EmptySet DEF FlightsHaveDialog
    <2>2. CASE flights' = {[kind |-> "here", from |-> None, live |-> TRUE]}
      <3> DEFINE f == [kind |-> "here", from |-> None, live |-> TRUE]
      <3>1. f \in Flight /\ f.kind = "here"  BY DEF Flight
      <3> HIDE DEF f
      <3>2. flights' = {f}  BY <2>2 DEF f
      <3>3. FlightsHaveDialog(flights', dialog')  BY <3>1, <3>2 DEF FlightsHaveDialog
      <3>4. IsFiniteSet(flights') /\ Cardinality(flights') = 1  BY <3>2, FS_Singleton
      <3> QED BY <3>1, <3>2, <3>3, <3>4
    <2> QED BY <2>1, <2>2
  <1>2. session' \in [user : BOOLEAN, ready : BOOLEAN, end : Handled]
    BY DEF Fresh, Handled
  <1>3. drafts' = NoDrafts /\ NoDrafts \in Drafts /\ OwnDrafts(NoDrafts)
    BY DEF Fresh, NoDrafts, Drafts, OwnDrafts
  <1>4. TypeOK'  BY <1>1, <1>2, <1>3 DEF TypeOK, Fresh
  <1> QED BY <1>1, <1>3, <1>4 DEF DialogInv, AtRest, Fresh

LEMMA AccountKeepsDialog ==
  ASSUME DialogInv, Expire \/ SignOut \/ (\E who \in Accounts \union {None} : Restore(who))
  PROVE  DialogInv'
  <1>1. /\ TypeOK /\ IsFiniteSet(flights) /\ FlightsHaveDialog(flights, dialog)
        /\ AtRest /\ OwnDrafts(drafts)
    BY DEF DialogInv
  <1>2. drafts \in Drafts /\ session \in [user : BOOLEAN, ready : BOOLEAN, end : Handled]
    BY <1>1 DEF TypeOK
  <1>3. CASE Expire
    <2>1. session' \in [user : BOOLEAN, ready : BOOLEAN, end : Handled]
      BY <1>2, <1>3 DEF Expire, Handled
    <2>2. drafts' \in Drafts /\ OwnDrafts(drafts')
      BY <1>1, <1>2, <1>3, DraftFacts, OwnDraftFacts DEF Expire
    <2>3. TypeOK'  BY <1>1, <1>3, <2>1, <2>2 DEF Expire, TypeOK, place
    <2> QED BY <1>1, <1>3, <2>2, <2>3 DEF Expire, DialogInv, AtRest, place
  <1>4. CASE SignOut
    <2>1. session' \in [user : BOOLEAN, ready : BOOLEAN, end : Handled]
      BY <1>2, <1>4 DEF SignOut, Handled
    <2>2. drafts' \in Drafts /\ OwnDrafts(drafts') /\ form' \in Form \union {None}
      BY <1>4, OwningFacts DEF SignOut
    <2>3. TypeOK'  BY <1>1, <1>4, <2>1, <2>2 DEF SignOut, TypeOK, place
    <2> QED BY <1>1, <1>4, <2>2, <2>3 DEF SignOut, DialogInv, AtRest, place
  <1>5. ASSUME NEW who \in Accounts \union {None}, Restore(who) PROVE DialogInv'
    <2>1. session' \in [user : BOOLEAN, ready : BOOLEAN, end : Handled]
      BY <1>2, <1>5 DEF Restore
    <2>2. drafts' \in Drafts /\ OwnDrafts(drafts') /\ form' \in Form \union {None}
      BY <1>1, <1>5, OwningFacts DEF Restore, TypeOK
    <2>3. TypeOK'  BY <1>1, <1>5, <2>1, <2>2 DEF Restore, TypeOK, place
    <2> QED BY <1>1, <1>5, <2>2, <2>3 DEF Restore, DialogInv, AtRest, place
  <1> QED BY <1>3, <1>4, <1>5

LEMMA TypeKeepsDialog == ASSUME DialogInv, Type PROVE DialogInv'
  <1>1. /\ TypeOK /\ IsFiniteSet(flights) /\ FlightsHaveDialog(flights, dialog)
        /\ AtRest /\ OwnDrafts(drafts) /\ drafts \in Drafts
    BY DEF DialogInv, TypeOK
  <1>2. form \in Form  BY <1>1 DEF TypeOK, Type
  <1>3. form.page \in Forms  BY <1>2 DEF Form
  <1>4. form' \in Form  BY <1>2 DEF Type, Form, Texts
  <1>5. drafts' \in Drafts /\ OwnDrafts(drafts')
    BY <1>1, <1>3, DraftFacts, OwnDraftFacts DEF Type, Texts
  <1>6. TypeOK'  BY <1>1, <1>4, <1>5 DEF TypeOK, Type, place
  <1> QED BY <1>1, <1>5, <1>6 DEF DialogInv, Type, AtRest, place

LEMMA VisitorKeepsDialog ==
  ASSUME DialogInv,
         \/ \E p \in Addresses : Follow(p)
         \/ Back \/ Reload \/ OpenMailedLink \/ StartGoogleHere
  PROVE  DialogInv'
  <1>1. TypeOK  BY DEF DialogInv
  <1>2. ASSUME NEW p \in Addresses, Follow(p) PROVE DialogInv'
    <2>1. Plain(p) \in Entry  BY EntryFacts DEF Paths
    <2> QED BY <1>2, <2>1, GoKeepsDialog DEF Follow
  <1>3. CASE Back  BY <1>3, EarlierFacts, GoKeepsDialog DEF Back
  <1>4. CASE Reload  BY <1>1, <1>4, FreshKeepsDialog DEF Reload, TypeOK
  <1>5. CASE OpenMailedLink
    <2>1. Plain("verify") \in Entry  BY EntryFacts DEF Paths, Compact
    <2> QED BY <1>1, <1>5, <2>1, FreshKeepsDialog DEF OpenMailedLink, TypeOK
  <1>6. CASE StartGoogleHere
    <2>1. Plain("google") \in Entry  BY EntryFacts DEF Paths, Compact
    <2>2. dialog \in Dialog  BY <1>1, <1>6 DEF StartGoogleHere, TypeOK
    <2>3. saved' \in Pages  BY <1>6, <2>2 DEF StartGoogleHere, Dialog
    <2> QED BY <1>6, <2>1, <2>3, FreshKeepsDialog DEF StartGoogleHere
  <1> QED BY <1>2, <1>3, <1>4, <1>5, <1>6

\* A step that only works on the dialog and what it asks.
LEMMA AsideKeepsDialog ==
  ASSUME DialogInv, UNCHANGED <<place, account, form>>,
         FlightsFine(flights', dialog'), dialog' \in Dialog \union {None},
         verified' \in BOOLEAN, saved' \in Pages \union {None}, left' \in Form \union {None}
  PROVE  DialogInv'
  <1>1. TypeOK /\ AtRest /\ OwnDrafts(drafts)  BY DEF DialogInv
  <1>2. UNCHANGED <<entry, shown, moving, session, stale, drafts, form>>
    BY DEF place, account
  <1>3. TypeOK'  BY <1>1, <1>2 DEF TypeOK, FlightsFine
  <1> QED BY <1>1, <1>2, <1>3 DEF DialogInv, AtRest, FlightsFine

LEMMA DialogKeepsDialog ==
  ASSUME DialogInv,
         \/ \E mode \in {"login", "register"}, from \in Pages : OpenDialog(mode, from)
         \/ Close
         \/ \E mode \in Modes : Switch(mode)
  PROVE  DialogInv'
  <1>1. TypeOK  BY DEF DialogInv
  <1>2. verified \in BOOLEAN /\ saved \in Pages \union {None} /\ dialog \in Dialog \union {None}
    BY <1>1 DEF TypeOK
  <1>3. ASSUME NEW d, SetDialog(d, None) PROVE FlightsFine(flights', dialog') /\ dialog' = d
    BY <1>3, FewerFlights DEF SetDialog
  <1>4. ASSUME NEW mode \in {"login", "register"}, NEW from \in Pages, OpenDialog(mode, from)
        PROVE  DialogInv'
    <2>1. [mode |-> mode, from |-> from, keep |-> FALSE] \in Dialog  BY DEF Dialog, Modes
    <2> QED BY <1>2, <1>3, <1>4, <2>1, AsideKeepsDialog DEF OpenDialog
  <1>5. CASE Close  BY <1>2, <1>3, <1>5, AsideKeepsDialog DEF Close, account
  <1>6. ASSUME NEW mode \in Modes, Switch(mode) PROVE DialogInv'
    <2>1. [dialog EXCEPT !.mode = mode] \in Dialog  BY <1>2, <1>6 DEF Switch, Dialog
    <2> QED BY <1>2, <1>3, <1>6, <2>1, AsideKeepsDialog DEF Switch
  <1> QED BY <1>4, <1>5, <1>6

LEMMA AskingKeepsDialog ==
  ASSUME DialogInv, Submit \/ StartGoogle \/ SubmitVerify
  PROVE  DialogInv'
  <1>1. TypeOK  BY DEF DialogInv
  <1>2. /\ verified \in BOOLEAN /\ saved \in Pages \union {None} /\ dialog \in Dialog \union {None}
        /\ left \in Form \union {None}
    BY <1>1 DEF TypeOK
  <1>3. dialog # None => dialog.from \in Pages  BY <1>2 DEF Dialog
  <1>4. CASE Submit
    <2>1. dialog # None /\ UNCHANGED <<place, dialog, verified, account, form, left>>
      BY <1>4 DEF Submit
    <2>2. CASE Ask("login", None) /\ saved' = saved
      <3>1. FlightsFine(flights', dialog)  BY <2>1, <2>2, AskFacts
      <3> QED BY <1>2, <2>1, <2>2, <3>1, AsideKeepsDialog
    <2>3. CASE Ask("register", dialog.from) /\ saved' = saved
      <3>1. FlightsFine(flights', dialog)  BY <1>3, <2>1, <2>3, AskFacts
      <3> QED BY <1>2, <2>1, <2>3, <3>1, AsideKeepsDialog
    <2>4. CASE Ask("forgot", None) /\ saved' = dialog.from
      <3>1. FlightsFine(flights', dialog)  BY <2>1, <2>4, AskFacts
      <3> QED BY <1>2, <1>3, <2>1, <2>4, <3>1, AsideKeepsDialog
    <2> QED BY <1>4, <2>2, <2>3, <2>4 DEF Submit
  <1>5. CASE StartGoogle
    <2>1. FlightsFine(flights', dialog)  BY <1>5, AskFacts DEF StartGoogle
    <2> QED BY <1>2, <1>3, <1>5, <2>1, AsideKeepsDialog DEF StartGoogle
  <1>6. CASE SubmitVerify
    <2>1. FlightsFine(flights', dialog)  BY <1>6, AskFacts DEF SubmitVerify
    <2> QED BY <1>2, <1>6, <2>1, AsideKeepsDialog DEF SubmitVerify
  <1> QED BY <1>4, <1>5, <1>6

LEMMA AnswerKeepsDialog ==
  ASSUME DialogInv, NEW f \in flights,
         \/ Refused(f) \/ Registered(f) \/ LinkMailed(f) \/ WindowCompletes(f)
         \/ \E mode \in {"login", "check-email"} : WindowResult(f, mode)
         \/ WindowClosed(f)
  PROVE  DialogInv'
  <1>1. TypeOK /\ FlightsHaveDialog(flights, dialog) /\ IsFiniteSet(flights)  BY DEF DialogInv
  <1>2. /\ verified \in BOOLEAN /\ saved \in Pages \union {None} /\ dialog \in Dialog \union {None}
        /\ left \in Form \union {None} /\ flights \subseteq Flight
        /\ Cardinality(flights) <= MaxFlights
    BY <1>1 DEF TypeOK
  <1>3. /\ f \in Flight /\ f.from \in Pages \union {None}
        /\ f.kind = "window" \/ (f.live /\ f.kind \notin {"verify", "here"}) => dialog # None
    BY <1>1, <1>2 DEF FlightsHaveDialog, Flight
  <1>4. ASSUME NEW d \in Dialog \union {None}, SetDialog(d, f)
        PROVE  FlightsFine(flights', dialog') /\ dialog' = d
    BY <1>4, FewerFlights DEF SetDialog
  <1>5. ASSUME Landed(f) PROVE FlightsFine(flights', dialog') /\ dialog' = dialog
    BY <1>5, FewerFlights DEF Landed
  <1>6. ASSUME dialog # None, NEW mode \in Modes PROVE [dialog EXCEPT !.mode = mode] \in Dialog
    BY <1>2, <1>6 DEF Dialog
  <1>7. ASSUME dialog # None PROVE [dialog EXCEPT !.keep = TRUE] \in Dialog
    BY <1>2, <1>7 DEF Dialog
  <1>8. {"login", "check-email"} \subseteq Modes  BY DEF Modes
  <1>9. CASE Refused(f)
    <2>1. FlightsFine(flights', dialog)  BY <1>9, FewerFlights DEF Refused
    <2> QED BY <1>2, <1>9, <2>1, AsideKeepsDialog DEF Refused
  <1>10. CASE Registered(f)
    <2>1. FlightsFine(flights', dialog') /\ dialog' \in Dialog \union {None}
      <3>1. CASE f.live
        <4>1. dialog # None /\ SetDialog([dialog EXCEPT !.mode = "check-email"], f)
          BY <1>3, <1>10, <3>1 DEF Registered
        <4> QED BY <1>4, <1>6, <1>8, <4>1
      <3>2. CASE ~ f.live  BY <1>2, <1>5, <1>10, <3>2 DEF Registered
      <3> QED BY <3>1, <3>2
    <2> QED BY <1>2, <1>3, <1>10, <2>1, AsideKeepsDialog DEF Registered
  <1>11. CASE LinkMailed(f)
    <2>1. FlightsFine(flights', dialog') /\ dialog' \in Dialog \union {None}
      <3>1. CASE f.live
        <4>1. dialog # None /\ SetDialog([dialog EXCEPT !.keep = TRUE], f)
          BY <1>3, <1>11, <3>1 DEF LinkMailed
        <4> QED BY <1>4, <1>7, <4>1
      <3>2. CASE ~ f.live  BY <1>2, <1>5, <1>11, <3>2 DEF LinkMailed
      <3> QED BY <3>1, <3>2
    <2> QED BY <1>2, <1>11, <2>1, AsideKeepsDialog DEF LinkMailed
  <1>12. CASE WindowCompletes(f)
    <2> DEFINE g == [f EXCEPT !.kind = "google"]
               rest == flights \ {f}
    <2>1. g \in Flight  BY <1>3 DEF Flight
    <2>2. dialog # None /\ flights' = rest \union {g}  BY <1>3, <1>12 DEF WindowCompletes
    <2> HIDE DEF g
    <2>3. IsFiniteSet(rest) /\ Cardinality(rest) = Cardinality(flights) - 1
      BY <1>1, FS_RemoveElement
    <2>4. rest \subseteq Flight  BY <1>2
    <2> HIDE DEF rest
    <2>5. Cardinality(rest) \in Nat /\ Cardinality(flights) \in Nat /\ MaxFlights \in Nat
      BY <1>1, <2>3, FS_CardinalityType
    <2>6. /\ IsFiniteSet(rest \union {g})
          /\ Cardinality(rest \union {g})
               = IF g \in rest THEN Cardinality(rest) ELSE Cardinality(rest) + 1
      BY <2>3, FS_AddElement
    <2>7. Cardinality(rest \union {g}) <= MaxFlights
      BY <1>2, <2>3, <2>5, <2>6
    <2>8. FlightsFine(flights', dialog)
      BY <2>1, <2>2, <2>4, <2>6, <2>7 DEF FlightsFine, FlightsHaveDialog
    <2> QED BY <1>2, <1>12, <2>8, AsideKeepsDialog DEF WindowCompletes
  <1>13. ASSUME NEW mode \in {"login", "check-email"}, WindowResult(f, mode) PROVE DialogInv'
    <2>1. dialog # None /\ SetDialog([dialog EXCEPT !.mode = mode], f)
      BY <1>3, <1>13 DEF WindowResult
    <2>2. FlightsFine(flights', dialog') /\ dialog' \in Dialog \union {None}
      BY <1>4, <1>6, <1>8, <2>1
    <2> QED BY <1>2, <1>13, <2>2, AsideKeepsDialog DEF WindowResult
  <1>14. CASE WindowClosed(f)
    <2>1. FlightsFine(flights', dialog') /\ dialog' = dialog  BY <1>5, <1>14 DEF WindowClosed
    <2> QED BY <1>2, <1>14, <2>1, AsideKeepsDialog DEF WindowClosed
  <1> QED BY <1>9, <1>10, <1>11, <1>12, <1>13, <1>14

LEMMA SignInKeepsDialog ==
  ASSUME DialogInv, NEW f \in flights, NEW who \in Accounts,
         SignedIn(f, who) \/ SignedInHere(f, who) \/ Verified(f, who)
  PROVE  DialogInv'
  <1>1. TypeOK /\ AtRest /\ FlightsHaveDialog(flights, dialog)  BY DEF DialogInv
  <1>2. /\ entry \in Entry /\ shown \in Entry /\ moving \in BOOLEAN /\ verified \in BOOLEAN
        /\ dialog \in Dialog \union {None} /\ flights \subseteq Flight
        /\ saved \in Pages \union {None} /\ left \in Form \union {None}
    BY <1>1 DEF TypeOK
  <1>3. /\ session' \in [user : BOOLEAN, ready : BOOLEAN, end : Handled] /\ stale' = TRUE
        /\ drafts' \in Drafts /\ OwnDrafts(drafts') /\ form' \in Form \union {None}
    <2>1. Accept(who)  BY DEF SignedIn, SignedInHere, Verified
    <2>2. session' \in [user : BOOLEAN, ready : BOOLEAN, end : Handled]
      BY <1>1, <2>1 DEF Accept, TypeOK, Handled
    <2> QED BY <2>1, <2>2, OwningFacts DEF Accept
  <1>4. \A p \in Pages : Plain(p) \in Entry /\ Plain(p).request = None
    BY EntryFacts DEF Paths
  <1>5. ASSUME FlightsFine(flights', dialog'), dialog' \in Dialog \union {None},
               entry' \in Entry, shown' = shown, moving' \in BOOLEAN, AtRest',
               verified' \in BOOLEAN, saved' \in Pages \union {None}, left' \in Form \union {None}
        PROVE  DialogInv'
    <2>1. TypeOK'  BY <1>2, <1>3, <1>5 DEF TypeOK, FlightsFine
    <2> QED BY <1>3, <1>5, <2>1 DEF DialogInv, FlightsFine
  <1>6. ASSUME Landed(f) PROVE FlightsFine(flights', dialog') /\ dialog' = dialog
    BY <1>6, FewerFlights DEF Landed
  <1>7. CASE SignedIn(f, who)
    <2>1. /\ saved' = None /\ shown' = shown /\ verified' = verified
          /\ left' \in Form \union {None}
      BY <1>2, <1>7 DEF SignedIn
    <2>2. FlightsFine(flights', dialog') /\ dialog' \in Dialog \union {None}
      <3>1. CASE f.live
        <4>1. SetDialog(None, f)  BY <1>7, <3>1 DEF SignedIn
        <4> QED BY <4>1, FewerFlights DEF SetDialog
      <3>2. CASE ~ f.live  BY <1>2, <1>6, <1>7, <3>2 DEF SignedIn
      <3> QED BY <3>1, <3>2
    <2>3. entry' \in Entry /\ moving' \in BOOLEAN /\ AtRest'
      <3>1. CASE f.live /\ dialog.from # shown.path
        <4>1. dialog # None  BY <1>1, <1>7, <3>1 DEF FlightsHaveDialog, SignedIn
        <4>2. dialog.from \in Pages  BY <1>2, <4>1 DEF Dialog
        <4>3. entry' = Plain(dialog.from) /\ moving' = TRUE  BY <1>7, <3>1 DEF SignedIn
        <4> QED BY <1>4, <4>2, <4>3 DEF AtRest
      <3>2. CASE ~ (f.live /\ dialog.from # shown.path)
        <4>1. entry' = entry /\ moving' = moving  BY <1>7, <3>2 DEF SignedIn
        <4> QED BY <1>1, <1>2, <4>1 DEF AtRest
      <3> QED BY <3>1, <3>2
    <2> QED BY <1>2, <1>5, <2>1, <2>2, <2>3
  <1>8. CASE SignedInHere(f, who)
    <2>1. Home \in Pages  BY <1>2, HomeFacts
    <2>2. /\ entry' = Plain(Home) /\ moving' = TRUE /\ saved' = None /\ left' = None
          /\ shown' = shown /\ verified' = verified /\ Landed(f)
      BY <1>8 DEF SignedInHere
    <2>3. entry' \in Entry /\ AtRest'  BY <1>4, <2>1, <2>2 DEF AtRest
    <2> QED BY <1>2, <1>5, <1>6, <2>2, <2>3
  <1>9. CASE Verified(f, who)
    <2>1. /\ UNCHANGED <<entry, shown, moving, dialog, saved>> /\ left' = None
          /\ verified' \in BOOLEAN /\ flights' = flights \ {f}
      BY <1>9 DEF Verified, place
    <2>2. FlightsFine(flights', dialog')  BY <2>1, FewerFlights
    <2>3. AtRest'  BY <1>1, <2>1 DEF AtRest
    <2> QED BY <1>2, <1>5, <2>1, <2>2, <2>3
  <1> QED BY <1>7, <1>8, <1>9

LEMMA GoToAppKeepsDialog == ASSUME DialogInv, GoToApp PROVE DialogInv'
  <1>1. /\ TypeOK /\ IsFiniteSet(flights) /\ FlightsHaveDialog(flights, dialog)
        /\ OwnDrafts(drafts)
    BY DEF DialogInv
  <1>2. (IF saved = None THEN "root" ELSE saved) \in Paths
    BY <1>1 DEF TypeOK, Paths, Pages
  <1>3. entry' \in Entry /\ moving' = TRUE  BY <1>2, EntryFacts DEF GoToApp
  <1>4. /\ UNCHANGED <<shown, dialog, flights, session, stale, drafts, form, left>>
        /\ saved' = None /\ verified' = FALSE
    BY DEF GoToApp, account
  <1>5. TypeOK'  BY <1>1, <1>3, <1>4 DEF TypeOK
  <1> QED BY <1>1, <1>3, <1>4, <1>5 DEF DialogInv, AtRest

LEMMA DialogInvariant == Spec => []DialogInv
  <1>1. Init => DialogInv
    <2> SUFFICES ASSUME Init PROVE DialogInv
      OBVIOUS
    <2>1. PICK p \in Addresses : entry = Plain(p)  BY DEF Init
    <2>2. entry \in Entry /\ shown \in Entry  BY <2>1, EntryFacts DEF Init, Paths
    <2>3. session \in [user : BOOLEAN, ready : BOOLEAN, end : Handled]  BY DEF Init, Handled
    <2>4. NoDrafts \in Drafts /\ OwnDrafts(NoDrafts)  BY DEF NoDrafts, Drafts, OwnDrafts
    <2>5. IsFiniteSet(flights) /\ Cardinality(flights) = 0  BY FS_EmptySet DEF Init
    <2>6. TypeOK
      <3>1. flights \subseteq Flight /\ Cardinality(flights) <= MaxFlights
        BY <2>5 DEF Init
      <3>2. /\ moving \in BOOLEAN /\ stale \in BOOLEAN /\ verified \in BOOLEAN
            /\ dialog = None /\ saved = None /\ form = None /\ left = None
            /\ drafts = NoDrafts
        BY DEF Init
      <3> QED BY <2>2, <2>3, <2>4, <3>1, <3>2 DEF TypeOK
    <2> QED BY <2>4, <2>5, <2>6 DEF DialogInv, Init, AtRest, FlightsHaveDialog
  <1>2. DialogInv /\ [Next]_vars => DialogInv'
    <2> SUFFICES ASSUME DialogInv, [Next]_vars PROVE DialogInv'
      OBVIOUS
    <2>1. CASE UNCHANGED vars
      <3>1. UNCHANGED <<entry, shown, moving, dialog, flights, verified, session, stale, drafts,
                        saved, form, left>>
        BY <2>1 DEF vars, place, account
      <3> QED BY <3>1 DEF DialogInv, TypeOK, AtRest
    <2>2. CASE Next
      BY <2>2, RenderKeepsDialog, CommitKeepsDialog, AccountKeepsDialog, TypeKeepsDialog,
         VisitorKeepsDialog, DialogKeepsDialog, AskingKeepsDialog, AnswerKeepsDialog,
         SignInKeepsDialog, GoToAppKeepsDialog
         DEF Next
    <2> QED BY <2>1, <2>2
  <1> QED BY <1>1, <1>2, PTL DEF Spec

\* The dialog, its requests, the place and the drafts keep their types: no
\* answer and no message of a Google window finds its dialog gone.
THEOREM DialogTyped == Spec => []TypeOK
  <1>1. DialogInv => TypeOK  BY DEF DialogInv
  <1> QED BY <1>1, DialogInvariant, PTL

\* However places, renderings and answers follow one another: a page at rest
\* holds no request that Back or a reload would open again (AuthDialogProvider).
THEOREM RequestsAskedOnce == Spec => []AskedOnce
  <1>1. DialogInv => AskedOnce  BY DEF DialogInv, AtRest, AskedOnce, Settled
  <1> QED BY <1>1, DialogInvariant, PTL

\* No form opens on a draft of another account's, nor on one from before a
\* sign-out (setOwner and recover of the form drafts).
THEOREM OwnTextOnly == Spec => OwnText
  <1>1. DialogInv /\ [Next]_vars
          => [form' # None /\ (form = None \/ form.page # form'.page)
                => form'.text \in {"blank", "own"}]_vars
    <2> SUFFICES ASSUME DialogInv, Next, form' # None, form = None \/ form.page # form'.page
                 PROVE  form'.text \in {"blank", "own"}
      OBVIOUS
    <2>1. (\E e : Mounted(e)) => form'.text \in {"blank", "own"}
      BY MountedFacts
    <2>2. Render \/ Commit => \E e : Mounted(e)  BY DEF Render, Commit
    <2>3. form' = form => FALSE  OBVIOUS
    <2>4. \A who : Owning(who) => FALSE  BY OwningFacts
    <2>5. ~ Fresh  BY DEF Fresh
    <2>6. ~ Type
      <3>1. form \in Form \union {None}  BY DEF DialogInv, TypeOK
      <3> QED BY <2>3, <3>1 DEF Type, Form
    <2>7. ~ SignOut /\ (\A who : ~ Restore(who))
      BY <2>3, <2>4 DEF SignOut, Restore
    <2>8. \A f, who : ~ SignedIn(f, who) /\ ~ SignedInHere(f, who) /\ ~ Verified(f, who)
      BY <2>4 DEF SignedIn, SignedInHere, Verified, Accept
    <2>9. ~ Expire /\ (\A p : ~ Follow(p)) /\ ~ Back
      BY <2>3 DEF Expire, Follow, Back, Go
    <2>10. ~ Reload /\ ~ OpenMailedLink /\ ~ StartGoogleHere
      BY <2>5 DEF Reload, OpenMailedLink, StartGoogleHere
    <2>11. (\A m, p : ~ OpenDialog(m, p)) /\ ~ Close /\ (\A m : ~ Switch(m)) /\ ~ Submit
           /\ ~ StartGoogle /\ ~ SubmitVerify /\ ~ GoToApp
      BY <2>3 DEF OpenDialog, Close, Switch, Submit, StartGoogle, SubmitVerify, GoToApp
    <2>12. \A f : /\ ~ Refused(f) /\ ~ Registered(f) /\ ~ LinkMailed(f) /\ ~ WindowCompletes(f)
                  /\ (\A m : ~ WindowResult(f, m)) /\ ~ WindowClosed(f)
      BY <2>3 DEF Refused, Registered, LinkMailed, WindowCompletes, WindowResult, WindowClosed
    <2> QED BY <2>1, <2>2, <2>6, <2>7, <2>8, <2>9, <2>10, <2>11, <2>12 DEF Next
  <1> QED BY <1>1, DialogInvariant, PTL DEF Spec, OwnText

-----------------------------------------------------------------------------
(* What an expiry takes from a visitor comes back to him.                   *)

FormOfPage == form # None => form.page = shown.path /\ session.ready

UserOwns == session.user => drafts.owned

TextKept == form # None /\ form.text = "own" => drafts.of[form.page] = "own"

\* The same visitor is signed in again and on the way back to the page p.
BackAtWork(p) ==
  /\ session.end = "none"
  /\ entry.path = p /\ shown.path \in {p, GuestDestination(p)}
  /\ form = None => IF shown.path = p THEN stale ELSE moving

\* The expiry is not rendered yet, ...
Leaving(p) ==
  /\ form = left /\ stale /\ session.end = "expired"
  /\ drafts.retaining /\ p \in drafts.recoverable
  /\ entry.path = p /\ shown.path = p

\* ... leaves a guest on a page that guests see too, ...
Staying(p) ==
  /\ form = None /\ p \notin Private
  /\ entry.path = p /\ shown.path = p

\* ... or is sending him to another, ...
Sent(p) ==
  /\ form = None /\ p \in Private /\ shown.path = p
  /\ entry = [path |-> GuestDestination(p), handled |-> "expired",
              request |-> [mode |-> "login", from |-> p]]
  /\ moving /\ ~ stale /\ dialog = None /\ session.end = "expired"

\* ... where the dialog offers to sign in again.
Offered(p) ==
  /\ form = None /\ p \in Private
  /\ entry.path = GuestDestination(p) /\ shown.path = GuestDestination(p)
  /\ entry.request = None
  /\ dialog # None /\ dialog.from = p /\ session.end = "none"

WorkKept ==
  left # None =>
    LET p == left.page IN
    /\ session.ready /\ left.text = "own" /\ drafts.owned /\ drafts.of[p] = "own"
    /\ form \in {None, left} /\ (form = None => p \in drafts.recoverable)
    /\ IF session.user THEN BackAtWork(p)
       ELSE Leaving(p) \/ Staying(p) \/ Sent(p) \/ Offered(p)

Standing ==
  /\ SentAway(entry) /\ SentAway(shown)
  /\ FormOfPage /\ UserOwns /\ TextKept

LEMMA FormPaths ==
  /\ Forms = {"add", "money"} /\ GuestDestination("add") = "coins"
  /\ GuestDestination("money") = "money"
  /\ "add" \in Private /\ "money" \notin Private /\ "coins" \notin Private
  /\ {"add", "money", "coins"} \subseteq Paths /\ "coins" \notin Forms
  BY DEF GuestDestination, Pages, Private, Forms, Paths

\* What a rendering makes of forms and drafts.
LEMMA MountedForm ==
  ASSUME DialogInv, Standing, NEW e, Mounted(e)
  PROVE  LET p == FormPage(e) IN
         /\ drafts'.owned = drafts.owned
         /\ p = None => form' = None
         /\ p # None => form' # None /\ form'.page = p
         /\ form # None /\ form.page = p => form' = form /\ drafts' = drafts
         /\ form = None /\ p \in drafts.recoverable /\ drafts.of[p] = "own" /\ drafts.owned
              => form' = [page |-> p, text |-> "own"] /\ drafts'.of[p] = "own"
         /\ p = None /\ (form = None \/ drafts.retaining) => drafts' = drafts
         /\ TextKept'
  <1> DEFINE before == IF form = None THEN None ELSE form.page
             kept == IF before = None THEN drafts ELSE Release(drafts, before)
             p == FormPage(e)
             text == Recovered(kept, p)
  <1>1. drafts \in Drafts /\ OwnDrafts(drafts) /\ form \in Form \union {None}
    BY DEF DialogInv, TypeOK
  <1>2. before \in Forms \union {None} /\ (before = None <=> form = None)
    BY <1>1, FormFacts DEF Form
  <1>3. p \in Forms \union {None}  BY DEF FormPage
  <1>4. kept \in Drafts /\ OwnDrafts(kept)  BY <1>1, <1>2, DraftFacts, OwnDraftFacts
  <1>5. kept.owned = drafts.owned /\ (drafts.retaining => kept = drafts)
        /\ (form = None => kept = drafts)
    BY <1>1, <1>2 DEF Release, Drafts
  <1>6. /\ p = before => UNCHANGED <<form, drafts>>
        /\ p # before /\ p = None => form' = None /\ drafts' = kept
        /\ p # before /\ p # None => /\ form' = [page |-> p, text |-> text]
                                     /\ drafts' = Write(kept, p, text)
    BY DEF Mounted
  <1>7. ASSUME p # None
        PROVE  /\ p \in Forms /\ text \in {"blank", "own"} /\ None \notin Form
               /\ text = "own" <=> p \in kept.recoverable
    <2>1. p \in Forms  BY <1>3, <1>7
    <2>2. text \in {"blank", "own"} /\ (text = "own" <=> p \in kept.recoverable)
      <3> HIDE DEF kept, p
      <3> QED BY <2>1, <1>4 DEF Recovered, OwnDrafts
    <2> QED BY <2>1, <2>2
  <1>8. ASSUME p # None
        PROVE  LET d == Write(kept, p, text) IN
               /\ d.owned = kept.owned
               /\ text = "own" => d.of[p] = "own"
    <2>1. p \in Forms /\ (text = "own" <=> p \in kept.recoverable) /\ kept.of[p] \in {"own", None}
          /\ (p \in kept.recoverable => kept.of[p] = "own")
      BY <1>3, <1>4, <1>7, <1>8 DEF OwnDrafts
    <2> HIDE DEF kept, p, text
    <2> QED BY <1>4, <2>1 DEF Write, Drafts
  <1> HIDE DEF kept, p, text
  <1>9. CASE p = before
    <2>1. form' = form /\ drafts' = drafts  BY <1>6, <1>9
    <2>2. TextKept'  BY <2>1 DEF Standing, TextKept
    <2>3. form # None => form.page = p  BY <1>9 DEF before
    <2>4. form = None => p = None /\ p \notin drafts.recoverable
      BY <1>1, <1>2, <1>9, FormFacts DEF Drafts
    <2>5. p = None => form = None  BY <1>2, <1>9
    <2> QED BY <2>1, <2>2, <2>3, <2>4, <2>5 DEF p
  <1>10. CASE p # before /\ p = None
    <2>1. form' = None /\ drafts' = kept  BY <1>6, <1>10
    <2>2. TextKept'  BY <2>1 DEF TextKept
    <2>3. None \notin drafts.recoverable  BY <1>1, FormFacts DEF Drafts
    <2> QED BY <1>2, <1>5, <1>10, <2>1, <2>2, <2>3 DEF p
  <1>11. CASE p # before /\ p # None
    <2>1. form' = [page |-> p, text |-> text] /\ drafts' = Write(kept, p, text)
      BY <1>6, <1>11
    <2>2. form' # None /\ form'.page = p /\ form'.text = text
      BY <1>7, <1>11, <2>1 DEF Form, Texts
    <2>3. drafts'.owned = drafts.owned /\ (text = "own" => drafts'.of[p] = "own")
      BY <1>5, <1>8, <1>11, <2>1
    <2>4. TextKept'  BY <2>2, <2>3 DEF TextKept
    <2>5. form = None /\ p \in drafts.recoverable
            => form' = [page |-> p, text |-> "own"] /\ drafts'.of[p] = "own"
      BY <1>5, <1>7, <1>11, <2>1, <2>3
    <2>6. ~ (form # None /\ form.page = p)  BY <1>11 DEF before
    <2>7. /\ drafts'.owned = drafts.owned /\ p # None /\ form' # None /\ form'.page = p
      BY <1>11, <2>2, <2>3
    <2> QED BY <2>4, <2>5, <2>6, <2>7 DEF p
  <1> QED BY <1>9, <1>10, <1>11

LEMMA RenderingStands ==
  ASSUME DialogInv, Standing, Render \/ Commit
  PROVE  Standing'
  <1>1. TypeOK  BY DEF DialogInv
  <1>2. SentAway(entry') /\ (shown' = shown \/ shown' = entry) /\ Mounted(shown')
        /\ session'.ready = session.ready /\ session'.user = session.user
    <2>1. session \in [user : BOOLEAN, ready : BOOLEAN, end : Handled]  BY <1>1 DEF TypeOK
    <2>2. CASE Render
      <3> DEFINE w == EndEffect(RedirectEffect(Unaffected, shown, TRUE), shown)
      <3>1. SentAway(w.entry)  BY <1>1, RenderEffects DEF Standing
      <3>2. Affected(w) /\ Mounted(shown) /\ shown' = shown  BY <2>2 DEF Render
      <3> HIDE DEF w
      <3> QED BY <2>1, <3>1, <3>2 DEF Affected
    <2>3. CASE Commit
      <3> DEFINE opened == entry.path # shown.path
                 w1 == RedirectEffect(Unaffected, entry, opened)
                 w2 == IF opened THEN PathEffect(w1) ELSE w1
                 w == EndEffect(RequestEffect(w2, entry), entry)
      <3>1. SentAway(w.entry)  BY <1>1, CommitEffects DEF Standing
      <3>2. Affected(w) /\ Mounted(entry) /\ shown' = entry  BY <2>3 DEF Commit
      <3> HIDE DEF w
      <3> QED BY <2>1, <3>1, <3>2 DEF Affected
    <2> QED BY <2>2, <2>3
  <1>3. SentAway(shown')  BY <1>2 DEF Standing
  <1>4. TextKept' /\ drafts'.owned = drafts.owned
        /\ (form' # None => FormPage(shown') # None /\ form'.page = FormPage(shown'))
    BY <1>2, MountedForm
  <1>5. FormOfPage'  BY <1>2, <1>4 DEF FormOfPage, FormPage
  <1>6. UserOwns'  BY <1>2, <1>4 DEF Standing, UserOwns
  <1> QED BY <1>2, <1>3, <1>4, <1>5, <1>6 DEF Standing, SentAway

LEMMA OwningStands ==
  ASSUME DialogInv, Standing, NEW who, Owning(who)
  PROVE  /\ TextKept' /\ (who # "none" /\ who \in Accounts => drafts'.owned)
         /\ form' # None => form # None /\ form'.page = form.page
         /\ who = "same" => form' = form /\ drafts' = [drafts EXCEPT !.retaining = FALSE]
  <1>1. drafts \in Drafts /\ form \in Form \union {None}  BY DEF DialogInv, TypeOK
  <1>2. CASE who = "same"
    <2>1. form' = form /\ drafts' = [drafts EXCEPT !.retaining = FALSE] /\ drafts.owned
      BY <1>2 DEF Owning, SetOwner
    <2>2. drafts'.of = drafts.of /\ drafts'.owned  BY <1>1, <2>1 DEF Drafts
    <2> QED BY <2>1, <2>2 DEF Standing, TextKept
  <1>3. CASE who # "same"
    <2>1. who \in Accounts => drafts'.owned
      BY <1>3 DEF Owning, SetOwner, NoDrafts, Accounts
    <2>2. form' # None => form # None /\ form'.page = form.page /\ form'.text # "own"
      <3>1. CASE form = None  BY <1>3, <3>1 DEF Owning
      <3>2. CASE form # None
        <4>1. form \in Form /\ form' = [form EXCEPT !.text = Aged(form.text)]
          BY <1>1, <1>3, <3>2 DEF Owning
        <4>2. form'.page = form.page /\ form'.text = Aged(form.text)  BY <4>1 DEF Form
        <4> QED BY <3>2, <4>2 DEF Aged
      <3> QED BY <3>1, <3>2
    <2> QED BY <1>3, <2>1, <2>2 DEF TextKept
  <1> QED BY <1>2, <1>3

\* Pages of forms, and the one their guests are sent to, send nobody on.
LEMMA NoRedirect ==
  ASSUME NEW w, NEW e, NEW opened, e.path \in {"add", "money", "coins"},
         e.path = "add" => session.user \/ session.end # "none"
  PROVE  RedirectEffect(w, e, opened) = w
  BY DEF RedirectEffect, Redirects, Private

\* What a form left by an expiry is.
LEMMA LeftFacts ==
  ASSUME TypeOK, left # None, left.text = "own"
  PROVE  /\ left.page \in Forms /\ left = [page |-> left.page, text |-> "own"]
         /\ left.page # GuestDestination(left.page) <=> left.page = "add"
         /\ left.page \in Private <=> left.page = "add"
         /\ {left.page, GuestDestination(left.page)} \subseteq {"add", "money", "coins"}
         /\ GuestDestination(left.page) # "add" /\ GuestDestination(GuestDestination(left.page)) = GuestDestination(left.page)
  <1>1. left \in Form  BY DEF TypeOK
  <1>2. left.page \in Forms /\ left = [page |-> left.page, text |-> "own"]  BY <1>1 DEF Form
  <1>3. GuestDestination("coins") = "coins"  BY DEF GuestDestination, Pages
  <1> QED BY <1>2, <1>3, FormPaths

LEMMA RenderKeepsWork ==
  ASSUME DialogInv, Standing, WorkKept, Render
  PROVE  WorkKept'
  <1> DEFINE w == EndEffect(RedirectEffect(Unaffected, shown, TRUE), shown)
             p == left.page
             go == GuestDestination(p)
             page_ == FormPage(shown)
  <1>1. Affected(w) /\ moving' = (moving \/ w.moved) /\ Mounted(shown) /\ shown' = shown /\ stale
    BY DEF Render
  <1>2. TypeOK /\ session \in [user : BOOLEAN, ready : BOOLEAN, end : Handled]
        /\ entry \in Entry /\ shown \in Entry
    BY DEF DialogInv, TypeOK
  <1>3. SUFFICES ASSUME left # None PROVE WorkKept'
    BY <1>1 DEF WorkKept, Affected
  <1>4. /\ session.ready /\ left.text = "own" /\ drafts.owned /\ drafts.of[p] = "own"
        /\ form \in {None, left} /\ (form = None => p \in drafts.recoverable)
        /\ IF session.user THEN BackAtWork(p)
           ELSE Leaving(p) \/ Staying(p) \/ Sent(p) \/ Offered(p)
    BY <1>3 DEF WorkKept
  <1>5. /\ p \in Forms /\ left = [page |-> p, text |-> "own"] /\ left.page = p
        /\ p # go <=> p = "add"
        /\ p \in Private <=> p = "add"
        /\ p \in {"add", "money", "coins"} /\ go \in {"add", "money", "coins"}
        /\ go # "add" /\ GuestDestination(go) = go /\ p # None
        /\ go \notin Forms \/ go = p
    BY <1>2, <1>3, <1>4, LeftFacts, FormPaths, FormFacts
  <1>6. shown.path \in {p, go} /\ (session.user \/ session.end # "none" \/ shown.path # "add")
    BY <1>1, <1>4, <1>5 DEF BackAtWork, Leaving, Staying, Sent, Offered
  <1>7. w = EndEffect(Unaffected, shown)
    <2>1. ASSUME NEW o PROVE RedirectEffect(Unaffected, shown, o) = Unaffected
      BY <1>5, <1>6, NoRedirect
    <2>2. RedirectEffect(Unaffected, shown, TRUE) = Unaffected  BY <2>1, Zenon
    <2> QED BY <2>2
  <1> HIDE DEF w
  <1>8. /\ session.end = "none" => w = Unaffected
        /\ session.end # "none" /\ shown.handled = session.end =>
             /\ w.end = "none" /\ w.dialog = dialog
             /\ w.entry = entry \/ w.entry = Plain(shown.path)
        /\ session.end # "none" /\ shown.handled # session.end =>
             /\ w.end = session.end /\ w.dialog = None /\ w.moved
             /\ w.entry.path = GuestDestination(shown.path) /\ w.entry.handled = session.end
             /\ session.end = "expired"
                  => w.entry.request = [mode |-> "login", from |-> shown.path]
        /\ w.entry \in Entry
    <2>1. /\ Unaffected \in Effects /\ Unaffected.entry = entry /\ Unaffected.dialog = dialog
          /\ Unaffected.end = session.end
      BY <1>2, UnaffectedFacts
    <2>2. w \in Effects  BY <1>2, <1>7, <2>1, EndEffectFacts
    <2>3. w.entry \in Entry  BY <2>2 DEF Effects
    <2> HIDE DEF p, go
    <2> QED BY <1>2, <1>7, <2>1, <2>3, EndEffectFacts
  <1>9. Plain(shown.path).path = shown.path  BY <1>2, EntryFacts DEF Entry
  <1>10. /\ entry' = w.entry /\ dialog' = w.dialog /\ session'.end = w.end
         /\ session'.user = session.user /\ session'.ready = session.ready
         /\ stale' = (w.end # session.end) /\ left' = left
    BY <1>1, <1>2 DEF Affected
  <1>11. /\ Unaffected.entry = entry /\ Unaffected.dialog = dialog
         /\ Unaffected.end = session.end /\ ~ Unaffected.moved
    BY <1>2, UnaffectedFacts
  <1>12. /\ drafts'.owned = drafts.owned
         /\ page_ = None => form' = None
         /\ form # None /\ form.page = page_ => form' = form /\ drafts' = drafts
         /\ form = None /\ page_ \in drafts.recoverable /\ drafts.of[page_] = "own"
            /\ drafts.owned => form' = [page |-> page_, text |-> "own"] /\ drafts'.of[page_] = "own"
         /\ page_ = None /\ (form = None \/ drafts.retaining) => drafts' = drafts
    BY <1>1, MountedForm
  <1>13. form # None => form.page = shown.path  BY DEF Standing, FormOfPage
  <1>14. page_ = IF session.user /\ shown.path \in Forms THEN shown.path ELSE None
    BY <1>4 DEF FormPage
  <1>15. CASE session.user
    <2>1. BackAtWork(p) /\ w = Unaffected  BY <1>4, <1>8, <1>15 DEF BackAtWork
    <2>2. entry' = entry /\ session'.end = "none" /\ shown'.path = shown.path
          /\ (moving => moving')
      BY <1>1, <1>10, <1>11, <2>1 DEF BackAtWork
    <2>3. CASE shown.path = p
      <3>1. page_ = p  BY <1>5, <1>14, <1>15, <2>3
      <3>2. form' = left /\ drafts'.of[p] = "own"
        <4>1. CASE form = left  BY <1>3, <1>4, <1>5, <1>12, <3>1, <4>1
        <4>2. CASE form = None  BY <1>4, <1>5, <1>12, <3>1, <4>2
        <4> QED BY <1>4, <4>1, <4>2
      <3>3. BackAtWork(p)'
        BY <1>3, <1>6, <1>10, <2>1, <2>2, <3>2 DEF BackAtWork
      <3> QED BY <1>3, <1>4, <1>10, <1>12, <1>15, <3>2, <3>3 DEF WorkKept
    <2>4. CASE shown.path # p
      <3>1. form = None  BY <1>3, <1>4, <1>5, <1>13, <2>4
      <3>2. page_ = None  BY <1>5, <1>6, <1>14, <2>4
      <3>3. form' = None /\ drafts' = drafts  BY <1>12, <3>1, <3>2
      <3>4. moving  BY <2>1, <2>4, <3>1 DEF BackAtWork
      <3>5. BackAtWork(p)'
        BY <1>10, <2>1, <2>2, <2>4, <3>3, <3>4 DEF BackAtWork
      <3> QED BY <1>3, <1>4, <1>10, <1>15, <3>1, <3>3, <3>5 DEF WorkKept
    <2> QED BY <2>3, <2>4
  <1>16. CASE ~ session.user
    <2>1. page_ = None /\ form' = None  BY <1>12, <1>14, <1>16
    <2>2. drafts' = drafts /\ p \in drafts.recoverable
      BY <1>4, <1>12, <1>16, <2>1 DEF Leaving, Staying, Sent, Offered
    <2>3. SUFFICES (Leaving(p) \/ Staying(p) \/ Sent(p) \/ Offered(p))'
      BY <1>3, <1>4, <1>10, <1>16, <2>1, <2>2 DEF WorkKept
    <2>4. CASE Leaving(p) \/ Staying(p)
      <3>1. shown.path = p /\ entry.path = p  BY <2>4 DEF Leaving, Staying
      <3>2. CASE p # "add"
        <4>1. go = p  BY <1>5, <3>2
        <4>2. w.entry.path = p  BY <1>8, <1>9, <1>11, <3>1, <4>1
        <4>3. Staying(p)'  BY <1>1, <1>5, <1>10, <2>1, <3>1, <3>2, <4>2 DEF Staying
        <4> QED BY <4>3
      <3>3. CASE p = "add"
        <4>1. session.end = "expired"  BY <1>5, <2>4, <3>3 DEF Leaving, Staying
        <4>2. shown.handled = "none"  BY <1>5, <3>1, <3>3 DEF Standing, SentAway
        <4>3. /\ w.end = "expired" /\ w.dialog = None /\ w.moved
              /\ w.entry.path = go /\ w.entry.handled = "expired"
              /\ w.entry.request = [mode |-> "login", from |-> p]
          BY <1>8, <3>1, <4>1, <4>2
        <4>4. w.entry = [path |-> go, handled |-> "expired",
                         request |-> [mode |-> "login", from |-> p]]
          BY <1>8, <4>3 DEF Entry
        <4>5. Sent(p)'
          BY <1>1, <1>5, <1>10, <2>1, <3>1, <3>3, <4>1, <4>3, <4>4 DEF Sent
        <4> QED BY <4>5
      <3> QED BY <3>2, <3>3
    <2>5. CASE Sent(p)  BY <1>1, <2>5 DEF Sent
    <2>6. CASE Offered(p)
      <3>1. w = Unaffected  BY <1>8, <2>6 DEF Offered
      <3>2. Offered(p)'  BY <1>1, <1>10, <1>11, <2>1, <2>6, <3>1 DEF Offered
      <3> QED BY <3>2
    <2> QED BY <1>4, <1>16, <2>4, <2>5, <2>6
  <1> QED BY <1>15, <1>16

LEMMA CommitKeepsWork ==
  ASSUME DialogInv, Standing, WorkKept, Commit
  PROVE  WorkKept'
  <1> DEFINE opened == entry.path # shown.path
             w1 == RedirectEffect(Unaffected, entry, opened)
             w2 == IF opened THEN PathEffect(w1) ELSE w1
             w3 == RequestEffect(w2, entry)
             w == EndEffect(w3, entry)
             p == left.page
             go == GuestDestination(p)
             page_ == FormPage(entry)
  <1>1. Affected(w) /\ moving' = w.moved /\ Mounted(entry) /\ shown' = entry /\ moving /\ ~ stale
    BY DEF Commit
  <1>2. TypeOK /\ session \in [user : BOOLEAN, ready : BOOLEAN, end : Handled]
        /\ entry \in Entry /\ shown \in Entry
    BY DEF DialogInv, TypeOK
  <1>3. SUFFICES ASSUME left # None PROVE WorkKept'
    BY <1>1 DEF WorkKept, Affected
  <1>4. /\ session.ready /\ left.text = "own" /\ drafts.owned /\ drafts.of[p] = "own"
        /\ form \in {None, left} /\ (form = None => p \in drafts.recoverable)
        /\ IF session.user THEN BackAtWork(p)
           ELSE Leaving(p) \/ Staying(p) \/ Sent(p) \/ Offered(p)
    BY <1>3 DEF WorkKept
  <1>5. /\ p \in Forms /\ left = [page |-> p, text |-> "own"] /\ left.page = p
        /\ p # go <=> p = "add"
        /\ p \in Private <=> p = "add"
        /\ p \in {"add", "money", "coins"} /\ go \in {"add", "money", "coins"}
        /\ go # "add" /\ GuestDestination(go) = go /\ p # None
        /\ go \notin Forms \/ go = p
        /\ p \in Pages
    BY <1>2, <1>3, <1>4, LeftFacts, FormPaths, FormFacts DEF Pages
  <1>6. /\ entry.path \in {p, go} /\ ~ Leaving(p)
        /\ session.user \/ session.end # "none" \/ entry.path # "add"
    <2>1. ~ Leaving(p)  BY <1>1 DEF Leaving
    <2>2. Sent(p) => entry.path = go  BY DEF Sent
    <2> QED BY <1>1, <1>4, <1>5, <2>1, <2>2 DEF BackAtWork, Staying, Offered
  <1>7. w1 = Unaffected  BY <1>5, <1>6, NoRedirect
  <1>8. /\ Unaffected \in Effects /\ Unaffected.entry = entry /\ Unaffected.dialog = dialog
        /\ Unaffected.end = session.end
    BY <1>2, UnaffectedFacts
  <1> HIDE DEF w1
  <1>9. /\ w2 \in Effects /\ w2.entry = entry /\ w2.end = session.end
        /\ ~ opened => w2 = Unaffected
    BY <1>7, <1>8, PathEffectFacts
  <1> HIDE DEF w2
  <1>10. /\ w3 \in Effects /\ w3.end = session.end /\ w3.entry.path = entry.path
         /\ entry.request = None => w3 = w2
         /\ entry.request # None => /\ w3.moved /\ w3.entry.request = None /\ w3.dialog # None
                                    /\ entry.request.from \in Pages
                                         => w3.dialog.from = entry.request.from
    BY <1>2, <1>9, RequestEffectFacts
  <1> HIDE DEF w3
  <1>11. /\ session.end = "none" => w = w3
         /\ session.end # "none" /\ entry.handled = session.end =>
              /\ w.end = "none" /\ w.dialog = w3.dialog
              /\ entry.request # None => w.entry = w3.entry
              /\ w.entry = w3.entry \/ w.entry = Plain(entry.path)
         /\ session.end # "none" /\ entry.handled # session.end =>
              w.entry.path = GuestDestination(entry.path)
    <2> HIDE DEF p, go, page_, opened
    <2>1. w3 \in Effects /\ w3.end = session.end  BY <1>10
    <2>2. /\ w3.end = "none" => w = w3
          /\ w3.end # "none" /\ entry.handled = w3.end =>
               /\ w.end = "none" /\ w.dialog = w3.dialog
               /\ \/ w.entry = w3.entry
                  \/ entry.request = None /\ w.entry = Plain(entry.path)
          /\ w3.end # "none" /\ entry.handled # w3.end =>
               w.entry.path = GuestDestination(entry.path)
      BY <1>2, <2>1, EndEffectFacts
    <2> QED BY <2>1, <2>2
  <1> HIDE DEF w
  <1>12. Plain(entry.path).path = entry.path  BY <1>2, EntryFacts DEF Entry
  <1>13. /\ entry' = w.entry /\ dialog' = w.dialog /\ session'.end = w.end
         /\ session'.user = session.user /\ session'.ready = session.ready
         /\ stale' = (w.end # session.end) /\ left' = left
    BY <1>1, <1>2 DEF Affected, w, w1, w2, w3
  <1>14. /\ drafts'.owned = drafts.owned
         /\ page_ = None => form' = None
         /\ form # None /\ form.page = page_ => form' = form /\ drafts' = drafts
         /\ form = None /\ page_ \in drafts.recoverable /\ drafts.of[page_] = "own"
            /\ drafts.owned => form' = [page |-> page_, text |-> "own"] /\ drafts'.of[page_] = "own"
         /\ page_ = None /\ (form = None \/ drafts.retaining) => drafts' = drafts
    BY <1>1, MountedForm
  <1>15. page_ = IF session.user /\ entry.path \in Forms THEN entry.path ELSE None
    BY <1>4 DEF FormPage
  <1>16. CASE session.user
    <2>1. BackAtWork(p) /\ w = w3 /\ page_ = p  BY <1>4, <1>5, <1>11, <1>15, <1>16 DEF BackAtWork
    <2>2. form' = left /\ drafts'.of[p] = "own"
      <3>1. CASE form = left  BY <1>3, <1>4, <1>5, <1>14, <2>1, <3>1
      <3>2. CASE form = None  BY <1>4, <1>5, <1>14, <2>1, <3>2
      <3> QED BY <1>4, <3>1, <3>2
    <2>3. BackAtWork(p)'
      BY <1>1, <1>3, <1>10, <1>13, <2>1, <2>2 DEF BackAtWork
    <2> QED BY <1>3, <1>4, <1>13, <1>14, <1>16, <2>2, <2>3 DEF WorkKept
  <1>17. CASE ~ session.user
    <2>1. page_ = None /\ form = None /\ form' = None
      BY <1>4, <1>6, <1>14, <1>15, <1>17 DEF Staying, Sent, Offered
    <2>2. drafts' = drafts /\ p \in drafts.recoverable  BY <1>4, <1>14, <2>1
    <2>3. SUFFICES (Staying(p) \/ Offered(p))'
      BY <1>3, <1>4, <1>13, <1>17, <2>1, <2>2 DEF WorkKept
    <2>4. CASE Staying(p)
      <3>1. entry.path = p /\ go = p  BY <1>5, <2>4 DEF Staying
      <3>2. w.entry.path = p  BY <1>10, <1>11, <1>12, <3>1
      <3>3. Staying(p)'  BY <1>1, <1>13, <2>1, <2>4, <3>1, <3>2 DEF Staying
      <3> QED BY <3>3
    <2>5. CASE Sent(p)
      <3>1. /\ entry.path = go /\ entry.handled = "expired" /\ session.end = "expired"
            /\ entry.request = [mode |-> "login", from |-> p] /\ p \in Private
        BY <2>5 DEF Sent
      <3>2. entry.request # None /\ entry.request.from = p
        <4>1. entry.request \in Request  BY <1>5, <3>1 DEF Request, Modes, Paths
        <4> QED BY <3>1, <4>1
      <3>3. /\ w.end = "none" /\ w.dialog # None /\ w.dialog.from = p
            /\ w.entry.path = go /\ w.entry.request = None
        BY <1>5, <1>10, <1>11, <3>1, <3>2
      <3>4. Offered(p)'  BY <1>1, <1>13, <2>1, <3>1, <3>3 DEF Offered
      <3> QED BY <3>4
    <2>6. CASE Offered(p)
      <3>1. w = Unaffected  BY <1>9, <1>10, <1>11, <2>6 DEF Offered
      <3>2. Offered(p)'  BY <1>1, <1>8, <1>13, <2>1, <2>6, <3>1 DEF Offered
      <3> QED BY <3>2
    <2> QED BY <1>4, <1>6, <1>17, <2>4, <2>5, <2>6
  <1> QED BY <1>16, <1>17

WorkInv == Standing /\ WorkKept

\* A step that leaves the place, the account and the form, and the dialog on
\* the page it came from.
LEMMA AsideKeepsWork ==
  ASSUME WorkInv, UNCHANGED <<place, account, form>>,
         \/ left' = None
         \/ /\ left' = left
            /\ \/ dialog' = dialog
               \/ dialog # None /\ dialog' # None /\ dialog'.from = dialog.from
  PROVE  WorkInv'
  <1>1. UNCHANGED <<entry, shown, moving, session, stale, drafts, form>>
    BY DEF place, account
  <1>2. Standing'
    BY <1>1 DEF WorkInv, Standing, SentAway, FormOfPage, UserOwns, TextKept
  <1>3. CASE left' = None  BY <1>2, <1>3 DEF WorkInv, WorkKept
  <1>4. CASE /\ left' = left
             /\ \/ dialog' = dialog
                \/ dialog # None /\ dialog' # None /\ dialog'.from = dialog.from
    <2>1. WorkKept'
      <3>1. SUFFICES ASSUME left # None PROVE WorkKept'
        BY <1>4 DEF WorkKept
      <3> DEFINE p == left.page
      <3>2. IF session.user THEN BackAtWork(p)
            ELSE Leaving(p) \/ Staying(p) \/ Sent(p) \/ Offered(p)
        BY <3>1 DEF WorkInv, WorkKept
      <3>3. /\ BackAtWork(p) => BackAtWork(p)'
            /\ Leaving(p) => Leaving(p)'
            /\ Staying(p) => Staying(p)'
            /\ Sent(p) => Sent(p)'
            /\ Offered(p) => Offered(p)'
        <4>1. BackAtWork(p) => BackAtWork(p)'  BY <1>1, <1>4 DEF BackAtWork
        <4>2. Leaving(p) => Leaving(p)'  BY <1>1, <1>4 DEF Leaving
        <4>3. Staying(p) => Staying(p)'  BY <1>1, <1>4 DEF Staying
        <4>4. Sent(p) => Sent(p)'  BY <1>1, <1>4 DEF Sent
        <4>5. Offered(p) => Offered(p)'  BY <1>1, <1>4 DEF Offered
        <4> QED BY <4>1, <4>2, <4>3, <4>4, <4>5
      <3> QED BY <1>1, <1>4, <3>1, <3>2, <3>3 DEF WorkInv, WorkKept
    <2> QED BY <1>2, <2>1 DEF WorkInv
  <1> QED BY <1>3, <1>4

LEMMA DialogKeepsWork ==
  ASSUME DialogInv, WorkInv,
         \/ \E mode \in {"login", "register"}, from \in Pages : OpenDialog(mode, from)
         \/ Close
         \/ \E mode \in Modes : Switch(mode)
         \/ Submit \/ StartGoogle \/ SubmitVerify
         \/ \E f \in flights :
              \/ Refused(f) \/ Registered(f) \/ LinkMailed(f) \/ WindowCompletes(f)
              \/ \E mode \in {"login", "check-email"} : WindowResult(f, mode)
              \/ WindowClosed(f)
  PROVE  WorkInv'
  <1>1. TypeOK /\ FlightsHaveDialog(flights, dialog)  BY DEF DialogInv
  <1>2. dialog \in Dialog \union {None}  BY <1>1 DEF TypeOK
  <1>3. ASSUME dialog # None, NEW mode \in Modes
        PROVE  [dialog EXCEPT !.mode = mode] # None /\ [dialog EXCEPT !.mode = mode].from = dialog.from
    BY <1>2, <1>3 DEF Dialog
  <1>4. ASSUME dialog # None
        PROVE  [dialog EXCEPT !.keep = TRUE] # None /\ [dialog EXCEPT !.keep = TRUE].from = dialog.from
    BY <1>2, <1>4 DEF Dialog
  <1>5. ASSUME \/ \E mode \in {"login", "register"}, from \in Pages : OpenDialog(mode, from)
               \/ Close
               \/ \E mode \in Modes : Switch(mode)
        PROVE  UNCHANGED <<place, account, form>> /\ left' = None
    BY <1>5 DEF OpenDialog, Close, Switch, account
  <1>6. ASSUME Submit \/ StartGoogle \/ SubmitVerify
        PROVE  UNCHANGED <<place, account, form>> /\ left' = left /\ dialog' = dialog
    BY <1>6 DEF Submit, StartGoogle, SubmitVerify
  <1>7. ASSUME NEW f \in flights,
               \/ Refused(f) \/ Registered(f) \/ LinkMailed(f) \/ WindowCompletes(f)
               \/ \E mode \in {"login", "check-email"} : WindowResult(f, mode)
               \/ WindowClosed(f)
        PROVE  /\ UNCHANGED <<place, account, form>> /\ left' = left
               /\ \/ dialog' = dialog
                  \/ dialog # None /\ dialog' # None /\ dialog'.from = dialog.from
    <2>1. UNCHANGED <<place, account, form>> /\ left' = left
      BY <1>7 DEF Refused, Registered, LinkMailed, WindowCompletes, WindowResult, WindowClosed
    <2>2. f.kind = "window" \/ (f.live /\ f.kind \notin {"verify", "here"}) => dialog # None
      BY <1>1 DEF FlightsHaveDialog
    <2>3. "login" \in Modes /\ "check-email" \in Modes  BY DEF Modes
    <2>4. CASE Refused(f) \/ WindowCompletes(f) \/ WindowClosed(f)
      BY <2>1, <2>4 DEF Refused, WindowCompletes, WindowClosed, Landed
    <2>5. CASE Registered(f)
      <3>1. dialog' = dialog \/ (dialog # None /\ dialog' = [dialog EXCEPT !.mode = "check-email"])
        BY <2>2, <2>5 DEF Registered, SetDialog, Landed
      <3> DEFINE d == [dialog EXCEPT !.mode = "check-email"]
      <3>2. dialog # None => d # None /\ d.from = dialog.from
        <4>1. dialog # None => d \in Dialog /\ d.from = dialog.from
          BY <1>2 DEF Dialog, Modes
        <4> HIDE DEF d
        <4> QED BY <4>1
      <3> HIDE DEF d
      <3> QED BY <2>1, <3>1, <3>2 DEF d
    <2>6. CASE LinkMailed(f)
      <3>1. dialog' = dialog \/ (dialog # None /\ dialog' = [dialog EXCEPT !.keep = TRUE])
        BY <2>2, <2>6 DEF LinkMailed, SetDialog, Landed
      <3> QED BY <1>4, <2>1, <3>1
    <2>7. ASSUME NEW mode \in {"login", "check-email"}, WindowResult(f, mode)
          PROVE  dialog # None /\ dialog' # None /\ dialog'.from = dialog.from
      <3>1. mode \in Modes  BY <2>3
      <3>2. dialog # None /\ dialog' = [dialog EXCEPT !.mode = mode]
        BY <2>2, <2>7 DEF WindowResult, SetDialog
      <3> QED BY <1>3, <3>1, <3>2
    <2> QED BY <1>7, <2>1, <2>4, <2>5, <2>6, <2>7
  <1> QED BY <1>5, <1>6, <1>7, AsideKeepsWork

LEMMA VisitorKeepsWork ==
  ASSUME DialogInv, WorkInv,
         \/ \E p \in Addresses : Follow(p)
         \/ Back \/ Reload \/ OpenMailedLink \/ StartGoogleHere \/ GoToApp
  PROVE  WorkInv'
  <1>1. Standing /\ TypeOK  BY DEF DialogInv, WorkInv
  <1>2. ASSUME NEW p \in Paths PROVE SentAway(Plain(p))
    BY EntryFacts DEF SentAway
  <1>3. ASSUME NEW e, SentAway(e), Go(e) PROVE WorkInv'
    <2>1. entry' = e /\ left' = None /\ UNCHANGED <<shown, session, stale, drafts, form>>
      BY <1>3 DEF Go, account
    <2> QED BY <1>1, <1>3, <2>1
            DEF WorkInv, WorkKept, Standing, SentAway, FormOfPage, UserOwns, TextKept
  <1>4. ASSUME Fresh, SentAway(entry'), SentAway(shown') PROVE WorkInv'
    <2>1. form' = None /\ left' = None /\ ~ session'.user  BY <1>4 DEF Fresh
    <2> QED BY <1>4, <2>1 DEF WorkInv, WorkKept, Standing, SentAway, FormOfPage, UserOwns, TextKept
  <1>5. ASSUME NEW p \in Addresses, Follow(p) PROVE WorkInv'
    <2>1. p \in Paths  BY DEF Paths
    <2> QED BY <1>2, <1>3, <1>5, <2>1 DEF Follow
  <1>6. CASE Back
    <2>1. PICK e \in Earlier : Go(e)  BY <1>6 DEF Back
    <2>2. ASSUME NEW p \in Addresses PROVE p \in Paths /\ GuestDestination(p) \notin Private
                                           /\ GuestDestination(p) \in Paths
      BY GuestDestinationFacts DEF Paths
    <2>3. SentAway(e)
      <3>1. CASE e \in {Plain(p) : p \in Addresses}
        BY <1>2, <2>2, <3>1
      <3>2. CASE e \in [path : {GuestDestination(p) : p \in Addresses},
                        handled : {"none", "expired"}, request : {None}]
        BY <2>2, <3>2 DEF SentAway
      <3>3. ASSUME NEW p \in Addresses, NEW h \in {"none", "expired"},
                   e = [Asking(GuestDestination(p), "login", p) EXCEPT !.handled = h]
            PROVE  SentAway(e)
        <4> DEFINE a == Asking(GuestDestination(p), "login", p)
        <4>1. "login" \in Modes  BY DEF Modes
        <4>2. a \in Entry /\ a.path = GuestDestination(p)  BY <2>2, <4>1, AskingFacts
        <4>3. e = [a EXCEPT !.handled = h]  BY <3>3
        <4> HIDE DEF a
        <4>4. e.path = GuestDestination(p)  BY <4>2, <4>3 DEF Entry
        <4> QED BY <2>2, <4>4 DEF SentAway
      <3> QED BY <3>1, <3>2, <3>3 DEF Earlier
    <2> QED BY <1>3, <2>1, <2>3
  <1>7. CASE Reload  BY <1>1, <1>4, <1>7 DEF Reload, Standing, SentAway
  <1>8. CASE OpenMailedLink \/ StartGoogleHere
    <2>1. "verify" \in Paths /\ "google" \in Paths  BY DEF Paths, Compact
    <2>2. SentAway(entry') /\ SentAway(shown')
      BY <1>2, <1>8, <2>1 DEF OpenMailedLink, StartGoogleHere, SentAway
    <2> QED BY <1>4, <1>8, <2>2 DEF OpenMailedLink, StartGoogleHere
  <1>9. CASE GoToApp
    <2>1. (IF saved = None THEN "root" ELSE saved) \in Paths
      BY <1>1 DEF TypeOK, Paths, Pages
    <2>2. SentAway(entry')  BY <1>2, <1>9, <2>1 DEF GoToApp, SentAway
    <2>3. UNCHANGED <<shown, session, stale, drafts, form, left>> /\ shown.path = "verify"
      BY <1>9 DEF GoToApp, account
    <2>4. left = None
      <3> SUFFICES ASSUME left # None PROVE FALSE
        OBVIOUS
      <3>1. shown.path \in {left.page, GuestDestination(left.page)} /\ left.text = "own"
        BY DEF WorkInv, WorkKept, BackAtWork, Leaving, Staying, Sent, Offered
      <3> QED BY <1>1, <2>3, <3>1, LeftFacts
    <2> QED BY <1>1, <2>2, <2>3, <2>4
            DEF WorkInv, WorkKept, Standing, SentAway, FormOfPage, UserOwns, TextKept
  <1> QED BY <1>5, <1>6, <1>7, <1>8, <1>9

LEMMA ExpireKeepsWork ==
  ASSUME DialogInv, WorkInv, Expire PROVE WorkInv'
  <1>1. /\ TypeOK /\ Standing /\ drafts \in Drafts /\ form \in Form \union {None}
        /\ session \in [user : BOOLEAN, ready : BOOLEAN, end : Handled]
    BY DEF DialogInv, WorkInv, TypeOK
  <1>2. /\ UNCHANGED <<entry, shown, form>> /\ stale' = TRUE
        /\ session'.user = FALSE /\ session'.end = "expired" /\ session'.ready = session.ready
        /\ session.user
        /\ left' = IF form # None /\ form.text = "own" /\ entry.path = form.page
                   THEN form ELSE None
    BY <1>1 DEF Expire, place
  <1>3. /\ drafts'.of = drafts.of /\ drafts'.owned = drafts.owned /\ drafts'.retaining
        /\ drafts'.recoverable = drafts.recoverable \union {p \in Forms : drafts.of[p] # None}
    BY <1>1 DEF Expire, Retain, Drafts
  <1>4. Standing'
    BY <1>1, <1>2, <1>3 DEF Standing, SentAway, FormOfPage, UserOwns, TextKept
  <1>5. WorkKept'
    <2>1. SUFFICES ASSUME left' # None PROVE WorkKept'
      BY DEF WorkKept
    <2> DEFINE p == form.page
    <2>2. /\ left' = form /\ form # None /\ form.text = "own" /\ entry.path = p /\ p \in Forms
      BY <1>1, <1>2, <2>1 DEF Form
    <2>3. /\ shown.path = p /\ session.ready /\ drafts.of[p] = "own" /\ drafts.owned
      BY <1>1, <1>2, <2>2 DEF Standing, FormOfPage, TextKept, UserOwns
    <2>4. drafts.of[p] # None
      BY <2>3 DEF Texts
    <2>5. p \in drafts'.recoverable  BY <1>3, <2>2, <2>4
    <2>6. left'.page = p /\ form' = form  BY <1>2, <2>2
    <2> QED BY <1>2, <1>3, <2>2, <2>3, <2>5, <2>6 DEF WorkKept, Leaving
  <1> QED BY <1>4, <1>5 DEF WorkInv

LEMMA TypeKeepsWork ==
  ASSUME DialogInv, WorkInv, Type PROVE WorkInv'
  <1>1. /\ TypeOK /\ Standing /\ drafts \in Drafts /\ form \in Form
    BY DEF DialogInv, WorkInv, TypeOK, Type
  <1>2. /\ UNCHANGED <<entry, shown, moving, dialog, session, stale, left>>
        /\ form # None /\ session.user /\ form' = [form EXCEPT !.text = "own"]
        /\ drafts' = Write(drafts, form.page, "own")
    BY DEF Type, place
  <1>3. drafts.owned  BY <1>1, <1>2 DEF Standing, UserOwns
  <1>4. /\ form' # None /\ form'.page = form.page /\ form'.text = "own" /\ form'\in Form
        /\ form.page \in Forms
    BY <1>1, <1>2 DEF Form, Texts
  <1>5. drafts'.of[form.page] = "own" /\ drafts'.owned
    BY <1>1, <1>2, <1>3, <1>4 DEF Write, Drafts
  <1>6. Standing'
    BY <1>1, <1>2, <1>4, <1>5 DEF Standing, SentAway, FormOfPage, UserOwns, TextKept
  <1>7. WorkKept'
    <2>1. SUFFICES ASSUME left # None PROVE WorkKept'
      BY <1>2 DEF WorkKept
    <2> DEFINE p == left.page
    <2>2. /\ session.ready /\ left.text = "own" /\ form = left /\ BackAtWork(p)
      BY <1>2, <2>1 DEF WorkInv, WorkKept
    <2>3. form' = left
      BY <1>1, <1>2, <2>2 DEF Form
    <2>4. BackAtWork(p)'
      BY <1>2, <2>2, <2>3, <1>4 DEF BackAtWork
    <2> QED BY <1>2, <1>4, <1>5, <2>2, <2>3, <2>4 DEF WorkKept
  <1> QED BY <1>6, <1>7 DEF WorkInv

\* Another sign-in than the one the dialog offered, or none, gives nothing back.
LEMMA NothingLeftKeepsWork ==
  ASSUME DialogInv, WorkInv,
         \/ SignOut
         \/ \E who \in Accounts \union {None} : Restore(who)
         \/ \E f \in flights, who \in Accounts : SignedInHere(f, who) \/ Verified(f, who)
  PROVE  WorkInv'
  <1>1. /\ TypeOK /\ Standing
        /\ session \in [user : BOOLEAN, ready : BOOLEAN, end : Handled]
    BY DEF DialogInv, WorkInv, TypeOK
  <1>2. ASSUME left' = None, SentAway(entry'), shown' = shown, TextKept', UserOwns',
               form' # None => form # None /\ form'.page = form.page,
               session.ready => session'.ready
        PROVE  WorkInv'
    BY <1>1, <1>2 DEF WorkInv, WorkKept, Standing, SentAway, FormOfPage
  <1>3. CASE SignOut
    <2>1. Owning("none") /\ ~ session'.user /\ session'.ready = session.ready
          /\ left' = None /\ entry' = entry /\ shown' = shown
      BY <1>1, <1>3 DEF SignOut, place
    <2> QED BY <1>1, <1>2, <2>1, OwningStands DEF WorkInv, Standing, UserOwns, SentAway
  <1>4. ASSUME NEW who \in Accounts \union {None}, Restore(who) PROVE WorkInv'
    <2>1. ~ session.ready /\ left' = left /\ entry' = entry /\ shown' = shown
          /\ session'.user = (session.user \/ who # None)
      BY <1>1, <1>4 DEF Restore, place
    <2>2. left = None  BY <2>1 DEF WorkInv, WorkKept
    <2>3. CASE who = None
      <3>1. drafts' = drafts /\ form' = form  BY <1>4, <2>3 DEF Restore
      <3> QED BY <1>1, <1>2, <2>1, <2>2, <2>3, <3>1
              DEF Standing, UserOwns, TextKept, SentAway
    <2>4. CASE who # None
      <3>1. Owning(who) /\ who \in Accounts /\ who # "none"
        BY <1>4, <2>4 DEF Restore, Accounts
      <3> QED BY <1>1, <1>2, <2>1, <2>2, <3>1, OwningStands
              DEF WorkInv, Standing, UserOwns, SentAway
    <2> QED BY <2>3, <2>4
  <1>5. ASSUME NEW f \in flights, NEW who \in Accounts, SignedInHere(f, who) \/ Verified(f, who)
        PROVE  WorkInv'
    <2>1. Accept(who) /\ left' = None /\ shown' = shown
      BY <1>5 DEF SignedInHere, Verified, place
    <2>2. Owning(who) /\ session'.ready = session.ready /\ who # "none"
      BY <1>1, <2>1 DEF Accept, Accounts
    <2>3. SentAway(entry')
      <3>1. CASE Verified(f, who)
        BY <1>1, <3>1 DEF Verified, place, Standing, SentAway
      <3>2. CASE SignedInHere(f, who)
        <4>1. Home \in Paths  BY <1>1, HomeFacts DEF TypeOK, Paths
        <4> QED BY <3>2, <4>1, EntryFacts DEF SignedInHere, SentAway
      <3> QED BY <1>5, <3>1, <3>2
    <2> QED BY <1>1, <1>2, <2>1, <2>2, <2>3, OwningStands DEF WorkInv, UserOwns
  <1> QED BY <1>3, <1>4, <1>5

\* The sign-in the dialog offered: back to the page it came from.
LEMMA SignedInKeepsWork ==
  ASSUME DialogInv, WorkInv, NEW f \in flights, NEW who \in Accounts, SignedIn(f, who)
  PROVE  WorkInv'
  <1>1. /\ TypeOK /\ Standing /\ FlightsHaveDialog(flights, dialog) /\ drafts \in Drafts
        /\ session \in [user : BOOLEAN, ready : BOOLEAN, end : Handled]
        /\ dialog \in Dialog \union {None}
    BY DEF DialogInv, WorkInv, TypeOK
  <1>2. /\ Owning(who) /\ who # "none" /\ shown' = shown /\ stale' = TRUE
        /\ session'.user = TRUE /\ session'.end = "none" /\ session'.ready = session.ready
    BY <1>1 DEF SignedIn, Accept, Accounts
  <1>3. f.live => dialog # None /\ dialog.from \in Pages
    BY <1>1 DEF SignedIn, FlightsHaveDialog, Dialog
  <1>4. \/ entry' = entry /\ moving' = moving /\ ~ (f.live /\ dialog.from # shown.path)
        \/ entry' = Plain(dialog.from) /\ moving' = TRUE /\ f.live /\ dialog.from # shown.path
    BY DEF SignedIn
  <1>5. ASSUME f.live
        PROVE  Plain(dialog.from).path = dialog.from /\ Plain(dialog.from).handled = "none"
    BY <1>3, <1>5, EntryFacts DEF Paths
  <1>6. SentAway(entry')  BY <1>1, <1>4, <1>5 DEF Standing, SentAway
  <1>7. Standing'
    BY <1>1, <1>2, <1>6, OwningStands
       DEF Standing, SentAway, FormOfPage, UserOwns
  <1>8. WorkKept'
    <2>1. SUFFICES ASSUME left' # None PROVE WorkKept'
      BY DEF WorkKept
    <2> DEFINE p == left.page
    <2>2. left' = left /\ left # None /\ f.live /\ who = "same" /\ dialog.from = p
      BY <2>1 DEF SignedIn
    <2>3. form' = form /\ drafts' = [drafts EXCEPT !.retaining = FALSE]
      BY <1>2, <2>2, OwningStands DEF WorkInv
    <2>4. drafts'.of = drafts.of /\ drafts'.owned = drafts.owned
          /\ drafts'.recoverable = drafts.recoverable
      BY <1>1, <2>3 DEF Drafts
    <2>5. /\ session.ready /\ left.text = "own" /\ drafts.owned /\ drafts.of[p] = "own"
          /\ form \in {None, left} /\ (form = None => p \in drafts.recoverable)
          /\ IF session.user THEN BackAtWork(p)
             ELSE Leaving(p) \/ Staying(p) \/ Sent(p) \/ Offered(p)
      BY <2>2 DEF WorkInv, WorkKept
    <2>6. ~ Sent(p)  BY <1>3, <2>2 DEF Sent
    <2>7. shown.path = p => entry.path = p
      <3>1. Offered(p) => entry.path = shown.path  BY DEF Offered
      <3> QED BY <2>5, <2>6, <3>1 DEF BackAtWork, Leaving, Staying
    <2>8. entry'.path = p /\ (shown.path # p => moving')
      BY <1>4, <1>5, <2>2, <2>7
    <2>9. shown.path \in {p, GuestDestination(p)}
      BY <2>5 DEF BackAtWork, Leaving, Staying, Sent, Offered
    <2>10. BackAtWork(p)'
      BY <1>2, <2>2, <2>8, <2>9 DEF BackAtWork
    <2> QED BY <1>2, <2>2, <2>3, <2>4, <2>5, <2>10 DEF WorkKept
  <1> QED BY <1>7, <1>8 DEF WorkInv

LEMMA WorkInvariant == Spec => []WorkInv
  <1>1. Init => WorkInv
    <2> SUFFICES ASSUME Init PROVE WorkInv
      OBVIOUS
    <2>1. PICK p \in Addresses : entry = Plain(p)  BY DEF Init
    <2>2. SentAway(entry) /\ shown = entry  BY <2>1, EntryFacts DEF Init, Paths, SentAway
    <2> QED BY <2>2 DEF Init, WorkInv, WorkKept, Standing, FormOfPage, UserOwns, TextKept
  <1>2. DialogInv /\ WorkInv /\ [Next]_vars => WorkInv'
    <2> SUFFICES ASSUME DialogInv, WorkInv, [Next]_vars PROVE WorkInv'
      OBVIOUS
    <2>1. CASE UNCHANGED vars
      <3>1. UNCHANGED <<place, account, form, left, dialog>>  BY <2>1 DEF vars
      <3> QED BY <3>1, AsideKeepsWork
    <2>2. CASE Next
      <3>1. CASE Render \/ Commit
        <4>1. Standing'  BY <3>1, RenderingStands DEF WorkInv
        <4>2. WorkKept'  BY <3>1, RenderKeepsWork, CommitKeepsWork DEF WorkInv
        <4> QED BY <4>1, <4>2 DEF WorkInv
      <3> QED BY <2>2, <3>1, ExpireKeepsWork, TypeKeepsWork, NothingLeftKeepsWork,
              SignedInKeepsWork, DialogKeepsWork, VisitorKeepsWork
              DEF Next
    <2> QED BY <2>1, <2>2
  <1> QED BY <1>1, <1>2, DialogInvariant, PTL DEF Spec

\* Through every order of expiry, renderings, sign-ins and answers, and any
\* number of requests: what a visitor had typed when his session expired is on
\* show again once the same account has signed in with the dialog that leads
\* back to it, and until he goes elsewhere there is such a dialog.
THEOREM WorkResumed == Spec => []ResumesWork
  <1>1. WorkInv => ResumesWork
    BY DEF WorkInv, WorkKept, BackAtWork, Leaving, Staying, Sent, Offered, ResumesWork, Settled
  <1> QED BY <1>1, WorkInvariant, PTL
=============================================================================
