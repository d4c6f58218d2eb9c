-------------------------- MODULE DeckSync_proofs --------------------------
(***************************************************************************)
(* Theorems about decks, for every set of cards, clients and decks, any    *)
(* number of edits and of failures.                                        *)
(***************************************************************************)
EXTENDS DeckSync, TLAPS

Versions == [Cards -> Version \cup {NoCard}]

-----------------------------------------------------------------------------
(* Paths.                                                                   *)

(* Decks that come with the decks above them.                               *)
Closed(ds) == \A d \in ds : Parent[d] \in ds \cup {Top}

LEMMA PathFacts ==
  ASSUME NEW d \in Decks
  PROVE  Path(d) \subseteq Decks /\ d \in Path(d) /\ Closed(Path(d)) /\ Tree(d) \subseteq Decks /\ d \in Tree(d)
BY DeckConstants DEF Path, Tree, Closed

LEMMA ClosedUnion ==
  ASSUME NEW a, NEW b, Closed(a), Closed(b)
  PROVE  Closed(a \cup b)
BY DEF Closed

LEMMA PathsClosed ==
  ASSUME NEW ds \in SUBSET Decks
  PROVE  UNION {Path(d) : d \in ds} \subseteq Decks /\ Closed(UNION {Path(d) : d \in ds})
<1>. DEFINE union == UNION {Path(d) : d \in ds}
<1>1. ASSUME NEW d \in ds PROVE Path(d) \subseteq Decks /\ \A e \in Path(d) : Parent[e] \in Path(d) \cup {Top}
  BY PathFacts DEF Closed
<1>2. ASSUME NEW e \in union PROVE e \in Decks /\ Parent[e] \in union \cup {Top}
  <2>1. PICK d \in ds : e \in Path(d)
    BY <1>2
  <2>2. Path(d) \subseteq union
    OBVIOUS
  <2>. HIDE DEF union
  <2>. QED  BY <1>1, <2>1, <2>2
<1>. HIDE DEF union
<1>3. union \subseteq Decks /\ Closed(union)
  BY <1>2 DEF Closed
<1>. QED  BY <1>3 DEF union

(* Removing decks with what is below them keeps the rest closed.            *)
LEMMA BelowRemoved ==
  ASSUME NEW ds \in SUBSET Decks, Closed(ds), NEW gone \in SUBSET Decks
  PROVE  Closed(ds \ UNION {Tree(d) : d \in gone})
<1>. SUFFICES ASSUME NEW e \in ds, e \notin UNION {Tree(d) : d \in gone}, Parent[e] \in Decks, NEW d \in gone, Parent[e] \in Tree(d)
              PROVE  FALSE
  BY DEF Closed
<1>1. CASE Parent[e] = d
  BY <1>1 DEF Tree
<1>2. CASE Parent[Parent[e]] = d
  BY <1>2, DeckConstants
<1>. QED  BY <1>1, <1>2 DEF Tree

LEMMA BelowFacts ==
  ASSUME NEW ds \in SUBSET Decks
  PROVE  ds \subseteq Below(ds) /\ Below(ds) \subseteq Decks /\ Below(Below(ds)) \subseteq Below(ds)
<1>1. ds \subseteq Below(ds) /\ Below(ds) \subseteq Decks
  BY DEF Below, Tree
<1>2. ASSUME NEW d \in ds, NEW e \in Tree(d), NEW f \in Tree(e) PROVE f \in Tree(d)
  BY DeckConstants DEF Tree
<1>. QED  BY <1>1, <1>2 DEF Below

LEMMA BelowMonotone ==
  ASSUME NEW a, NEW b, a \subseteq b
  PROVE  Below(a) \subseteq Below(b)
BY DEF Below

-----------------------------------------------------------------------------
(* Types.                                                                   *)

LEMMA VersionFacts ==
  ASSUME NEW version \in Version
  PROVE  version # NoCard /\ version.deck \in Decks /\ version.time \in Times /\ version.time \in Nat
BY DeckConstants DEF Version, Times

(* A collection with the decks of its cards.                                *)
HousedIn(versions, ds) == \A k \in Present(versions) : versions[k].deck \in ds

LEMMA InitTyped == Init => TypeOK
<1>. SUFFICES ASSUME Init PROVE TypeOK
  OBVIOUS
<1>1. NoCards \in Versions /\ Present(NoCards) = {}
  BY DEF NoCards, Versions, Present
<1>2. NoSnapshot \in [saved : BOOLEAN, decks : SUBSET Decks, cards : SUBSET Cards]
  BY DEF NoSnapshot
<1>. QED  BY <1>1, <1>2, DeckConstants DEF Init, TypeOK, PassSteps, Publishing, Versions

LEMMA EndPassTyped ==
  ASSUME TypeOK, NEW c \in Clients, EndPass(c)
  PROVE  /\ pc' = [pc EXCEPT ![c] = "idle"] /\ pc' \in [Clients -> PassSteps]
         /\ seen' \in [Clients -> [Cards -> Version \cup {NoCard}]]
         /\ deckTodo' \in [Clients -> SUBSET Decks] /\ cardTodo' \in [Clients -> SUBSET Cards]
         /\ moving' \in [Clients -> [old : Decks, new : Decks] \cup {NoMove}]
         /\ \A d \in Clients : pc'[d] \in Publishing => moving'[d] # NoMove
<1>1. NoCards \in [Cards -> Version \cup {NoCard}] /\ "idle" \in PassSteps \ Publishing
  BY DEF NoCards, PassSteps, Publishing
<1>. QED  BY <1>1 DEF TypeOK, EndPass, Goto

(* A client that goes on, not into a publication.                           *)
LEMMA GotoTyped ==
  ASSUME TypeOK, NEW c \in Clients, NEW step \in PassSteps, Goto(c, step), moving' = moving,
         step \in Publishing => pc[c] \in Publishing
  PROVE  pc' \in [Clients -> PassSteps] /\ \A d \in Clients : pc'[d] \in Publishing => moving'[d] # NoMove
BY DEF TypeOK, Goto

LEMMA MoveFacts ==
  ASSUME TypeOK, NEW c \in Clients, pc[c] \in Publishing
  PROVE  moving[c].old \in Decks /\ moving[c].new \in Decks
BY DEF TypeOK

LEMMA ManifestTyped ==
  ASSUME TypeOK, NEW c \in Clients, GetManifest(c)
  PROVE  seen' \in [Clients -> [Cards -> Version \cup {NoCard}]]
BY DEF TypeOK, GetManifest

ServerTyped ==
  /\ deckRow \subseteq Decks /\ deckStones \subseteq Decks
  /\ row \in [Cards -> Version \cup {NoCard}] /\ cardStones \subseteq Cards

LEMMA RequestsTyped ==
  ASSUME TypeOK,
         \/ \E d \in Decks : UpsertDeck(d)
         \/ \E ds \in SUBSET Decks : DeleteDecks(ds)
         \/ \E keys \in SUBSET Cards : DeleteCards(keys)
         \/ \E c \in Clients : \E keys : UpsertCards(cards[c], keys)
         \/ UNCHANGED serverVars
  PROVE  ServerTyped'
<1>1. ASSUME NEW c \in Clients, NEW keys, UpsertCards(cards[c], keys) PROVE ServerTyped'
  <2>1. cards[c] \in Versions
    BY DEF TypeOK, Versions
  <2>. QED  BY <1>1, <2>1 DEF TypeOK, UpsertCards, ServerTyped, Versions
<1>2. CASE UNCHANGED serverVars
  BY <1>2 DEF TypeOK, serverVars, ServerTyped
<1>3. ASSUME NEW keys \in SUBSET Cards, DeleteCards(keys) PROVE ServerTyped'
  BY <1>3 DEF TypeOK, DeleteCards, Without, ServerTyped
<1>4. ASSUME NEW d \in Decks, UpsertDeck(d) PROVE ServerTyped'
  BY <1>4 DEF TypeOK, UpsertDeck, ServerTyped
<1>5. ASSUME NEW ds \in SUBSET Decks, DeleteDecks(ds) PROVE ServerTyped'
  BY <1>5 DEF TypeOK, DeleteDecks, ServerTyped
<1>. QED  BY <1>1, <1>2, <1>3, <1>4, <1>5

CollectionsTyped ==
  /\ decks \in [Clients -> SUBSET Decks]
  /\ cards \in [Clients -> [Cards -> Version \cup {NoCard}]]
  /\ \A c \in Clients : Closed(decks[c]) /\ HousedIn(cards[c], decks[c])

LEMMA Collections == TypeOK => CollectionsTyped
BY DEF TypeOK, CollectionsTyped, Closed, HousedIn

LEMMA CollectionTyped ==
  ASSUME TypeOK, NEW c \in Clients, NEW ds \in SUBSET Decks, Closed(ds), NEW versions \in Versions, HousedIn(versions, ds),
         decks' = [decks EXCEPT ![c] = ds], cards' = [cards EXCEPT ![c] = versions]
  PROVE  CollectionsTyped'
<1>1. \A d \in Clients : /\ decks'[d] = IF d = c THEN ds ELSE decks[d]
                         /\ cards'[d] = IF d = c THEN versions ELSE cards[d]
  BY DEF TypeOK
<1>2. decks' \in [Clients -> SUBSET Decks] /\ cards' \in [Clients -> [Cards -> Version \cup {NoCard}]]
  BY <1>1 DEF TypeOK, Versions
<1>3. \A d \in Clients : Closed(decks[d]) /\ HousedIn(cards[d], decks[d])
  BY Collections DEF CollectionsTyped
<1>4. \A d \in Clients : Closed(decks'[d]) /\ HousedIn(cards'[d], decks'[d])
  BY <1>1, <1>3
<1>. QED  BY <1>2, <1>4 DEF CollectionsTyped, Closed, HousedIn, Present

LEMMA SameCollections ==
  ASSUME TypeOK, decks' = decks, cards' = cards
  PROVE  CollectionsTyped'
BY DEF TypeOK, CollectionsTyped, Closed, HousedIn, Present

(* The whole, from its parts.                                               *)
PassTyped ==
  /\ pc \in [Clients -> PassSteps]
  /\ seen \in [Clients -> [Cards -> Version \cup {NoCard}]]
  /\ deckTodo \in [Clients -> SUBSET Decks] /\ cardTodo \in [Clients -> SUBSET Cards]
  /\ moving \in [Clients -> [old : Decks, new : Decks] \cup {NoMove}]
  /\ \A c \in Clients : pc[c] \in Publishing => moving[c] # NoMove

OthersTyped ==
  /\ snapshot \in [Clients -> [saved : BOOLEAN, decks : SUBSET Decks, cards : SUBSET Cards]]
  /\ events \in 0..MaxEvents
  /\ deleted \subseteq Cards /\ swept \subseteq Cards /\ removed \subseteq Decks
  /\ disturbed \subseteq Clients

LEMMA Whole == ServerTyped' /\ CollectionsTyped' /\ PassTyped' /\ OthersTyped' => TypeOK'
BY DEF ServerTyped, CollectionsTyped, PassTyped, OthersTyped, TypeOK, Closed, HousedIn

LEMMA SamePass == TypeOK /\ UNCHANGED passVars => PassTyped'
BY DEF TypeOK, passVars, PassTyped

LEMMA ActTyped ==
  ASSUME TypeOK, NEW c \in Clients, Act(c)
  PROVE  events' \in 0..MaxEvents
BY DeckConstants DEF TypeOK, Act

LEMMA LocalTyped ==
  ASSUME TypeOK, NEW c \in Clients, Local(c), CollectionsTyped', deleted' \subseteq Cards, removed' \subseteq Decks
  PROVE  TypeOK'
<1>1. ServerTyped'
  BY RequestsTyped DEF Local
<1>2. OthersTyped'
  BY ActTyped DEF Local, TypeOK, OthersTyped
<1>. QED  BY <1>1, <1>2, SamePass, Whole DEF Local

LEMMA UserTyped ==
  ASSUME TypeOK, NEW c \in Clients, User(c)
  PROVE  TypeOK'
<1>0. decks[c] \in SUBSET Decks /\ cards[c] \in Versions /\ Closed(decks[c]) /\ HousedIn(cards[c], decks[c])
      /\ decks = [decks EXCEPT ![c] = decks[c]] /\ cards = [cards EXCEPT ![c] = cards[c]]
      /\ deleted \subseteq Cards /\ removed \subseteq Decks
  BY Collections DEF CollectionsTyped, TypeOK, Versions
<1>1. ASSUME NEW d \in Decks, AddDeck(c, d) PROVE TypeOK'
  <2>1. decks' = [decks EXCEPT ![c] = decks[c] \cup Path(d)] /\ cards' = [cards EXCEPT ![c] = cards[c]]
    BY <1>0, <1>1 DEF AddDeck
  <2>2. decks[c] \cup Path(d) \in SUBSET Decks /\ Closed(decks[c] \cup Path(d)) /\ HousedIn(cards[c], decks[c] \cup Path(d))
    BY <1>0, PathFacts, ClosedUnion DEF HousedIn
  <2>3. CollectionsTyped'
    BY <1>0, <2>1, <2>2, CollectionTyped
  <2>. QED  BY <1>0, <1>1, <2>3, LocalTyped DEF AddDeck
<1>2. ASSUME NEW k \in Cards, NEW d \in Decks, NEW time \in Times, PutCardIn(c, k, d, time) PROVE TypeOK'
  <2>. DEFINE versions == [cards[c] EXCEPT ![k] = [deck |-> d, time |-> time]]
  <2>1. decks' = [decks EXCEPT ![c] = decks[c] \cup Path(d)] /\ cards' = [cards EXCEPT ![c] = versions]
    BY <1>2 DEF PutCardIn
  <2>2. decks[c] \cup Path(d) \in SUBSET Decks /\ Closed(decks[c] \cup Path(d))
    BY <1>0, PathFacts, ClosedUnion
  <2>3. versions \in Versions /\ HousedIn(versions, decks[c] \cup Path(d))
    BY <1>0, PathFacts DEF HousedIn, Versions, Version, Present
  <2>4. CollectionsTyped'
    BY <2>1, <2>2, <2>3, CollectionTyped
  <2>. QED  BY <1>0, <1>2, <2>4, LocalTyped DEF PutCardIn
<1>3. ASSUME NEW old \in Decks, NEW new \in Decks, RenameDeck(c, old, new) PROVE TypeOK'
  <2>. DEFINE ds == (decks[c] \ {old}) \cup Path(new)
              versions == [k \in Cards |-> IF k \in Members(cards[c], {old}) THEN [cards[c][k] EXCEPT !.deck = new] ELSE cards[c][k]]
  <2>1. decks' = [decks EXCEPT ![c] = ds] /\ cards' = [cards EXCEPT ![c] = versions]
    BY <1>3 DEF RenameDeck
  <2>2. Closed(decks[c] \ {old})
    BY <1>0, <1>3 DEF RenameDeck, Closed, Tree
  <2>3. ds \in SUBSET Decks /\ Closed(ds)
    BY <1>0, <2>2, PathFacts, ClosedUnion
  <2>4. ASSUME NEW k \in Members(cards[c], {old}) PROVE [cards[c][k] EXCEPT !.deck = new] \in Version /\ [cards[c][k] EXCEPT !.deck = new].deck = new
    BY <1>0, <2>4 DEF Members, Present, Versions, Version
  <2>5. versions \in Versions
    BY <1>0, <2>4 DEF Versions
  <2>6. HousedIn(versions, ds)
    BY <1>0, <2>4, PathFacts DEF HousedIn, Present, Members
  <2>7. CollectionsTyped'
    BY <2>1, <2>3, <2>5, <2>6, CollectionTyped
  <2>. QED  BY <1>0, <1>3, <2>7, LocalTyped DEF RenameDeck
<1>4. ASSUME NEW d \in Decks, DeleteDeck(c, d) PROVE TypeOK'
  <2>. DEFINE versions == Without(cards[c], Members(cards[c], Tree(d)))
  <2>1. decks' = [decks EXCEPT ![c] = decks[c] \ Tree(d)] /\ cards' = [cards EXCEPT ![c] = versions]
    BY <1>4 DEF DeleteDeck
  <2>2. Closed(decks[c] \ UNION {Tree(e) : e \in {d}})
    BY <1>0, BelowRemoved
  <2>3. decks[c] \ Tree(d) \in SUBSET Decks /\ Closed(decks[c] \ Tree(d))
    BY <1>0, <2>2
  <2>4. versions \in Versions /\ HousedIn(versions, decks[c] \ Tree(d))
    BY <1>0 DEF HousedIn, Versions, Without, Members, Present
  <2>5. CollectionsTyped'
    BY <2>1, <2>3, <2>4, CollectionTyped
  <2>6. deleted' \subseteq Cards /\ removed' \subseteq Decks
    BY <1>0, <1>4, PathFacts DEF DeleteDeck, Members, Present
  <2>. QED  BY <1>4, <2>5, <2>6, LocalTyped DEF DeleteDeck
<1>5. ASSUME NEW d \in Decks, PublishDeck(c, d) PROVE TypeOK'
  <2>1. {d} \in SUBSET Decks /\ (UpsertDeck(d) \/ DeleteDecks({d}))
    BY <1>5 DEF PublishDeck
  <2>2. OthersTyped'
    BY <1>5, ActTyped DEF PublishDeck, Disturb, clientVars, TypeOK, OthersTyped
  <2>. QED  BY <1>5, <2>1, <2>2, RequestsTyped, SameCollections, SamePass, Whole DEF PublishDeck, clientVars
<1>6. ASSUME NEW k \in Cards, PublishCard(c, k) PROVE TypeOK'
  <2>1. {k} \in SUBSET Cards /\ (UpsertCards(cards[c], {k}) \/ DeleteCards({k}))
    BY <1>6 DEF PublishCard
  <2>2. OthersTyped'
    BY <1>6, ActTyped DEF PublishCard, Disturb, clientVars, TypeOK, OthersTyped
  <2>. QED  BY <1>6, <2>1, <2>2, RequestsTyped, SameCollections, SamePass, Whole DEF PublishCard, clientVars
<1>7. ASSUME NEW old \in Decks, NEW new \in Decks, PublishNamespace(c, old, new) PROVE TypeOK'
  <2>1. [old |-> old, new |-> new] \in [old : Decks, new : Decks] /\ [old |-> old, new |-> new] # NoMove
    BY DeckConstants DEF NoMove
  <2>2. PassTyped'
    BY <1>7, <2>1 DEF PublishNamespace, Goto, TypeOK, PassTyped, PassSteps, Publishing
  <2>3. OthersTyped'
    BY <1>7, ActTyped DEF PublishNamespace, clientVars, TypeOK, OthersTyped
  <2>. QED  BY <1>7, <2>2, <2>3, RequestsTyped, SameCollections, Whole DEF PublishNamespace, clientVars
<1>. QED  BY <1>1, <1>2, <1>3, <1>4, <1>5, <1>6, <1>7 DEF User

LEMMA KeptTyped ==
  ASSUME TypeOK, NEW c \in Clients
  PROVE  /\ BuriedDecks(c) \subseteq Decks /\ BuriedCards(c) \subseteq Cards /\ Sweep(c) \subseteq Cards
         /\ KeptDecks(c) \in SUBSET Decks /\ Closed(KeptDecks(c))
         /\ KeptCards(c) \in Versions /\ HousedIn(KeptCards(c), KeptDecks(c))
<1>0. decks[c] \in SUBSET Decks /\ cards[c] \in Versions /\ Closed(decks[c]) /\ HousedIn(cards[c], decks[c])
  BY Collections DEF CollectionsTyped, Versions
<1>1. BuriedDecks(c) \in SUBSET Decks /\ BuriedCards(c) \subseteq Cards /\ Sweep(c) \subseteq Cards
  BY DEF TypeOK, BuriedDecks, BuriedCards, Sweep, Members, Present
<1>2. Closed(KeptDecks(c)) /\ KeptDecks(c) \in SUBSET Decks
  BY <1>0, <1>1, BelowRemoved DEF KeptDecks, RemovedDecks
<1>3. KeptCards(c) \in Versions
  BY <1>0 DEF KeptCards, Without, Versions
<1>4. HousedIn(KeptCards(c), KeptDecks(c))
  BY <1>0 DEF HousedIn, KeptCards, KeptDecks, Without, Members, Present
<1>. QED  BY <1>1, <1>2, <1>3, <1>4

LEMMA StartTyped ==
  ASSUME TypeOK, NEW c \in Clients, NEW approved \in BOOLEAN, Start(c, approved)
  PROVE  TypeOK'
<1>1. CollectionsTyped'
  BY KeptTyped, CollectionTyped DEF Start
<1>2. MissingCards(c) \subseteq Cards /\ MissingDecks(c) \subseteq Decks /\ PlannedDecks(c, KeptDecks(c)) \subseteq Decks
  BY KeptTyped DEF TypeOK, MissingCards, MissingDecks, PlannedDecks, DecksToSync, Present
<1>3. moving' = moving /\ OthersTyped' /\ UNCHANGED serverVars
  BY KeptTyped DEF Start, TypeOK, OthersTyped, userVars
<1>4. CASE MissingCards(c) \cup MissingDecks(c) = {}
  <2>1. Goto(c, "decks") /\ GetManifest(c) /\ deckTodo' = [deckTodo EXCEPT ![c] = PlannedDecks(c, KeptDecks(c))] /\ cardTodo' = cardTodo
    BY <1>4 DEF Start
  <2>2. pc' \in [Clients -> PassSteps] /\ \A d \in Clients : pc'[d] \in Publishing => moving'[d] # NoMove
    BY <1>3, <2>1, GotoTyped DEF PassSteps, Publishing
  <2>3. PassTyped'
    BY <1>2, <1>3, <2>1, <2>2, ManifestTyped DEF TypeOK, PassTyped
  <2>. QED  BY <1>1, <1>3, <2>3, RequestsTyped, Whole
<1>5. CASE MissingCards(c) \cup MissingDecks(c) # {} /\ approved
  <2>1. /\ Goto(c, "delete") /\ seen' = seen /\ deckTodo' = [deckTodo EXCEPT ![c] = MissingDecks(c)]
        /\ cardTodo' = [cardTodo EXCEPT ![c] = MissingCards(c)]
    BY <1>5 DEF Start
  <2>2. pc' \in [Clients -> PassSteps] /\ \A d \in Clients : pc'[d] \in Publishing => moving'[d] # NoMove
    BY <1>3, <2>1, GotoTyped DEF PassSteps, Publishing
  <2>3. PassTyped'
    BY <1>2, <1>3, <2>1, <2>2 DEF TypeOK, PassTyped
  <2>. QED  BY <1>1, <1>3, <2>3, RequestsTyped, Whole
<1>6. CASE MissingCards(c) \cup MissingDecks(c) # {} /\ ~approved
  <2>1. UNCHANGED passVars
    BY <1>6 DEF Start, passVars
  <2>. QED  BY <1>1, <1>3, <2>1, SamePass, RequestsTyped, Whole
<1>. QED  BY <1>4, <1>5, <1>6

LEMMA DecksTyped ==
  ASSUME TypeOK, NEW c \in Clients, sync_decks_once(c)
  PROVE  TypeOK'
<1>1. PICK d \in deckTodo[c] : PushDeck(c, d) \/ PullDeck(c, d) \/ MissDeck(c, d)
  BY DEF sync_decks_once
<1>2. d \in Decks
  BY DEF TypeOK
<1>3. OthersTyped'
  BY <1>1 DEF sync_decks_once, PushDeck, PullDeck, MissDeck, Disturb, TypeOK, OthersTyped, userVars
<1>4. CASE PushDeck(c, d)
  <2>1. PassTyped'
    BY <1>4 DEF PushDeck, TypeOK, PassTyped
  <2>. QED  BY <1>2, <1>3, <1>4, <2>1, RequestsTyped, SameCollections, Whole DEF PushDeck, sync_decks_once
<1>5. CASE PullDeck(c, d)
  <2>1. PassTyped'
    BY <1>5 DEF PullDeck, TypeOK, PassTyped
  <2>2. decks[c] \in SUBSET Decks /\ cards[c] \in Versions /\ Closed(decks[c]) /\ HousedIn(cards[c], decks[c])
        /\ cards = [cards EXCEPT ![c] = cards[c]]
    BY Collections DEF CollectionsTyped, TypeOK, Versions
  <2>3. decks[c] \cup Path(d) \in SUBSET Decks /\ Closed(decks[c] \cup Path(d)) /\ HousedIn(cards[c], decks[c] \cup Path(d))
    BY <1>2, <2>2, PathFacts, ClosedUnion DEF HousedIn
  <2>4. decks' = [decks EXCEPT ![c] = decks[c] \cup Path(d)] /\ cards' = cards
    BY <1>5 DEF PullDeck, sync_decks_once
  <2>5. CollectionsTyped'
    BY <2>2, <2>3, <2>4, CollectionTyped
  <2>. QED  BY <1>3, <1>5, <2>1, <2>5, RequestsTyped, Whole DEF PullDeck
<1>6. CASE MissDeck(c, d)
  <2>1. PassTyped'
    BY <1>6, EndPassTyped DEF MissDeck, PassTyped
  <2>. QED  BY <1>3, <1>6, <2>1, RequestsTyped, SameCollections, Whole DEF MissDeck, sync_decks_once
<1>. QED  BY <1>1, <1>4, <1>5, <1>6

LEMMA CardsTyped ==
  ASSUME TypeOK, NEW c \in Clients, sync_cards_once(c)
  PROVE  TypeOK'
<1>. DEFINE ds == decks[c] \cup UNION {Path(d) : d \in {row[k].deck : k \in Pulled(c)}}
            versions == [k \in Cards |-> IF k \in Pulled(c) THEN row[k] ELSE cards[c][k]]
            step == IF Conflicts(c) = {} THEN "save" ELSE "conflict"
<1>0. decks[c] \in SUBSET Decks /\ cards[c] \in Versions /\ Closed(decks[c]) /\ HousedIn(cards[c], decks[c])
  BY Collections DEF CollectionsTyped, Versions
<1>1. \A k \in Pulled(c) : k \in Cards /\ row[k] \in Version
  BY DEF Pulled, Present, TypeOK
<1>2. {row[k].deck : k \in Pulled(c)} \in SUBSET Decks
  BY <1>1, VersionFacts
<1>3. ds \in SUBSET Decks /\ Closed(ds)
  BY <1>0, <1>2, PathsClosed, ClosedUnion
<1>4. versions \in Versions
  BY <1>0, <1>1 DEF Versions
<1>5. ASSUME NEW k \in Pulled(c) PROVE row[k].deck \in ds
  <2>1. row[k].deck \in Path(row[k].deck)
    BY <1>1, <1>5, VersionFacts, PathFacts
  <2>. QED  BY <1>5, <2>1
<1>6. HousedIn(versions, ds)
  BY <1>0, <1>5 DEF HousedIn, Present
<1>7. UNION {Path(row[k].deck) : k \in Pulled(c)} = UNION {Path(d) : d \in {row[k].deck : k \in Pulled(c)}}
  OBVIOUS
<1>8. decks' = [decks EXCEPT ![c] = ds] /\ cards' = [cards EXCEPT ![c] = versions]
  BY <1>7 DEF sync_cards_once
<1>9. CollectionsTyped'
  BY <1>3, <1>4, <1>6, <1>8, CollectionTyped
<1>10. step \in PassSteps \ Publishing /\ Goto(c, step) /\ moving' = moving
  BY DEF sync_cards_once, PassSteps, Publishing
<1>11. PassTyped'
  <2>1. pc' \in [Clients -> PassSteps] /\ \A d \in Clients : pc'[d] \in Publishing => moving'[d] # NoMove
    BY <1>10, GotoTyped
  <2>. QED  BY <1>10, <2>1 DEF sync_cards_once, TypeOK, PassTyped
<1>12. OthersTyped'
  BY DEF sync_cards_once, Disturb, TypeOK, OthersTyped, userVars
<1>13. ServerTyped'
  BY RequestsTyped DEF sync_cards_once
<1>. QED  BY <1>9, <1>11, <1>12, <1>13, Whole

LEMMA DeletesTyped ==
  ASSUME TypeOK, NEW c \in Clients, PushLocalDeletes(c)
  PROVE  TypeOK'
<1>1. \E step \in {"refresh", "delete"} : Goto(c, step)
  BY DEF PushLocalDeletes
<1>2. moving' = moving /\ seen' = seen
  BY DEF PushLocalDeletes
<1>3. pc' \in [Clients -> PassSteps] /\ \A d \in Clients : pc'[d] \in Publishing => moving'[d] # NoMove
  BY <1>1, <1>2, GotoTyped DEF PassSteps, Publishing
<1>4. deckTodo' \in [Clients -> SUBSET Decks] /\ cardTodo' \in [Clients -> SUBSET Cards]
  BY DEF PushLocalDeletes, TypeOK
<1>5. PassTyped'
  BY <1>2, <1>3, <1>4 DEF TypeOK, PassTyped
<1>6. OthersTyped'
  BY DEF PushLocalDeletes, Disturb, TypeOK, OthersTyped, clientVars, userVars
<1>7. cardTodo[c] \in SUBSET Cards /\ deckTodo[c] \in SUBSET Decks
  BY DEF TypeOK
<1>8. ServerTyped'
  BY <1>7, RequestsTyped DEF PushLocalDeletes
<1>. QED  BY <1>5, <1>6, <1>8, SameCollections, Whole DEF PushLocalDeletes, clientVars

LEMMA ForceTyped ==
  ASSUME TypeOK, NEW c \in Clients, ForceDeck(c) \/ ForceCards(c) \/ DeleteOldPath(c)
  PROVE  TypeOK'
<1>0. pc[c] \in Publishing
  BY DEF ForceDeck, ForceCards, DeleteOldPath, Publishing
<1>1. moving[c].old \in Decks /\ moving[c].new \in Decks
  BY <1>0, MoveFacts
<1>2. OthersTyped'
  BY DEF ForceDeck, ForceCards, DeleteOldPath, Disturb, TypeOK, OthersTyped, clientVars, userVars
<1>3. {moving[c].old} \in SUBSET Decks
  BY <1>1
<1>4. ServerTyped'
  BY <1>1, <1>3, RequestsTyped DEF ForceDeck, ForceCards, DeleteOldPath
<1>5. CASE ForceDeck(c) \/ ForceCards(c)
  <2>1. \E step \in Publishing : Goto(c, step)
    BY <1>5 DEF ForceDeck, ForceCards, Publishing
  <2>2. moving' = moving /\ seen' = seen /\ deckTodo' = deckTodo /\ cardTodo' = cardTodo
    BY <1>5 DEF ForceDeck, ForceCards
  <2>3. pc' \in [Clients -> PassSteps] /\ \A d \in Clients : pc'[d] \in Publishing => moving'[d] # NoMove
    BY <1>0, <2>1, <2>2, GotoTyped DEF PassSteps
  <2>4. PassTyped'
    BY <2>2, <2>3 DEF TypeOK, PassTyped
  <2>. QED  BY <1>2, <1>4, <1>5, <2>4, SameCollections, Whole DEF ForceDeck, ForceCards, clientVars
<1>6. CASE DeleteOldPath(c)
  <2>1. PassTyped'
    BY <1>6, EndPassTyped DEF DeleteOldPath, PassTyped
  <2>. QED  BY <1>2, <1>4, <1>6, <2>1, SameCollections, Whole DEF DeleteOldPath, clientVars
<1>. QED  BY <1>5, <1>6

LEMMA StepTyped == TypeOK /\ [Next]_vars => TypeOK'
<1>. SUFFICES ASSUME TypeOK, [Next]_vars PROVE TypeOK'
  OBVIOUS
<1>1. ASSUME NEW c \in Clients, Pass(c) PROVE TypeOK'
  <2>1. CASE Refresh(c)
    <3>1. pc' \in [Clients -> PassSteps] /\ \A d \in Clients : pc'[d] \in Publishing => moving'[d] # NoMove
      BY <2>1, GotoTyped DEF Refresh, PassSteps, Publishing
    <3>2. DecksToSync(decks[c]) \subseteq Decks
      BY DEF DecksToSync, TypeOK
    <3>3. PassTyped' /\ OthersTyped'
      BY <2>1, <3>1, <3>2, ManifestTyped DEF Refresh, TypeOK, PassTyped, OthersTyped, clientVars, userVars
    <3>. QED  BY <2>1, <3>3, RequestsTyped, SameCollections, Whole DEF Refresh, clientVars
  <2>2. CASE CardSyncConflict(c)
    <3>1. PassTyped' /\ OthersTyped'
      BY <2>2, EndPassTyped DEF CardSyncConflict, TypeOK, PassTyped, OthersTyped, clientVars, userVars
    <3>. QED  BY <2>2, <3>1, RequestsTyped, SameCollections, Whole DEF CardSyncConflict, clientVars
  <2>3. CASE save_state(c)
    <3>1. [saved |-> TRUE, decks |-> decks[c], cards |-> Present(cards[c])] \in [saved : BOOLEAN, decks : SUBSET Decks, cards : SUBSET Cards]
      BY DEF TypeOK, Present
    <3>2. PassTyped' /\ OthersTyped'
      BY <2>3, <3>1, EndPassTyped DEF save_state, TypeOK, PassTyped, OthersTyped, userVars
    <3>. QED  BY <2>3, <3>2, RequestsTyped, SameCollections, Whole DEF save_state
  <2>. QED  BY <1>1, <2>1, <2>2, <2>3, StartTyped, DeletesTyped, DecksTyped, CardsTyped, ForceTyped DEF Pass
<1>2. ASSUME NEW c \in Clients, Fail(c) PROVE TypeOK'
  <2>1. events' \in 0..MaxEvents
    BY <1>2, DeckConstants DEF Fail, TypeOK
  <2>2. PassTyped' /\ OthersTyped'
    BY <1>2, <2>1, EndPassTyped DEF Fail, TypeOK, PassTyped, OthersTyped, clientVars
  <2>. QED  BY <1>2, <2>2, RequestsTyped, SameCollections, Whole DEF Fail, clientVars
<1>3. CASE UNCHANGED vars
  BY <1>3 DEF TypeOK, vars, serverVars, clientVars, passVars, userVars, Present
<1>. QED  BY <1>1, <1>2, <1>3, UserTyped DEF Next

(* Every reachable state is well typed; a collection has the decks its cards *)
(* lie in, and the decks above its decks.                                   *)
THEOREM TypeCorrect == Spec => []TypeOK
BY InitTyped, StepTyped, PTL DEF Spec

-----------------------------------------------------------------------------
(* Who removes: every tombstone, pending deletion and part of a snapshot that *)
(* is missing in its collection was deleted by a user or swept with a deck. *)

Excused == deleted \cup swept

StonesExcused == cardStones \subseteq Excused /\ deckStones \subseteq Below(removed)

TodoExcused ==
  \A c \in Clients :
    /\ cardTodo[c] \subseteq Excused
    /\ pc[c] = "delete" => deckTodo[c] \subseteq Below(removed)
    /\ pc[c] \in Publishing => moving[c].old \in removed

SnapshotExcused ==
  \A c \in Clients :
    /\ snapshot[c].cards \ Present(cards[c]) \subseteq Excused
    /\ snapshot[c].decks \ decks[c] \subseteq Below(removed)

RemovalInv == StonesExcused /\ TodoExcused /\ SnapshotExcused

(* The histories only grow.                                                 *)
Grows ==
  /\ Excused \subseteq Excused' /\ removed \subseteq removed'
  /\ Below(removed) \subseteq Below(removed') /\ removed' \subseteq Below(removed')

ServerKeeps ==
  /\ Present(row) \ Excused' \subseteq Present(row')
  /\ deckRow \ Below(removed') \subseteq deckRow'

ClientsKeep ==
  \A c \in Clients :
    /\ Present(cards[c]) \ Excused' \subseteq Present(cards'[c])
    /\ decks[c] \ Below(removed') \subseteq decks'[c]

Keeps == ServerKeeps /\ ClientsKeep

LEMMA InitRemoval == Init => RemovalInv
BY DEF Init, RemovalInv, StonesExcused, TodoExcused, SnapshotExcused, NoSnapshot, Excused, Publishing, Below

LEMMA StepGrows ==
  ASSUME TypeOK, TypeOK', [Next]_vars
  PROVE  Grows
<1>1. Excused \subseteq Excused' /\ removed \subseteq removed'
  <2>1. ASSUME NEW c \in Clients, User(c) PROVE Excused \subseteq Excused' /\ removed \subseteq removed'
    BY <2>1 DEF User, AddDeck, DeleteDeck, PutCardIn, PublishDeck, PublishCard, RenameDeck, PublishNamespace, Local, Excused
  <2>2. ASSUME NEW c \in Clients, Pass(c) PROVE Excused \subseteq Excused' /\ removed \subseteq removed'
    BY <2>2 DEF Pass, Start, PushLocalDeletes, Refresh, sync_decks_once, sync_cards_once, CardSyncConflict, save_state,
                ForceDeck, ForceCards, DeleteOldPath, userVars, Excused
  <2>3. ASSUME NEW c \in Clients, Fail(c) PROVE Excused \subseteq Excused' /\ removed \subseteq removed'
    BY <2>3 DEF Fail, Excused
  <2>4. CASE UNCHANGED vars
    BY <2>4 DEF vars, userVars, Excused
  <2>. QED  BY <2>1, <2>2, <2>3, <2>4 DEF Next
<1>2. removed' \subseteq Decks
  BY DEF TypeOK
<1>. QED  BY <1>1, <1>2, BelowFacts, BelowMonotone DEF Grows

(* Requests that remove only what is excused, or that store what is there.  *)
LEMMA RequestsKeep ==
  ASSUME TypeOK, StonesExcused, Grows,
         \/ \E d \in Decks : UpsertDeck(d)
         \/ \E ds \in SUBSET Below(removed') : DeleteDecks(ds)
         \/ \E keys \in SUBSET Excused' : DeleteCards(keys)
         \/ \E c \in Clients : \E keys \in SUBSET Present(cards[c]) : UpsertCards(cards[c], keys)
         \/ UNCHANGED serverVars
  PROVE  ServerKeeps /\ StonesExcused'
<1>1. ASSUME NEW c \in Clients, NEW keys \in SUBSET Present(cards[c]), UpsertCards(cards[c], keys) PROVE ServerKeeps /\ StonesExcused'
  BY <1>1 DEF UpsertCards, Accepted, Present, Grows, ServerKeeps, StonesExcused
<1>2. CASE UNCHANGED serverVars
  BY <1>2 DEF serverVars, Present, Grows, ServerKeeps, StonesExcused
<1>3. ASSUME NEW keys \in SUBSET Excused', DeleteCards(keys) PROVE ServerKeeps /\ StonesExcused'
  BY <1>3 DEF DeleteCards, Without, Present, Grows, ServerKeeps, StonesExcused
<1>4. ASSUME NEW d \in Decks, UpsertDeck(d) PROVE ServerKeeps /\ StonesExcused'
  BY <1>4 DEF UpsertDeck, Present, Grows, ServerKeeps, StonesExcused
<1>5. ASSUME NEW ds \in SUBSET Below(removed'), DeleteDecks(ds) PROVE ServerKeeps /\ StonesExcused'
  BY <1>5 DEF DeleteDecks, Present, Grows, ServerKeeps, StonesExcused
<1>. QED  BY <1>1, <1>2, <1>3, <1>4, <1>5

(* A collection that keeps what it should, of which one client's changed.   *)
LEMMA CollectionKeeps ==
  ASSUME TypeOK, Grows, NEW c \in Clients, NEW ds, NEW versions,
         decks' = [decks EXCEPT ![c] = ds], cards' = [cards EXCEPT ![c] = versions],
         Present(cards[c]) \ Excused' \subseteq Present(versions),
         decks[c] \ Below(removed') \subseteq ds
  PROVE  ClientsKeep
<1>1. \A d \in Clients : /\ decks'[d] = IF d = c THEN ds ELSE decks[d]
                         /\ cards'[d] = IF d = c THEN versions ELSE cards[d]
  BY DEF TypeOK
<1>. QED  BY <1>1 DEF ClientsKeep

LEMMA SameKeeps ==
  ASSUME decks' = decks, cards' = cards
  PROVE  ClientsKeep
BY DEF ClientsKeep

LEMMA SameSnapshot ==
  ASSUME SnapshotExcused, Grows, ClientsKeep, snapshot' = snapshot
  PROVE  SnapshotExcused'
<1>. SUFFICES ASSUME NEW c \in Clients
              PROVE  /\ snapshot[c].cards \ Present(cards'[c]) \subseteq Excused'
                     /\ snapshot[c].decks \ decks'[c] \subseteq Below(removed')
  BY DEF SnapshotExcused, Present
<1>. QED  BY DEF SnapshotExcused, Grows, ClientsKeep

LEMMA SameTodo ==
  ASSUME TodoExcused, Grows, UNCHANGED passVars
  PROVE  TodoExcused'
BY DEF TodoExcused, Grows, passVars

(* A client that goes on with nothing to delete, or ends.                   *)
LEMMA GoesOn ==
  ASSUME TypeOK, TodoExcused, Grows, NEW c \in Clients,
         \A d \in Clients \ {c} : pc'[d] = pc[d] /\ cardTodo'[d] = cardTodo[d] /\ deckTodo'[d] = deckTodo[d] /\ moving'[d] = moving[d],
         cardTodo'[c] \subseteq Excused',
         pc'[c] = "delete" => deckTodo'[c] \subseteq Below(removed'),
         pc'[c] \in Publishing => moving'[c].old \in removed'
  PROVE  TodoExcused'
BY DEF TodoExcused, Grows

LEMMA EndsExcused ==
  ASSUME TypeOK, TodoExcused, Grows, NEW c \in Clients, EndPass(c)
  PROVE  TodoExcused'
BY GoesOn DEF EndPass, Goto, TypeOK, Publishing

Good == RemovalInv' /\ Keeps

LEMMA LocalGood ==
  ASSUME TypeOK, RemovalInv, Grows, NEW c \in Clients, Local(c), ClientsKeep
  PROVE  Good
<1>1. ServerKeeps /\ StonesExcused'
  BY RequestsKeep DEF Local, RemovalInv
<1>. QED  BY <1>1, SameSnapshot, SameTodo DEF Local, RemovalInv, Good, Keeps

LEMMA UserRemoval ==
  ASSUME TypeOK, TypeOK', RemovalInv, Grows, NEW c \in Clients, User(c)
  PROVE  Good
<1>0. decks[c] \in SUBSET Decks /\ cards[c] \in Versions
  BY DEF TypeOK, Versions
<1>1. ASSUME NEW d \in Decks, AddDeck(c, d) PROVE Good
  <2>1. decks' = [decks EXCEPT ![c] = decks[c] \cup Path(d)] /\ cards' = [cards EXCEPT ![c] = cards[c]]
    BY <1>1 DEF AddDeck, TypeOK
  <2>2. ClientsKeep
    BY <2>1, CollectionKeeps
  <2>. QED  BY <1>1, <2>2, LocalGood DEF AddDeck
<1>2. ASSUME NEW k \in Cards, NEW d \in Decks, NEW time \in Times, PutCardIn(c, k, d, time) PROVE Good
  <2>. DEFINE versions == [cards[c] EXCEPT ![k] = [deck |-> d, time |-> time]]
  <2>1. decks' = [decks EXCEPT ![c] = decks[c] \cup Path(d)] /\ cards' = [cards EXCEPT ![c] = versions]
    BY <1>2 DEF PutCardIn
  <2>2. [deck |-> d, time |-> time] # NoCard
    BY VersionFacts DEF Version
  <2>3. Present(cards[c]) \ Excused' \subseteq Present(versions)
    BY <1>0, <2>2 DEF Present, Versions
  <2>4. ClientsKeep
    BY <2>1, <2>3, CollectionKeeps
  <2>. QED  BY <1>2, <2>4, LocalGood DEF PutCardIn
<1>3. ASSUME NEW old \in Decks, NEW new \in Decks, RenameDeck(c, old, new) PROVE Good
  <2>. DEFINE ds == (decks[c] \ {old}) \cup Path(new)
              versions == [k \in Cards |-> IF k \in Members(cards[c], {old}) THEN [cards[c][k] EXCEPT !.deck = new] ELSE cards[c][k]]
  <2>1. decks' = [decks EXCEPT ![c] = ds] /\ cards' = [cards EXCEPT ![c] = versions]
    BY <1>3 DEF RenameDeck
  <2>2. old \in Below(removed')
    BY <1>3 DEF RenameDeck, Grows
  <2>3. ASSUME NEW k \in Members(cards[c], {old}) PROVE [cards[c][k] EXCEPT !.deck = new] # NoCard
    <3>1. [cards[c][k] EXCEPT !.deck = new] \in Version
      BY <1>0, <2>3 DEF Members, Present, Versions, Version
    <3>. QED  BY <3>1, VersionFacts
  <2>4. Present(cards[c]) \ Excused' \subseteq Present(versions)
    BY <2>3 DEF Present
  <2>5. decks[c] \ Below(removed') \subseteq ds
    BY <2>2
  <2>6. ClientsKeep
    BY <2>1, <2>4, <2>5, CollectionKeeps
  <2>. QED  BY <1>3, <2>6, LocalGood DEF RenameDeck
<1>4. ASSUME NEW d \in Decks, DeleteDeck(c, d) PROVE Good
  <2>. DEFINE versions == Without(cards[c], Members(cards[c], Tree(d)))
  <2>1. decks' = [decks EXCEPT ![c] = decks[c] \ Tree(d)] /\ cards' = [cards EXCEPT ![c] = versions]
    BY <1>4 DEF DeleteDeck
  <2>2. Present(cards[c]) \ Excused' \subseteq Present(versions)
    BY <1>4 DEF DeleteDeck, Excused, Present, Without
  <2>3. decks[c] \ Below(removed') \subseteq decks[c] \ Tree(d)
    BY <1>4 DEF DeleteDeck, Grows
  <2>4. ClientsKeep
    BY <2>1, <2>2, <2>3, CollectionKeeps
  <2>. QED  BY <1>4, <2>4, LocalGood DEF DeleteDeck
<1>5. ASSUME NEW d \in Decks, PublishDeck(c, d) PROVE Good
  <2>1. UpsertDeck(d) \/ (d \in Below(removed') /\ DeleteDecks({d}))
    BY <1>5 DEF PublishDeck, Grows
  <2>2. ServerKeeps /\ StonesExcused'
    BY <2>1, RequestsKeep DEF RemovalInv
  <2>. QED  BY <1>5, <2>2, SameKeeps, SameSnapshot, SameTodo DEF PublishDeck, clientVars, RemovalInv, Good, Keeps
<1>6. ASSUME NEW k \in Cards, PublishCard(c, k) PROVE Good
  <2>1. (k \in Present(cards[c]) /\ UpsertCards(cards[c], {k})) \/ (k \in Excused' /\ DeleteCards({k}))
    BY <1>6 DEF PublishCard, Excused, Present
  <2>2. ServerKeeps /\ StonesExcused'
    BY <2>1, RequestsKeep DEF RemovalInv
  <2>. QED  BY <1>6, <2>2, SameKeeps, SameSnapshot, SameTodo DEF PublishCard, clientVars, RemovalInv, Good, Keeps
<1>7. ASSUME NEW old \in Decks, NEW new \in Decks, PublishNamespace(c, old, new) PROVE Good
  <2>1. ServerKeeps /\ StonesExcused'
    BY <1>7, RequestsKeep DEF PublishNamespace, RemovalInv
  <2>2. TodoExcused'
    <3>1. \A d \in Clients \ {c} : pc'[d] = pc[d] /\ moving'[d] = moving[d]
      BY <1>7 DEF PublishNamespace, Goto, TypeOK
    <3>2. pc'[c] = "pushDeck" /\ moving'[c].old = old /\ old \in removed'
      BY <1>7 DEF PublishNamespace, Goto, TypeOK
    <3>3. cardTodo[c] \subseteq Excused'
      BY DEF RemovalInv, TodoExcused, Grows
    <3>. QED  BY <1>7, <3>1, <3>2, <3>3, GoesOn DEF PublishNamespace, RemovalInv
  <2>. QED  BY <1>7, <2>1, <2>2, SameKeeps, SameSnapshot DEF PublishNamespace, clientVars, RemovalInv, Good, Keeps
<1>. QED  BY <1>1, <1>2, <1>3, <1>4, <1>5, <1>6, <1>7 DEF User

(* What a pass removes and what it takes for deleted.                       *)
LEMMA KeptExcused ==
  ASSUME TypeOK, RemovalInv, Grows, NEW c \in Clients, swept' = swept \cup Sweep(c)
  PROVE  /\ Present(cards[c]) \ Excused' \subseteq Present(KeptCards(c))
         /\ decks[c] \ Below(removed') \subseteq KeptDecks(c)
         /\ MissingCards(c) \subseteq Excused'
         /\ MissingDecks(c) \subseteq Below(removed')
<1>1. Sweep(c) \subseteq Excused' /\ BuriedCards(c) \subseteq Excused'
  BY DEF Excused, BuriedCards, RemovalInv, StonesExcused, Grows
<1>2. Members(cards[c], RemovedDecks(c)) \subseteq BuriedCards(c) \cup Sweep(c)
  <2>1. ASSUME NEW k \in Members(cards[c], RemovedDecks(c)), cards[c][k].deck \in BuriedDecks(c) PROVE k \in BuriedCards(c)
    BY <2>1 DEF Members, BuriedDecks
  <2>2. ASSUME NEW k \in Members(cards[c], RemovedDecks(c)), cards[c][k].deck \notin BuriedDecks(c), k \notin BuriedCards(c) PROVE k \in Sweep(c)
    BY <2>2 DEF Members, Sweep
  <2>. QED  BY <2>1, <2>2
<1>3. Present(cards[c]) \ Excused' \subseteq Present(KeptCards(c))
  BY <1>1, <1>2 DEF KeptCards, Present, Without
<1>4. RemovedDecks(c) \subseteq Below(removed')
  <2>1. BuriedDecks(c) \subseteq Below(removed)
    BY DEF BuriedDecks, RemovalInv, StonesExcused
  <2>2. Below(BuriedDecks(c)) \subseteq Below(Below(removed))
    BY <2>1, BelowMonotone
  <2>3. Below(Below(removed)) \subseteq Below(removed)
    BY BelowFacts DEF TypeOK
  <2>. QED  BY <2>2, <2>3 DEF RemovedDecks, Below, Grows
<1>5. decks[c] \ Below(removed') \subseteq KeptDecks(c)
  BY <1>4 DEF KeptDecks
<1>6. snapshot[c].cards \ Present(cards[c]) \subseteq Excused' /\ snapshot[c].decks \ decks[c] \subseteq Below(removed')
  BY DEF RemovalInv, SnapshotExcused, Grows
<1>7. MissingCards(c) \subseteq Excused' /\ MissingDecks(c) \subseteq Below(removed')
  BY <1>3, <1>5, <1>6 DEF MissingCards, MissingDecks
<1>. QED  BY <1>3, <1>5, <1>7

LEMMA StartRemoval ==
  ASSUME TypeOK, RemovalInv, Grows, NEW c \in Clients, NEW approved \in BOOLEAN, Start(c, approved)
  PROVE  Good
<1>1. ServerKeeps /\ StonesExcused'
  BY RequestsKeep DEF Start, RemovalInv
<1>2. ClientsKeep
  BY KeptExcused, CollectionKeeps DEF Start
<1>3. TodoExcused'
  <2>1. cardTodo[c] \subseteq Excused' /\ (pc[c] = "delete" => deckTodo[c] \subseteq Below(removed'))
    BY DEF RemovalInv, TodoExcused, Grows
  <2>2. MissingCards(c) \subseteq Excused' /\ MissingDecks(c) \subseteq Below(removed')
    BY KeptExcused DEF Start
  <2>3. pc'[c] \in {"idle", "decks", "delete"}
    BY DEF Start, Goto, TypeOK
  <2>4. cardTodo'[c] \subseteq Excused'
    BY <2>1, <2>2 DEF Start, TypeOK
  <2>5. pc'[c] = "delete" => deckTodo'[c] \subseteq Below(removed')
    BY <2>2 DEF Start, Goto, TypeOK
  <2>6. \A d \in Clients \ {c} : pc'[d] = pc[d] /\ cardTodo'[d] = cardTodo[d] /\ deckTodo'[d] = deckTodo[d] /\ moving'[d] = moving[d]
    BY DEF Start, Goto, TypeOK
  <2>. QED  BY <2>3, <2>4, <2>5, <2>6, GoesOn DEF RemovalInv, Publishing
<1>. QED  BY <1>1, <1>2, <1>3, SameSnapshot DEF Start, RemovalInv, Good, Keeps

LEMMA DecksRemoval ==
  ASSUME TypeOK, RemovalInv, Grows, NEW c \in Clients, sync_decks_once(c)
  PROVE  Good
<1>1. PICK d \in deckTodo[c] : PushDeck(c, d) \/ PullDeck(c, d) \/ MissDeck(c, d)
  BY DEF sync_decks_once
<1>2. d \in Decks
  BY DEF TypeOK
<1>3. ServerKeeps /\ StonesExcused'
  BY <1>1, <1>2, RequestsKeep DEF PushDeck, PullDeck, MissDeck, RemovalInv
<1>4. ClientsKeep
  <2>1. \E ds : decks' = [decks EXCEPT ![c] = ds] /\ decks[c] \subseteq ds
    BY <1>1 DEF PushDeck, PullDeck, MissDeck, TypeOK
  <2>2. cards' = [cards EXCEPT ![c] = cards[c]]
    BY DEF sync_decks_once, TypeOK
  <2>. QED  BY <2>1, <2>2, CollectionKeeps
<1>5. TodoExcused'
  <2>1. CASE MissDeck(c, d)
    BY <2>1, EndsExcused DEF MissDeck, RemovalInv
  <2>2. CASE PushDeck(c, d) \/ PullDeck(c, d)
    <3>1. pc' = pc /\ pc[c] = "decks" /\ moving' = moving /\ cardTodo' = cardTodo
      BY <2>2 DEF PushDeck, PullDeck, sync_decks_once
    <3>2. \A e \in Clients \ {c} : deckTodo'[e] = deckTodo[e]
      BY <2>2 DEF PushDeck, PullDeck, TypeOK
    <3>3. cardTodo[c] \subseteq Excused'
      BY DEF RemovalInv, TodoExcused, Grows
    <3>. QED  BY <3>1, <3>2, <3>3, GoesOn DEF RemovalInv, Publishing
  <2>. QED  BY <1>1, <2>1, <2>2
<1>. QED  BY <1>3, <1>4, <1>5, SameSnapshot DEF sync_decks_once, RemovalInv, Good, Keeps

LEMMA CardsRemoval ==
  ASSUME TypeOK, RemovalInv, Grows, NEW c \in Clients, sync_cards_once(c)
  PROVE  Good
<1>. DEFINE ds == decks[c] \cup UNION {Path(row[k].deck) : k \in Pulled(c)}
            versions == [k \in Cards |-> IF k \in Pulled(c) THEN row[k] ELSE cards[c][k]]
<1>1. decks' = [decks EXCEPT ![c] = ds] /\ cards' = [cards EXCEPT ![c] = versions]
  BY DEF sync_cards_once
<1>2. Present(cards[c]) \ Excused' \subseteq Present(versions)
  BY DEF Present, Pulled
<1>3. ClientsKeep
  BY <1>1, <1>2, CollectionKeeps
<1>4. CardsToPush(c) \in SUBSET Present(cards[c])
  BY DEF CardsToPush, Both
<1>5. ServerKeeps /\ StonesExcused'
  BY <1>4, RequestsKeep DEF sync_cards_once, RemovalInv
<1>6. pc'[c] \in {"save", "conflict"} /\ \A d \in Clients \ {c} : pc'[d] = pc[d]
  BY DEF sync_cards_once, Goto, TypeOK
<1>7. cardTodo[c] \subseteq Excused'
  BY DEF RemovalInv, TodoExcused, Grows
<1>8. TodoExcused'
  BY <1>6, <1>7, GoesOn DEF sync_cards_once, RemovalInv, Publishing
<1>. QED  BY <1>3, <1>5, <1>8, SameSnapshot DEF sync_cards_once, RemovalInv, Good, Keeps

LEMMA DeletesRemoval ==
  ASSUME TypeOK, RemovalInv, Grows, NEW c \in Clients, PushLocalDeletes(c)
  PROVE  Good
<1>1. cardTodo[c] \subseteq Excused' /\ deckTodo[c] \subseteq Below(removed')
  BY DEF PushLocalDeletes, RemovalInv, TodoExcused, Grows
<1>2. ServerKeeps /\ StonesExcused'
  BY <1>1, RequestsKeep DEF PushLocalDeletes, RemovalInv
<1>3. ClientsKeep
  BY SameKeeps DEF PushLocalDeletes, clientVars
<1>4. pc'[c] \in {"refresh", "delete"} /\ \A d \in Clients \ {c} : pc'[d] = pc[d]
  BY DEF PushLocalDeletes, Goto, TypeOK
<1>5. cardTodo'[c] \subseteq Excused' /\ deckTodo'[c] \subseteq Below(removed')
  BY <1>1 DEF PushLocalDeletes, TypeOK
<1>6. \A d \in Clients \ {c} : cardTodo'[d] = cardTodo[d] /\ deckTodo'[d] = deckTodo[d] /\ moving'[d] = moving[d]
  BY DEF PushLocalDeletes, TypeOK
<1>7. TodoExcused'
  BY <1>4, <1>5, <1>6, GoesOn DEF RemovalInv, Publishing
<1>. QED  BY <1>2, <1>3, <1>7, SameSnapshot DEF PushLocalDeletes, clientVars, RemovalInv, Good, Keeps

LEMMA ForceRemoval ==
  ASSUME TypeOK, RemovalInv, Grows, NEW c \in Clients, ForceDeck(c) \/ ForceCards(c) \/ DeleteOldPath(c)
  PROVE  Good
<1>0. pc[c] \in Publishing
  BY DEF ForceDeck, ForceCards, DeleteOldPath, Publishing
<1>1. moving[c].new \in Decks /\ moving[c].old \in Below(removed')
  BY <1>0, MoveFacts DEF RemovalInv, TodoExcused, Grows
<1>2. Members(cards[c], {moving[c].new}) \in SUBSET Present(cards[c])
  BY DEF Members
<1>3. ServerKeeps /\ StonesExcused'
  BY <1>1, <1>2, RequestsKeep DEF ForceDeck, ForceCards, DeleteOldPath, RemovalInv
<1>4. ClientsKeep
  BY SameKeeps DEF ForceDeck, ForceCards, DeleteOldPath, clientVars
<1>5. TodoExcused'
  <2>1. CASE DeleteOldPath(c)
    BY <2>1, EndsExcused DEF DeleteOldPath, RemovalInv
  <2>2. CASE ForceDeck(c) \/ ForceCards(c)
    <3>1. pc'[c] \in Publishing \ {"delete"} /\ \A d \in Clients \ {c} : pc'[d] = pc[d]
      BY <2>2 DEF ForceDeck, ForceCards, Goto, TypeOK, Publishing
    <3>2. cardTodo[c] \subseteq Excused' /\ moving[c].old \in removed'
      BY <1>0 DEF RemovalInv, TodoExcused, Grows
    <3>. QED  BY <2>2, <3>1, <3>2, GoesOn DEF ForceDeck, ForceCards, RemovalInv
  <2>. QED  BY <2>1, <2>2
<1>. QED  BY <1>3, <1>4, <1>5, SameSnapshot DEF ForceDeck, ForceCards, DeleteOldPath, clientVars, RemovalInv, Good, Keeps

LEMMA StepRemoval == TypeOK /\ RemovalInv /\ [Next]_vars => Good
<1>. SUFFICES ASSUME TypeOK, RemovalInv, [Next]_vars PROVE Good
  OBVIOUS
<1>0. TypeOK' /\ Grows
  BY StepTyped, StepGrows
<1>1. ASSUME NEW c \in Clients, UNCHANGED <<serverVars, decks, cards>>, TodoExcused', SnapshotExcused' PROVE Good
  BY <1>0, <1>1, RequestsKeep, SameKeeps DEF RemovalInv, Good, Keeps
<1>2. ASSUME NEW c \in Clients, Pass(c) PROVE Good
  <2>1. CASE Refresh(c)
    <3>1. pc'[c] = "decks" /\ \A d \in Clients \ {c} : pc'[d] = pc[d] /\ deckTodo'[d] = deckTodo[d]
      BY <2>1 DEF Refresh, Goto, TypeOK
    <3>2. cardTodo[c] \subseteq Excused'
      BY <1>0 DEF RemovalInv, TodoExcused, Grows
    <3>3. TodoExcused'
      BY <1>0, <2>1, <3>1, <3>2, GoesOn DEF Refresh, RemovalInv, Publishing
    <3>. QED  BY <1>0, <1>1, <2>1, <3>3, SameKeeps, SameSnapshot DEF Refresh, clientVars, RemovalInv
  <2>2. CASE CardSyncConflict(c)
    BY <1>0, <1>1, <2>2, EndsExcused, SameKeeps, SameSnapshot DEF CardSyncConflict, clientVars, RemovalInv
  <2>3. CASE save_state(c)
    <3>1. SnapshotExcused'
      BY <1>0, <2>3 DEF save_state, TypeOK, RemovalInv, SnapshotExcused, Grows, Present
    <3>. QED  BY <1>0, <1>1, <2>3, <3>1, EndsExcused DEF save_state, RemovalInv
  <2>. QED  BY <1>0, <1>2, <2>1, <2>2, <2>3, StartRemoval, DeletesRemoval, DecksRemoval, CardsRemoval, ForceRemoval DEF Pass
<1>3. ASSUME NEW c \in Clients, Fail(c) PROVE Good
  BY <1>0, <1>1, <1>3, EndsExcused, SameKeeps, SameSnapshot DEF Fail, clientVars, RemovalInv
<1>4. CASE UNCHANGED vars
  <2>1. ServerKeeps /\ StonesExcused' /\ ClientsKeep /\ TodoExcused'
    BY <1>0, <1>4, RequestsKeep, SameKeeps, SameTodo DEF vars, clientVars, RemovalInv
  <2>. QED  BY <1>0, <1>4, <2>1, SameSnapshot DEF vars, clientVars, RemovalInv, Good, Keeps
<1>. QED  BY <1>0, <1>2, <1>3, <1>4, UserRemoval DEF Next

(* A card no user deleted and Anki did not remove with a deck, and a deck that *)
(* no user removed, nor a deck above it, never disappears.                  *)
THEOREM OnlyUsersRemoveHolds == Spec => OnlyUsersRemove
<1>. DEFINE Kept ==
       /\ \A k \in Cards \ (deleted' \cup swept') :
            /\ row[k] # NoCard => row'[k] # NoCard
            /\ \A c \in Clients : cards[c][k] # NoCard => cards'[c][k] # NoCard
       /\ \A d \in Decks \ Below(removed') :
            /\ d \in deckRow => d \in deckRow'
            /\ \A c \in Clients : d \in decks[c] => d \in decks'[c]
<1>1. Keeps => Kept
  BY DEF Keeps, ServerKeeps, ClientsKeep, Present, Excused
<1>2. TypeOK /\ RemovalInv /\ [Next]_vars => (TypeOK /\ RemovalInv)' /\ Kept
  BY <1>1, StepTyped, StepRemoval DEF Good
<1>3. OnlyUsersRemove <=> [][Kept]_vars
  BY DEF OnlyUsersRemove
<1>. HIDE DEF Kept
<1>. QED  BY <1>2, <1>3, InitTyped, InitRemoval, PTL DEF Spec

-----------------------------------------------------------------------------
(* A publication that nothing overlaps: what it has sent is still there.     *)

Later(c, k) == row[k] # NoCard /\ (row[k].deck = moving[c].new \/ row[k].time > cards[c][k].time)

Sent(c) ==
  /\ moving[c].old # moving[c].new
  /\ pc[c] \in {"pushCards", "deleteOld"} => moving[c].new \in deckRow
  /\ pc[c] = "deleteOld" => \A k \in Members(cards[c], {moving[c].new}) : Later(c, k)

MoveInv == \A c \in Clients \ disturbed : pc[c] \in Publishing => Sent(c)

LEMMA InitMove == Init => MoveInv
BY DEF Init, MoveInv, Publishing

(* The step of another client does not touch what the publication goes by,   *)
(* nor the server, or it is counted as a disturbance.                       *)
LEMMA OthersQuiet ==
  ASSUME TypeOK, NEW c \in Clients, NEW e \in Clients \ {c}, User(e) \/ Pass(e) \/ Fail(e), pc'[c] \in Publishing, c \notin disturbed'
  PROVE  /\ c \notin disturbed /\ pc'[c] = pc[c] /\ moving'[c] = moving[c] /\ cards'[c] = cards[c]
         /\ UNCHANGED serverVars
<1>1. ASSUME NEW step, Goto(e, step) PROVE pc'[c] = pc[c]
  BY <1>1 DEF Goto, TypeOK
<1>2. ASSUME Local(e), \E versions : cards' = [cards EXCEPT ![e] = versions]
      PROVE  /\ c \notin disturbed /\ pc'[c] = pc[c] /\ moving'[c] = moving[c] /\ cards'[c] = cards[c]
             /\ UNCHANGED serverVars
  BY <1>2 DEF Local, passVars, TypeOK
<1>3. CASE User(e)
  <2>1. CASE \E d \in Decks : AddDeck(e, d)
    BY <2>1, <1>2 DEF AddDeck, TypeOK
  <2>2. CASE \E k \in Cards, d \in Decks, time \in Times : PutCardIn(e, k, d, time)
    BY <2>2, <1>2 DEF PutCardIn
  <2>3. CASE \E d, f \in Decks : RenameDeck(e, d, f)
    BY <2>3, <1>2 DEF RenameDeck
  <2>4. CASE \E d \in Decks : DeleteDeck(e, d)
    BY <2>4, <1>2 DEF DeleteDeck
  <2>5. CASE (\E d \in Decks : PublishDeck(e, d)) \/ \E k \in Cards : PublishCard(e, k)
    <3>1. pc'[c] = pc[c] /\ Disturb(e)
      BY <2>5 DEF PublishDeck, PublishCard, passVars
    <3>. QED  BY <3>1 DEF Disturb
  <2>6. CASE \E d, f \in Decks : PublishNamespace(e, d, f)
    <3>1. /\ \E step : Goto(e, step)
          /\ disturbed' = disturbed \ {e} /\ UNCHANGED serverVars /\ cards' = cards
          /\ \E move : moving' = [moving EXCEPT ![e] = move]
      BY <2>6 DEF PublishNamespace, clientVars
    <3>. QED  BY <1>1, <3>1 DEF TypeOK
  <2>. QED  BY <1>3, <2>1, <2>2, <2>3, <2>4, <2>5, <2>6 DEF User
<1>4. ASSUME Disturb(e), pc'[c] = pc[c] PROVE FALSE
  BY <1>4 DEF Disturb
<1>5. ASSUME EndPass(e) PROVE pc'[c] = pc[c] /\ moving'[c] = moving[c]
  BY <1>1, <1>5 DEF EndPass, TypeOK
<1>6. CASE Pass(e)
  <2>1. CASE \E approved \in BOOLEAN : Start(e, approved)
    <3>1. pc'[c] = pc[c]
      BY <2>1, <1>1 DEF Start
    <3>. QED  BY <2>1, <3>1 DEF Start, TypeOK
  <2>2. CASE PushLocalDeletes(e)
    BY <2>2, <1>1, <1>4 DEF PushLocalDeletes
  <2>3. CASE Refresh(e)
    BY <2>3, <1>1 DEF Refresh, clientVars
  <2>4. CASE sync_decks_once(e)
    <3>1. PICK d \in deckTodo[e] : PushDeck(e, d) \/ PullDeck(e, d) \/ MissDeck(e, d)
      BY <2>4 DEF sync_decks_once
    <3>. QED  BY <2>4, <3>1, <1>4, <1>5 DEF sync_decks_once, PushDeck, PullDeck, MissDeck
  <2>5. CASE sync_cards_once(e)
    BY <2>5, <1>1, <1>4 DEF sync_cards_once
  <2>6. CASE CardSyncConflict(e)
    BY <2>6, <1>5 DEF CardSyncConflict, clientVars
  <2>7. CASE save_state(e)
    BY <2>7, <1>5 DEF save_state
  <2>8. CASE ForceDeck(e) \/ ForceCards(e) \/ DeleteOldPath(e)
    <3>1. pc'[c] = pc[c]
      BY <2>8, <1>1, <1>5 DEF ForceDeck, ForceCards, DeleteOldPath
    <3>. QED  BY <2>8, <3>1, <1>4 DEF ForceDeck, ForceCards, DeleteOldPath
  <2>. QED  BY <1>6, <2>1, <2>2, <2>3, <2>4, <2>5, <2>6, <2>7, <2>8 DEF Pass
<1>7. CASE Fail(e)
  BY <1>7, <1>5 DEF Fail, clientVars
<1>. QED  BY <1>3, <1>6, <1>7

(* The client's own steps.                                                  *)
LEMMA OwnSent ==
  ASSUME TypeOK, MoveInv, NEW c \in Clients, User(c) \/ Pass(c) \/ Fail(c), pc'[c] \in Publishing, c \notin disturbed'
  PROVE  Sent(c)'
<1>1. ASSUME NEW step, Goto(c, step) PROVE pc'[c] = step
  BY <1>1 DEF Goto, TypeOK
<1>2. ASSUME EndPass(c) PROVE FALSE
  BY <1>1, <1>2 DEF EndPass, Publishing
<1>3. CASE User(c)
  <2>0. pc[c] \notin Publishing
    BY <1>3 DEF User, AddDeck, DeleteDeck, PutCardIn, PublishDeck, PublishCard, RenameDeck, PublishNamespace, Local, Act, Publishing
  <2>1. \E d, f \in Decks : PublishNamespace(c, d, f)
    BY <1>3, <2>0 DEF User, AddDeck, DeleteDeck, PutCardIn, PublishDeck, PublishCard, RenameDeck, Local, passVars
  <2>2. PICK old \in Decks, new \in Decks : PublishNamespace(c, old, new)
    BY <2>1
  <2>3. pc'[c] = "pushDeck" /\ old # new
    BY <2>2, <1>1 DEF PublishNamespace, SameCards
  <2>4. moving'[c] = [old |-> old, new |-> new]
    BY <2>2 DEF PublishNamespace, TypeOK
  <2>. QED  BY <2>3, <2>4 DEF Sent
<1>4. CASE Pass(c)
  <2>1. ForceDeck(c) \/ ForceCards(c)
    <3>1. ~(Refresh(c) \/ CardSyncConflict(c) \/ save_state(c) \/ DeleteOldPath(c))
      BY <1>1, <1>2 DEF Refresh, CardSyncConflict, save_state, DeleteOldPath, Publishing
    <3>2. ~PushLocalDeletes(c)
      BY <1>1 DEF PushLocalDeletes, Publishing
    <3>3. ~sync_cards_once(c)
      BY <1>1 DEF sync_cards_once, Publishing
    <3>4. ~sync_decks_once(c)
      <4>. SUFFICES ASSUME sync_decks_once(c) PROVE FALSE
        OBVIOUS
      <4>1. pc[c] = "decks" /\ (pc' = pc \/ EndPass(c))
        BY DEF sync_decks_once, PushDeck, PullDeck, MissDeck
      <4>. QED  BY <4>1, <1>2 DEF Publishing
    <3>5. ~\E approved \in BOOLEAN : Start(c, approved)
      BY <1>1 DEF Start, Publishing
    <3>. QED  BY <1>4, <3>1, <3>2, <3>3, <3>4, <3>5 DEF Pass
  <2>2. pc[c] \in Publishing /\ moving' = moving /\ cards' = cards /\ c \notin disturbed
    BY <2>1 DEF ForceDeck, ForceCards, Publishing, Disturb, clientVars
  <2>3. Sent(c)
    BY <2>2 DEF MoveInv
  <2>4. CASE ForceDeck(c)
    <3>1. pc'[c] = "pushCards" /\ moving[c].new \in deckRow'
      BY <2>4, <1>1 DEF ForceDeck, UpsertDeck
    <3>. QED  BY <2>2, <2>3, <3>1 DEF Sent
  <2>5. CASE ForceCards(c)
    <3>1. pc'[c] = "deleteOld" /\ moving[c].new \in deckRow'
      BY <2>3, <2>5, <1>1 DEF ForceCards, UpsertCards, Sent
    <3>2. ASSUME NEW k \in Members(cards[c], {moving[c].new})
          PROVE  row'[k] # NoCard /\ (row'[k].deck = moving[c].new \/ row'[k].time > cards[c][k].time)
      <4>1. k \in Cards /\ cards[c][k] \in Version /\ cards[c][k].deck = moving[c].new
        BY DEF Members, Present, TypeOK
      <4>2. cards[c][k] # NoCard /\ cards[c][k].time \in Nat
        BY <4>1, VersionFacts
      <4>3. CASE k \in Accepted(cards[c], Members(cards[c], {moving[c].new}))
        BY <2>5, <4>1, <4>2, <4>3 DEF ForceCards, UpsertCards
      <4>4. CASE k \notin Accepted(cards[c], Members(cards[c], {moving[c].new}))
        <5>1. row[k] # NoCard /\ ~(row[k].time <= cards[c][k].time)
          BY <4>4 DEF Accepted
        <5>2. row[k].time \in Nat
          BY <4>1, <5>1, VersionFacts DEF TypeOK
        <5>3. row'[k] = row[k]
          BY <2>5, <4>1, <4>4 DEF ForceCards, UpsertCards
        <5>. QED  BY <4>2, <5>1, <5>2, <5>3
      <4>. QED  BY <4>3, <4>4
    <3>. QED  BY <2>2, <2>3, <3>1, <3>2 DEF Sent, Later, Members, Present
  <2>. QED  BY <2>1, <2>4, <2>5
<1>5. CASE Fail(c)
  BY <1>2, <1>5 DEF Fail
<1>. QED  BY <1>3, <1>4, <1>5

LEMMA StepMove == TypeOK /\ MoveInv /\ [Next]_vars => MoveInv'
<1>. SUFFICES ASSUME TypeOK, MoveInv, [Next]_vars, NEW c \in Clients, c \notin disturbed', pc'[c] \in Publishing
              PROVE  Sent(c)'
  BY DEF MoveInv
<1>1. CASE UNCHANGED vars
  BY <1>1 DEF vars, serverVars, clientVars, passVars, MoveInv, Sent, Later, Members, Present
<1>2. ASSUME NEW e \in Clients \ {c}, User(e) \/ Pass(e) \/ Fail(e) PROVE Sent(c)'
  <2>1. /\ c \notin disturbed /\ pc'[c] = pc[c] /\ moving'[c] = moving[c] /\ cards'[c] = cards[c]
        /\ UNCHANGED serverVars
    BY <1>2, OthersQuiet
  <2>2. Sent(c)
    BY <2>1 DEF MoveInv
  <2>. QED  BY <2>1, <2>2 DEF Sent, Later, Members, Present, serverVars
<1>. QED  BY <1>1, <1>2, OwnSent DEF Next

(* A publication ends without a failure only by its last request.            *)
LEMMA FinishesFact ==
  ASSUME TypeOK, [Next]_vars, NEW c \in Clients, Finishes(c)
  PROVE  DeleteOldPath(c)
<1>0. pc[c] = "deleteOld" /\ pc'[c] = "idle" /\ events' = events /\ events \in Nat
  BY DeckConstants DEF Finishes, TypeOK
<1>1. ~UNCHANGED vars
  BY <1>0 DEF vars, passVars
<1>2. ASSUME NEW e \in Clients \ {c}, NEW step, Goto(e, step) PROVE FALSE
  BY <1>0, <1>2 DEF Goto, TypeOK
<1>3. ASSUME NEW e \in Clients, User(e) \/ Fail(e) PROVE FALSE
  <2>1. events' = events + 1
    BY <1>3 DEF User, AddDeck, DeleteDeck, PutCardIn, PublishDeck, PublishCard, RenameDeck, PublishNamespace, Local, Act, Fail
  <2>. QED  BY <1>0, <2>1
<1>4. ASSUME NEW e \in Clients, e # c, Pass(e) PROVE FALSE
  <2>1. pc' # pc
    BY <1>0
  <2>2. \E step : Goto(e, step)
    BY <1>4, <2>1 DEF Pass, Start, PushLocalDeletes, Refresh, sync_decks_once, PushDeck, PullDeck, MissDeck, sync_cards_once,
                     CardSyncConflict, save_state, ForceDeck, ForceCards, DeleteOldPath, EndPass
  <2>. QED  BY <1>2, <1>4, <2>2
<1>5. ASSUME Pass(c) PROVE DeleteOldPath(c)
  BY <1>0, <1>5 DEF Pass, Start, PushLocalDeletes, Refresh, sync_decks_once, sync_cards_once, CardSyncConflict, save_state, ForceDeck, ForceCards
<1>. QED  BY <1>1, <1>3, <1>4, <1>5 DEF Next

(* For any decks, cards and clients, a publication of a path that no other    *)
(* client's request overlaps leaves the new path with its cards.            *)
THEOREM NamespaceMovedHolds == Spec => NamespaceMoved
<1>. DEFINE Moved ==
       \A c \in Clients \ disturbed : Finishes(c) =>
         /\ moving[c].new \in deckRow' /\ moving[c].old \notin deckRow'
         /\ \A k \in Members(cards[c], {moving[c].new}) :
              row'[k] # NoCard /\ (row'[k].deck = moving[c].new \/ row'[k].time > cards[c][k].time)
<1>1. ASSUME TypeOK, MoveInv, [Next]_vars PROVE Moved
  <2>. SUFFICES ASSUME NEW c \in Clients \ disturbed, Finishes(c)
                PROVE  /\ moving[c].new \in deckRow' /\ moving[c].old \notin deckRow'
                       /\ \A k \in Members(cards[c], {moving[c].new}) :
                            row'[k] # NoCard /\ (row'[k].deck = moving[c].new \/ row'[k].time > cards[c][k].time)
    OBVIOUS
  <2>1. Sent(c)
    BY <1>1 DEF MoveInv, Finishes, Publishing
  <2>2. DeleteOldPath(c)
    BY <1>1, FinishesFact
  <2>. QED  BY <2>1, <2>2 DEF DeleteOldPath, DeleteDecks, Sent, Later, Finishes
<1>2. TypeOK /\ MoveInv /\ [Next]_vars => (TypeOK /\ MoveInv)' /\ Moved
  BY <1>1, StepTyped, StepMove
<1>3. NamespaceMoved <=> [][Moved]_vars
  BY DEF NamespaceMoved
<1>. HIDE DEF Moved
<1>. QED  BY <1>2, <1>3, InitTyped, InitMove, PTL DEF Spec
=============================================================================
