---------------------------- MODULE SessionProofs ----------------------------
(***************************************************************************)
(* Proofs about Session, for any number of items, files, view states and   *)
(* starts of the program: a session that crashed comes back, but for what  *)
(* the autosave cannot name, and the slots of a loaded playlist name their *)
(* items.                                                                  *)
(***************************************************************************)
EXTENDS Session, ListsProofs

ItemType == [id: Nat, source: Source, playlistID: Id]

\* No two items have the same id.
DistinctIds(items) ==
    \A j, k \in DOMAIN items : items[j].id = items[k].id => j = k

Playback  == [currentFrameIdx: Frame, lastValidFrameIdx: Frame]
SavedItem == [id: Nat, source: Source \cup {Garbled}]

\* An item with this id shows a file.
ShowsFile(items, id) ==
    \E k \in DOMAIN items : items[k].id = id /\ items[k].source \in Files

\* There is a current frame exactly if a file is selected.
FrameOf(items, id, p) == p.currentFrameIdx # -1 <=> ShowsFile(items, id)

TreeInv ==
    /\ playlist \in Seq(ItemType) /\ idCounter \in Nat
    /\ selected \in Ids(playlist) \cup {None}
    /\ selectionStates \in [Slots -> State] /\ playback \in Playback
    /\ DistinctIds(playlist)
    /\ \A k \in DOMAIN playlist : playlist[k].id < idCounter
    /\ FrameOf(playlist, selected, playback)

\* Nothing is left in memory of a program that has ended.
EndedInv ==
    /\ running \in BOOLEAN
    /\ ~running => /\ playlist = <<>> /\ idCounter = 0 /\ selected = None
                   /\ selectionStates = NoSlots /\ playback = NoPlayback

\* A playlist that can be loaded, and one that was saved by the program.
Readable(c) == c \in Saved /\ DistinctIds(c.items)
Written(c)  == /\ Readable(c)
               /\ \A k \in DOMAIN c.items : c.items[k].source \in Source
               /\ \A s \in Slots : c.slots[s].frame = -1 => c.slots[s].item = None
               /\ FrameOf(c.items, c.current.item, [currentFrameIdx |-> c.current.frame])

\* What a saved playlist shows.
ShownSlot(items, state) ==
    IF state.frame = -1 \/ state.item \notin Ids(items) THEN NoMark
    ELSE [place |-> Place(items, state.item), frame |-> state.frame]
Shown(c) == [sources |-> [k \in DOMAIN c.items |-> c.items[k].source],
             slots |-> [s \in Slots |-> ShownSlot(c.items, c.slots[s])],
             current |-> [place |-> Place(c.items, c.current.item), frame |-> c.current.frame]]

FileInv == playlistFile # None => Written(playlistFile)

\* The autosave is what the user saw when it was made, in Latin-1.
Ticked(file, seen) ==
    \/ file = None /\ seen = None
    \/ \E c \in Saved : Written(c) /\ file = InLatin1(c) /\ seen = Shown(c) /\ seen # None
TickInv == Ticked(autosave, atTick)

\* The inductive invariant.
SessionInv == TreeInv /\ EndedInv /\ FileInv /\ TickInv
-----------------------------------------------------------------------------
(* Searching a list.                                                       *)

LEMMA LargestNumber ==
    ASSUME NEW n \in Nat, NEW S, S \subseteq 1 .. n, S # {}
    PROVE  \E m \in S : \A j \in S : j <= m
<1> DEFINE T == {n - j : j \in S}
<1>1. T \subseteq Nat /\ T # {}
  <2>1. \A j \in S : n - j \in Nat
    OBVIOUS
  <2>2. QED
    BY <2>1
<1> HIDE DEF T
<1>2. PICK t \in T : \A u \in T : t <= u
  BY <1>1, LeastNumber
<1>3. PICK m \in S : t = n - m
  BY DEF T
<1>4. ASSUME NEW j \in S
      PROVE  j <= m
  <2>1. n - j \in T /\ j \in Int /\ m \in Int
    BY DEF T
  <2>2. n - m <= n - j
    BY <1>2, <1>3, <2>1
  <2>3. QED
    BY <2>1, <2>2
<1>5. QED
  BY <1>4

\* The place of an id that one item has, and of one that no item has.
LEMMA PlaceLemma ==
    ASSUME NEW E, NEW items \in Seq(E), NEW id
    PROVE  /\ (\A k \in DOMAIN items : items[k].id # id) => Place(items, id) = 0
           /\ \A k \in DOMAIN items :
                items[k].id = id /\ (\A j \in DOMAIN items : items[j].id = id => j = k)
                => Place(items, id) = k
<1> DEFINE I == {k \in 1 .. Len(items) : items[k].id = id}
<1>1. Place(items, id) = IF I # {} THEN Min(I) ELSE 0
  BY DEF Place, SelectInSeq
<1>2. DOMAIN items = 1 .. Len(items) /\ Len(items) \in Nat
  OBVIOUS
<1>3. ASSUME \A k \in DOMAIN items : items[k].id # id
      PROVE  Place(items, id) = 0
  BY <1>1, <1>2, <1>3
<1>4. ASSUME NEW k \in DOMAIN items, items[k].id = id,
             \A j \in DOMAIN items : items[j].id = id => j = k
      PROVE  Place(items, id) = k
  <2>1. I = {k} /\ k \in Nat
    BY <1>2, <1>4
  <2>2. Min(I) = k
    BY <2>1 DEF Min
  <2>3. QED
    BY <1>1, <2>1, <2>2
<1>5. QED
  BY <1>3, <1>4

\* A place is 0 or that of an item with the id.
LEMMA PlaceIsFound ==
    ASSUME NEW E, NEW items \in Seq(E), DistinctIds(items), NEW id
    PROVE  \/ Place(items, id) = 0 /\ \A k \in DOMAIN items : items[k].id # id
           \/ Place(items, id) \in DOMAIN items /\ items[Place(items, id)].id = id
<1>1. CASE \A k \in DOMAIN items : items[k].id # id
  BY <1>1, PlaceLemma
<1>2. CASE \E k \in DOMAIN items : items[k].id = id
  <2>1. PICK k \in DOMAIN items : items[k].id = id
    BY <1>2
  <2>2. \A j \in DOMAIN items : items[j].id = id => j = k
    BY <2>1 DEF DistinctIds
  <2>3. Place(items, id) = k
    BY <2>1, <2>2, PlaceLemma
  <2>4. QED
    BY <2>1, <2>3
<1>3. QED
  BY <1>1, <1>2

LEMMA PlaceType ==
    ASSUME NEW E, NEW items \in Seq(E), DistinctIds(items), NEW id
    PROVE  Place(items, id) \in Nat
<1>1. DOMAIN items \subseteq Nat
  OBVIOUS
<1>2. QED
  BY <1>1, PlaceIsFound

\* The item that remembers an id, if no item behind it does.
LEMMA RememberedLemma ==
    ASSUME NEW items \in Seq(ItemType), NEW id \in Id
    PROVE  /\ (id = None \/ \A k \in DOMAIN items : items[k].playlistID # id)
              => ItemWithPlaylistID(items, id) = None
           /\ \A k \in DOMAIN items :
                /\ id # None /\ items[k].playlistID = id
                /\ \A j \in DOMAIN items : items[j].playlistID = id => j <= k
                => ItemWithPlaylistID(items, id) = items[k].id
           /\ ItemWithPlaylistID(items, id) \in Id
<1> DEFINE I == {k \in 1 .. Len(items) : id # None /\ items[k].playlistID = id}
           last == IF I # {} THEN Max(I) ELSE 0
<1>1. ItemWithPlaylistID(items, id) = IF last = 0 THEN None ELSE items[last].id
  BY DEF ItemWithPlaylistID, SelectLastInSeq
<1>2. DOMAIN items = 1 .. Len(items) /\ Len(items) \in Nat
  OBVIOUS
<1>3. ASSUME id = None \/ \A k \in DOMAIN items : items[k].playlistID # id
      PROVE  ItemWithPlaylistID(items, id) = None
  <2>1. I = {}
    BY <1>2, <1>3
  <2>2. QED
    BY <1>1, <2>1
<1>4. ASSUME NEW k \in DOMAIN items, id # None, items[k].playlistID = id,
             \A j \in DOMAIN items : items[j].playlistID = id => j <= k
      PROVE  ItemWithPlaylistID(items, id) = items[k].id
  <2>1. k \in I /\ \A j \in I : j <= k
    BY <1>2, <1>4
  <2>2. I \subseteq Nat /\ k # 0
    BY <1>2
  <2> HIDE DEF I
  <2>3. Max(I) = k
    BY <2>1, <2>2 DEF Max
  <2>4. QED
    BY <1>1, <2>1, <2>2, <2>3
<1>5. ItemWithPlaylistID(items, id) \in Id
  <2>1. CASE I = {}
    BY <1>1, <2>1 DEF Id
  <2>2. CASE I # {}
    <3>1. I \subseteq 1 .. Len(items)
      OBVIOUS
    <3> HIDE DEF I
    <3>2. PICK m \in I : \A j \in I : j <= m
      BY <1>2, <2>2, <3>1, LargestNumber
    <3>3. I \subseteq Nat
      BY <1>2, <3>1
    <3>4. Max(I) = m
      <4>1. m \in I /\ (\A j \in I : j <= m) /\ \A j \in I : j \in Nat
        BY <3>2, <3>3
      <4>2. QED
        BY <4>1 DEF Max
    <3>5. items[m] \in ItemType
      BY <1>2, <3>1
    <3>6. QED
      BY <1>1, <2>2, <3>4, <3>5 DEF ItemType, Id
  <2>3. QED
    BY <2>1, <2>2
<1>6. QED
  BY <1>3, <1>4, <1>5
-----------------------------------------------------------------------------
(* Loading a playlist.                                                     *)

Places(items) == Loadable([k \in DOMAIN items |-> items[k].source])

LEMMA FunctionIsSeq ==
    ASSUME NEW S, NEW n \in Nat, NEW f \in [1 .. n -> S]
    PROVE  f \in Seq(S) /\ Len(f) = n /\ DOMAIN f = 1 .. n
OBVIOUS

\* The places that can be loaded are places of the list, each once, with a source.
LEMMA PlacesLemma ==
    ASSUME NEW E, NEW items \in Seq(E)
    PROVE  /\ Places(items) \in Seq(DOMAIN items)
           /\ \A a, b \in DOMAIN Places(items) :
                Places(items)[a] = Places(items)[b] => a = b
           /\ \A a \in DOMAIN Places(items) : items[Places(items)[a]].source \in Source
<1> DEFINE sources == [k \in DOMAIN items |-> items[k].source]
           n == Len(items)
           K == {k \in 1 .. n : sources[k] \in Source \ missing}
           places == Positions(n, K)
<1>1. n \in Nat /\ DOMAIN items = 1 .. n
  BY LenProperties
<1>2. places = Places(items)
  BY <1>1 DEF Places, Loadable
<1>3. K \subseteq 1 .. n /\ \A k \in K : items[k].source \in Source
  BY <1>1
<1> HIDE DEF sources, n, K
<1>4. /\ places \in Seq(K)
      /\ \A a, b \in DOMAIN places : places[a] = places[b] => a = b
  BY <1>1, <1>3, PositionsLemma
<1> HIDE DEF places
<1>5. places \in Seq(DOMAIN items)
  BY <1>1, <1>3, <1>4, SeqMonotonic
<1>6. \A a \in DOMAIN places : places[a] \in K
  BY <1>4, LenProperties, ElementOfSeq
<1>7. QED
  BY <1>2, <1>3, <1>4, <1>5, <1>6

\* The items that are loaded.
LEMMA LoadItemsLemma ==
    ASSUME NEW items \in Seq(SavedItem), idCounter \in Nat,
           NEW n, n = Len(Places(items))
    PROVE  /\ n \in Nat /\ DOMAIN Places(items) = 1 .. n
           /\ LoadItems(items) \in Seq(ItemType) /\ Len(LoadItems(items)) = n
           /\ \A k \in 1 .. n :
                /\ Places(items)[k] \in DOMAIN items
                /\ LoadItems(items)[k] = [id |-> idCounter + k - 1,
                                          source |-> items[Places(items)[k]].source,
                                          playlistID |-> items[Places(items)[k]].id]
<1> DEFINE places == Places(items)
<1>1. places \in Seq(DOMAIN items)
  BY PlacesLemma
<1>0. \A k \in DOMAIN places : items[places[k]].source \in Source
  BY PlacesLemma
<1> HIDE DEF places
<1>2. n \in Nat /\ DOMAIN places = 1 .. n /\ \A k \in 1 .. n : places[k] \in DOMAIN items
  <2>1. n = Len(places)
    BY DEF places
  <2>2. QED
    BY <1>1, <2>1
<1>3. LoadItems(items) = [k \in 1 .. n |-> [id |-> idCounter + k - 1,
                                            source |-> items[places[k]].source,
                                            playlistID |-> items[places[k]].id]]
  BY <1>2 DEF LoadItems, Places, places
<1>4. ASSUME NEW k \in 1 .. n
      PROVE  [id |-> idCounter + k - 1, source |-> items[places[k]].source,
              playlistID |-> items[places[k]].id] \in ItemType
  <2>1. items[places[k]] \in SavedItem
    <3>1. places[k] \in 1 .. Len(items)
      BY <1>2, LenProperties
    <3>2. QED
      BY <3>1, ElementOfSeq
  <2>2. items[places[k]].source \in Source /\ items[places[k]].id \in Id
    BY <1>0, <1>2, <2>1 DEF Id, SavedItem
  <2>3. idCounter + k - 1 \in Nat
    BY <1>2
  <2>4. QED
    BY <2>2, <2>3 DEF ItemType
<1>5. LoadItems(items) \in [1 .. n -> ItemType]
  BY <1>3, <1>4
<1>6. LoadItems(items) \in Seq(ItemType) /\ Len(LoadItems(items)) = n
  BY <1>2, <1>5, FunctionIsSeq
<1>7. QED
  BY <1>2, <1>3, <1>6 DEF places

\* The items in the tree when the loaded ones have been added.
AllItems(before, items) == before \o LoadItems(items)

Joined(before, items, all, m, n) ==
    /\ m \in Nat /\ n \in Nat /\ all \in Seq(ItemType) /\ DOMAIN all = 1 .. m + n
    /\ \A k \in 1 .. m : all[k] = before[k]
    /\ \A k \in 1 .. n :
         /\ m + k \in DOMAIN all
         /\ all[m + k].id = idCounter + k - 1
         /\ all[m + k].source = items[Places(items)[k]].source
         /\ all[m + k].playlistID = items[Places(items)[k]].id
    /\ \A j \in DOMAIN all : j \in 1 .. m \/ \E k \in 1 .. n : j = m + k

LEMMA AllItemsLemma ==
    ASSUME NEW before \in Seq(ItemType), NEW items \in Seq(SavedItem),
           idCounter \in Nat
    PROVE  Joined(before, items, AllItems(before, items), Len(before), Len(Places(items)))
<1> DEFINE m == Len(before)
           n == Len(Places(items))
           all == AllItems(before, items)
           new == LoadItems(items)
<1>1. /\ n \in Nat /\ new \in Seq(ItemType) /\ Len(new) = n
      /\ \A k \in 1 .. n : new[k] = [id |-> idCounter + k - 1,
                                     source |-> items[Places(items)[k]].source,
                                     playlistID |-> items[Places(items)[k]].id]
  BY LoadItemsLemma
<1>2. m \in Nat /\ DOMAIN before = 1 .. m
  BY LenProperties
<1>3. all = before \o new
  BY DEF AllItems
<1>0. m = Len(before)
  OBVIOUS
<1> HIDE DEF new, m, n, all
<1>4. /\ all \in Seq(ItemType) /\ Len(all) = m + n
      /\ \A k \in 1 .. m : all[k] = before[k]
      /\ \A k \in 1 .. n : all[m + k] = new[k]
  <2>1. /\ before \o new \in Seq(ItemType) /\ Len(before \o new) = m + n
        /\ \A i \in 1 .. m + n : (before \o new)[i] = IF i <= m THEN before[i] ELSE new[i - m]
    <3>1. /\ before \o new \in Seq(ItemType) /\ Len(before \o new) = Len(before) + Len(new)
          /\ \A i \in 1 .. Len(before) + Len(new) :
               (before \o new)[i] = IF i <= Len(before) THEN before[i] ELSE new[i - Len(before)]
      BY <1>1, ConcatProperties
    <3>2. Len(before) = m /\ Len(new) = n
      BY <1>1, <1>0
    <3>3. QED
      BY <3>1, <3>2
  <2>2. \A k \in 1 .. m : k \in 1 .. m + n /\ k <= m
    BY <1>1, <1>2
  <2>3. \A k \in 1 .. n : m + k \in 1 .. m + n /\ ~ (m + k <= m) /\ (m + k) - m = k
    BY <1>1, <1>2
  <2>4. \A k \in 1 .. m : all[k] = before[k]
    BY <1>3, <2>1, <2>2
  <2>5. \A k \in 1 .. n : all[m + k] = new[k]
    BY <1>3, <2>1, <2>3
  <2>6. QED
    BY <1>3, <2>1, <2>4, <2>5
<1>5. DOMAIN all = 1 .. m + n
  BY <1>1, <1>2, <1>4, LenProperties
<1>6. \A k \in 1 .. n : m + k \in DOMAIN all
  BY <1>1, <1>2, <1>5
<1>7. \A j \in DOMAIN all : j \in 1 .. m \/ \E k \in 1 .. n : j = m + k
  <2>1. ASSUME NEW j \in 1 .. m + n, j \notin 1 .. m
        PROVE  j - m \in 1 .. n /\ j = m + (j - m)
    BY <1>1, <1>2, <2>1
  <2>2. QED
    BY <1>5, <2>1
<1>8. \A k \in 1 .. n :
        /\ all[m + k].id = idCounter + k - 1
        /\ all[m + k].source = items[Places(items)[k]].source
        /\ all[m + k].playlistID = items[Places(items)[k]].id
  <2>1. ASSUME NEW k \in 1 .. n
        PROVE  /\ all[m + k].id = idCounter + k - 1
               /\ all[m + k].source = items[Places(items)[k]].source
               /\ all[m + k].playlistID = items[Places(items)[k]].id
    <3>1. all[m + k] = [id |-> idCounter + k - 1,
                        source |-> items[Places(items)[k]].source,
                        playlistID |-> items[Places(items)[k]].id]
      BY <1>1, <1>4
    <3>2. QED
      BY <3>1
  <2>2. QED
    BY <2>1
<1>9. QED
  <2>1. Joined(before, items, all, m, n)
    BY <1>1, <1>2, <1>4, <1>5, <1>6, <1>7, <1>8 DEF Joined
  <2>2. QED
    BY <2>1 DEF all, m, n

\* Removing the remembered ids changes nothing else.
Forgotten(all) == [k \in DOMAIN all |-> [all[k] EXCEPT !.playlistID = None]]

LEMMA ForgottenLemma ==
    ASSUME NEW all \in Seq(ItemType)
    PROVE  /\ Forgotten(all) \in Seq(ItemType) /\ DOMAIN Forgotten(all) = DOMAIN all
           /\ \A k \in DOMAIN all : /\ Forgotten(all)[k].id = all[k].id
                                    /\ Forgotten(all)[k].source = all[k].source
<1> DEFINE items == Forgotten(all)
<1>0. items = [k \in DOMAIN all |-> [all[k] EXCEPT !.playlistID = None]]
  BY DEF Forgotten
<1> HIDE DEF items
<1>1. ASSUME NEW k \in DOMAIN all
      PROVE  /\ [all[k] EXCEPT !.playlistID = None] \in ItemType
             /\ items[k].id = all[k].id /\ items[k].source = all[k].source
  <2>1. all[k] \in ItemType
    OBVIOUS
  <2>2. [all[k] EXCEPT !.playlistID = None] \in ItemType
    BY <2>1 DEF ItemType, Id
  <2>3. items[k] = [all[k] EXCEPT !.playlistID = None]
    BY <1>0
  <2>4. QED
    BY <2>1, <2>2, <2>3 DEF ItemType
<1>2. PICK n \in Nat : n = Len(all) /\ DOMAIN all = 1 .. n
  OBVIOUS
<1>3. items \in [1 .. n -> ItemType]
  BY <1>0, <1>1, <1>2
<1>4. items \in Seq(ItemType) /\ Len(items) = n /\ DOMAIN items = 1 .. n
  BY <1>2, <1>3
<1>5. QED
  BY <1>1, <1>2, <1>4 DEF items

\* The ids stay distinct if the new items come with higher ones.
LEMMA HigherIds ==
    ASSUME NEW items \in Seq(ItemType), NEW m \in Nat, NEW n \in Nat,
           DOMAIN items = 1 .. m + n, idCounter \in Nat,
           \A j, k \in 1 .. m : items[j].id = items[k].id => j = k,
           \A k \in 1 .. m : items[k].id < idCounter,
           \A k \in 1 .. n : items[m + k].id = idCounter + k - 1
    PROVE  /\ DistinctIds(items)
           /\ \A k \in DOMAIN items : items[k].id < idCounter + n
<1>1. \A k \in m + 1 .. m + n : items[k].id = idCounter + (k - m) - 1
  <2>1. ASSUME NEW k \in m + 1 .. m + n
        PROVE  items[k].id = idCounter + (k - m) - 1
    <3>1. k - m \in 1 .. n /\ m + (k - m) = k
      OBVIOUS
    <3>2. QED
      BY <3>1
  <2>2. QED
    BY <2>1
<1>2. \A k \in 1 .. m + n : k \in 1 .. m \/ k \in m + 1 .. m + n
  OBVIOUS
<1>3. \A k \in 1 .. m : items[k].id \in Nat
  <2>1. \A k \in 1 .. m + n : items[k] \in ItemType
    BY LenProperties, ElementOfSeq
  <2>2. QED
    BY <1>2, <2>1 DEF ItemType
<1>4. \A k \in DOMAIN items : items[k].id < idCounter + n
  BY <1>1, <1>2, <1>3
<1>5. ASSUME NEW j \in DOMAIN items, NEW k \in DOMAIN items, items[j].id = items[k].id
      PROVE  j = k
  <2>1. CASE j \in 1 .. m /\ k \in 1 .. m
    BY <1>5, <2>1
  <2>2. CASE j \in m + 1 .. m + n /\ k \in m + 1 .. m + n
    BY <1>1, <1>5, <2>2
  <2>3. CASE j \in 1 .. m /\ k \in m + 1 .. m + n
    BY <1>1, <1>3, <1>5, <2>3
  <2>4. CASE j \in m + 1 .. m + n /\ k \in 1 .. m
    BY <1>1, <1>3, <1>5, <2>4
  <2>5. QED
    BY <1>2, <2>1, <2>2, <2>3, <2>4
<1>6. QED
  BY <1>4, <1>5 DEF DistinctIds

\* An id that a loaded item remembers is found, whatever the others remember.
LEMMA FoundLemma ==
    ASSUME NEW before \in Seq(ItemType), NEW items \in Seq(SavedItem),
           DistinctIds(items), idCounter \in Nat,
           NEW k \in 1 .. Len(Places(items)), NEW id, items[Places(items)[k]].id = id
    PROVE  ItemWithPlaylistID(AllItems(before, items), id) = idCounter + k - 1
<1> DEFINE m == Len(before)
           n == Len(Places(items))
           all == AllItems(before, items)
           places == Places(items)
<1>1. /\ m \in Nat /\ n \in Nat /\ all \in Seq(ItemType) /\ DOMAIN all = 1 .. m + n
      /\ \A j \in 1 .. n :
           /\ m + j \in DOMAIN all
           /\ all[m + j].id = idCounter + j - 1
           /\ all[m + j].playlistID = items[places[j]].id
      /\ \A j \in DOMAIN all : j \in 1 .. m \/ \E l \in 1 .. n : j = m + l
  BY AllItemsLemma DEF Joined
<1>2. DOMAIN places = 1 .. n /\ \A j \in 1 .. n : places[j] \in DOMAIN items
  BY LoadItemsLemma
<1>3. \A a, b \in DOMAIN places : places[a] = places[b] => a = b
  BY PlacesLemma
<1>4. k \in 1 .. n /\ items[places[k]].id = id
  OBVIOUS
<1> HIDE DEF m, n, all, places
<1>5. id \in Nat /\ id # None
  <2>1. items[places[k]] \in SavedItem
    BY <1>2, <1>4, LenProperties, ElementOfSeq
  <2>2. QED
    BY <1>4, <2>1, SessionAssumption DEF SavedItem
<1>6. ASSUME NEW j \in DOMAIN all, all[j].playlistID = id
      PROVE  j <= m + k
  <2>1. CASE j \in 1 .. m
    BY <1>1, <1>4, <2>1
  <2>2. CASE \E l \in 1 .. n : j = m + l
    <3>1. PICK l \in 1 .. n : j = m + l
      BY <2>2
    <3>2. items[places[l]].id = items[places[k]].id
      BY <1>1, <1>4, <1>6, <3>1
    <3>3. places[l] = places[k]
      BY <1>2, <1>4, <3>1, <3>2 DEF DistinctIds
    <3>4. l = k
      BY <1>2, <1>3, <1>4, <3>1, <3>3
    <3>5. QED
      BY <1>1, <1>4, <3>1, <3>4
  <2>3. QED
    BY <1>1, <2>1, <2>2
<1>7. ItemWithPlaylistID(all, id) = all[m + k].id
  <2>1. m + k \in DOMAIN all /\ all[m + k].playlistID = id
    BY <1>1, <1>4
  <2>2. id \in Id
    BY <1>5 DEF Id
  <2>3. QED
    BY <1>1, <1>5, <1>6, <2>1, <2>2, RememberedLemma
<1>8. QED
  BY <1>1, <1>4, <1>7 DEF all

\* Into an empty tree: an id that no loaded item remembers is not found.
LEMMA NotFoundLemma ==
    ASSUME NEW items \in Seq(SavedItem), idCounter \in Nat, NEW id \in Id,
           \A k \in 1 .. Len(Places(items)) : items[Places(items)[k]].id # id
    PROVE  ItemWithPlaylistID(AllItems(<<>>, items), id) = None
<1> DEFINE n == Len(Places(items))
           all == AllItems(<<>>, items)
<1>1. <<>> \in Seq(ItemType) /\ Len(<<>>) = 0
  BY EmptySeq
<1>2. /\ n \in Nat /\ all \in Seq(ItemType)
      /\ \A j \in 1 .. n : all[0 + j].playlistID = items[Places(items)[j]].id
      /\ \A j \in DOMAIN all : j \in 1 .. 0 \/ \E l \in 1 .. n : j = 0 + l
  <2>1. Joined(<<>>, items, all, Len(<<>>), n)
    BY <1>1, AllItemsLemma
  <2>2. Joined(<<>>, items, all, 0, n)
    BY <1>1, <2>1
  <2>3. QED
    BY <2>2 DEF Joined
<1>3. \A j \in DOMAIN all : all[j].playlistID # id
  BY <1>2
<1> HIDE DEF all
<1>4. ItemWithPlaylistID(all, id) = None
  BY <1>2, <1>3, RememberedLemma
<1>5. QED
  BY <1>4 DEF all

\* The tree after a playlist was loaded.
Loaded(c, m, n) ==
    /\ m \in Nat /\ n \in Nat /\ DOMAIN playlist' = 1 .. m + n
    /\ \A k \in 1 .. n :
         /\ m + k \in DOMAIN playlist'
         /\ playlist'[m + k].id = idCounter + k - 1
         /\ playlist'[m + k].source = c.items[Places(c.items)[k]].source

\* A file is shown by the item with this id: the only one.
LEMMA SourceLemma ==
    ASSUME NEW E, NEW items \in Seq(E), DistinctIds(items), NEW id
    PROVE  /\ SourceOf(items, id) \in Files <=> ShowsFile(items, id)
           /\ \A k \in DOMAIN items : items[k].id = id => SourceOf(items, id) = items[k].source
<1>1. 0 \notin DOMAIN items
  BY LenProperties
<1>2. CASE Place(items, id) = 0 /\ \A k \in DOMAIN items : items[k].id # id
  BY <1>2, SessionAssumption DEF SourceOf, ShowsFile
<1>3. CASE Place(items, id) \in DOMAIN items /\ items[Place(items, id)].id = id
  <2>1. SourceOf(items, id) = items[Place(items, id)].source
    BY <1>1, <1>3 DEF SourceOf
  <2>2. \A k \in DOMAIN items : items[k].id = id => k = Place(items, id)
    BY <1>3 DEF DistinctIds
  <2>3. QED
    BY <1>3, <2>1, <2>2 DEF ShowsFile
<1>4. QED
  BY <1>2, <1>3, PlaceIsFound

\* A new selection has a frame exactly if it is a file.
LEMMA ChangedLemma ==
    ASSUME NEW p \in Playback, NEW source
    PROVE  /\ CurrentSelectedItemsChanged(p, source) \in Playback
           /\ CurrentSelectedItemsChanged(p, source).currentFrameIdx # -1 <=> source \in Files
<1> DEFINE frame == p.currentFrameIdx
           valid == p.lastValidFrameIdx
           last  == LastFrame[source]
           new   == CurrentSelectedItemsChanged(p, source)
<1>1. frame \in Frame /\ valid \in Frame
  BY DEF Playback
<1>2. CASE source \notin Files
  <2>1. new = [currentFrameIdx |-> -1, lastValidFrameIdx |-> IF frame # -1 THEN frame ELSE valid]
    BY <1>2 DEF CurrentSelectedItemsChanged
  <2>2. QED
    BY <1>1, <1>2, <2>1 DEF Playback, Frame
<1>3. CASE source \in Files /\ frame = -1
  <2>1. last \in Nat
    BY <1>3, SessionAssumption
  <2> HIDE DEF last
  <2> DEFINE least == IF valid > last THEN last ELSE valid
  <2>2. least \in Frame /\ (least # -1 => least \in Nat)
    BY <1>1, <2>1 DEF Frame
  <2>3. new = [currentFrameIdx |-> IF least # -1 THEN least ELSE 0, lastValidFrameIdx |-> least]
    BY <1>3 DEF CurrentSelectedItemsChanged, last
  <2> HIDE DEF least, new
  <2>4. (IF least # -1 THEN least ELSE 0) \in Nat
    BY <2>2
  <2>5. QED
    BY <1>3, <2>2, <2>3, <2>4 DEF Playback, Frame, new
<1>4. CASE source \in Files /\ frame # -1
  <2>1. last \in Nat /\ frame \in Nat
    BY <1>1, <1>4, SessionAssumption DEF Frame
  <2>2. new = [p EXCEPT !.currentFrameIdx = IF valid > last THEN last ELSE frame]
    BY <1>4 DEF CurrentSelectedItemsChanged
  <2> HIDE DEF last
  <2>3. (IF valid > last THEN last ELSE frame) \in Nat
    BY <2>1
  <2>4. QED
    BY <1>4, <2>2, <2>3 DEF Playback, Frame
<1>5. QED
  BY <1>2, <1>3, <1>4

\* The view state that is shown is that of its item, with the frame if it is a file.
LEMMA ShowsLemma ==
    ASSUME NEW items \in Seq(ItemType), DistinctIds(items), NEW id \in Id, NEW frame \in Nat,
           NEW old \in Ids(items) \cup {None}, NEW p \in Playback, FrameOf(items, old, p),
           Shows(id, frame, items, old, p)
    PROVE  /\ selected' \in Ids(items) \cup {None} /\ playback' \in Playback
           /\ FrameOf(items, selected', playback')
           /\ ShowsFile(items, id) => selected' = id /\ playback'.currentFrameIdx = frame
           /\ id = None => selected' = old
           /\ id = None /\ ~ShowsFile(items, old) => playback' = p
<1> DEFINE new    == IF id = None THEN old ELSE IF id \in Ids(items) THEN id ELSE None
           source == SourceOf(items, new)
           chosen == IF id \in {None, old} THEN p
                     ELSE CurrentSelectedItemsChanged(CurrentSelectedItemsChanged(p, None), source)
<1>1. /\ selected' = new
      /\ playback' = IF source \in Files THEN [chosen EXCEPT !.currentFrameIdx = frame] ELSE chosen
  BY DEF Shows
<1>2. new \in Ids(items) \cup {None}
  OBVIOUS
<1>3. ShowsFile(items, id) => id \in Ids(items) /\ id # None
  <2>1. \A k \in DOMAIN items : items[k] \in ItemType
    BY LenProperties, ElementOfSeq
  <2>2. QED
    BY <2>1, SessionAssumption DEF ShowsFile, Ids, ItemType
<1> HIDE DEF new
<1>4. source \in Files <=> ShowsFile(items, new)
  BY SourceLemma
<1> HIDE DEF source
<1>5. CurrentSelectedItemsChanged(p, None) \in Playback
  BY ChangedLemma
<1>6. chosen \in Playback
  BY <1>5, ChangedLemma
<1>7. source \notin Files => chosen.currentFrameIdx = -1
  <2>1. CASE id \in {None, old}
    <3>1. CASE new = old
      BY <1>4, <2>1, <3>1 DEF FrameOf
    <3>2. CASE new # old
      BY <2>1, <3>2 DEF new
    <3>3. QED
      BY <3>1, <3>2
  <2>2. CASE id \notin {None, old}
    BY <1>5, <2>2, ChangedLemma
  <2>3. QED
    BY <2>1, <2>2
<1>8. id = None => chosen = p /\ new = old
  BY DEF new
<1> HIDE DEF chosen
<1>9. playback' \in Playback /\ (playback'.currentFrameIdx # -1 <=> source \in Files)
  <2>1. CASE source \in Files
    <3>1. playback' = [chosen EXCEPT !.currentFrameIdx = frame]
      BY <1>1, <2>1
    <3>2. QED
      BY <1>6, <2>1, <3>1 DEF Playback, Frame
  <2>2. CASE source \notin Files
    BY <1>1, <1>6, <1>7, <2>2
  <2>3. QED
    BY <2>1, <2>2
<1>10. ASSUME ShowsFile(items, id)
       PROVE  selected' = id /\ playback'.currentFrameIdx = frame
  <2>1. new = id
    BY <1>3, <1>10 DEF new
  <2>2. playback' = [chosen EXCEPT !.currentFrameIdx = frame]
    BY <1>1, <1>4, <1>10, <2>1
  <2>3. QED
    BY <1>1, <1>6, <2>1, <2>2 DEF Playback
<1>11. id = None /\ ~ShowsFile(items, old) => playback' = p
  BY <1>1, <1>4, <1>8
<1>12. QED
  BY <1>1, <1>2, <1>4, <1>8, <1>9, <1>10, <1>11 DEF FrameOf

\* What is selected before a playlist is loaded, and its frame.
Before(before, old, p) ==
    /\ p \in Playback
    /\ \/ before = <<>> /\ old = None /\ p.currentFrameIdx = -1
       \/ before = playlist /\ old = selected /\ p = playback

LEMMA LoadLemma ==
    ASSUME TreeInv, NEW c, Readable(c), NEW before, NEW old, NEW p, Before(before, old, p),
           LoadItemsAndStates(c, before, old, p)
    PROVE  /\ TreeInv' /\ Loaded(c, Len(before), Len(Places(c.items)))
           /\ FrameOf(AllItems(before, c.items), old, p)
           /\ AllItems(before, c.items) \in Seq(ItemType)
           /\ DistinctIds(AllItems(before, c.items))
<1> DEFINE all == AllItems(before, c.items)
           m == Len(before)
           n == Len(Places(c.items))
<1>1. c.items \in Seq(SavedItem) /\ c.slots \in [Slots -> State] /\ c.current \in State
  BY DEF Readable, Saved, SavedItem
<1>2. /\ before \in Seq(ItemType) /\ DistinctIds(before)
      /\ \A k \in DOMAIN before : before[k].id < idCounter
      /\ old \in Ids(before) \cup {None} /\ FrameOf(before, old, p)
  <2>1. CASE before = playlist /\ old = selected /\ p = playback
    BY <2>1 DEF TreeInv
  <2>2. CASE before = <<>> /\ old = None /\ p.currentFrameIdx = -1
    <3>1. DOMAIN before = {}
      BY <2>2
    <3>2. ~ShowsFile(before, old)
      BY <3>1 DEF ShowsFile
    <3>3. QED
      BY <2>2, <3>1, <3>2, EmptySeq DEF DistinctIds, FrameOf
  <2>3. QED
    BY <2>1, <2>2 DEF Before
<1>3. idCounter \in Nat /\ selectionStates \in [Slots -> State] /\ p \in Playback
  BY DEF TreeInv, Before
<1>4. /\ m \in Nat /\ n \in Nat /\ all \in Seq(ItemType) /\ DOMAIN all = 1 .. m + n
      /\ \A k \in 1 .. m : all[k] = before[k]
      /\ \A k \in 1 .. n :
           /\ m + k \in DOMAIN all
           /\ all[m + k].id = idCounter + k - 1
           /\ all[m + k].source = c.items[Places(c.items)[k]].source
      /\ \A j \in DOMAIN all : j \in 1 .. m \/ \E k \in 1 .. n : j = m + k
  <2>1. Joined(before, c.items, all, m, n)
    BY <1>1, <1>2, <1>3, AllItemsLemma
  <2>2. QED
    BY <2>1 DEF Joined
<1>5. /\ playlist' = Forgotten(all)
      /\ idCounter' = idCounter + Len(LoadItems(c.items))
      /\ selectionStates' = [s \in Slots |->
             IF c.slots[s].frame = -1 THEN selectionStates[s]
             ELSE [c.slots[s] EXCEPT !.item = ItemWithPlaylistID(all, c.slots[s].item)]]
      /\ IF c.current.frame = -1 THEN selected' = old /\ playback' = p
         ELSE Shows(ItemWithPlaylistID(all, c.current.item), c.current.frame, all, old, p)
  BY DEF LoadItemsAndStates, AllItems, Forgotten
<1>6. idCounter' = idCounter + n
  BY <1>1, <1>3, <1>5, LoadItemsLemma
<1>7. DOMAIN before = 1 .. m
  BY <1>2, LenProperties
<1> HIDE DEF all, n, m
<1>8. DistinctIds(all) /\ \A k \in DOMAIN all : all[k].id < idCounter + n
  <2>1. \A j, k \in 1 .. m : all[j].id = all[k].id => j = k
    BY <1>2, <1>4, <1>7 DEF DistinctIds
  <2>2. \A k \in 1 .. m : all[k].id < idCounter
    BY <1>2, <1>4, <1>7
  <2>3. \A k \in 1 .. n : all[m + k].id = idCounter + k - 1
    BY <1>4
  <2>4. QED
    BY <1>3, <1>4, <2>1, <2>2, <2>3, HigherIds
<1>9. \A k \in 1 .. m : k \in DOMAIN all /\ all[k] = before[k]
  BY <1>4
<1>10. old \in Ids(all) \cup {None}
  BY <1>2, <1>7, <1>9 DEF Ids
<1>11. FrameOf(all, old, p)
  <2>1. ASSUME ShowsFile(before, old)
        PROVE  ShowsFile(all, old)
    BY <1>7, <1>9, <2>1 DEF ShowsFile
  <2>2. ASSUME NEW k \in DOMAIN all, all[k].id = old, all[k].source \in Files
        PROVE  ShowsFile(before, old)
    <3>1. CASE k \in 1 .. m
      BY <1>7, <1>9, <2>2, <3>1 DEF ShowsFile
    <3>2. CASE \E l \in 1 .. n : k = m + l
      <4>1. PICK l \in 1 .. n : k = m + l
        BY <3>2
      <4>2. old = idCounter + l - 1
        BY <1>4, <2>2, <4>1
      <4>3. old \in Nat /\ ~ (old < idCounter)
        BY <1>3, <1>4, <4>2
      <4>4. old \in Ids(before)
        BY <1>2, <4>3, SessionAssumption
      <4>5. old < idCounter
        BY <1>2, <4>4 DEF Ids
      <4>6. QED
        BY <4>3, <4>5
    <3>3. QED
      BY <1>4, <3>1, <3>2
  <2>3. QED
    BY <1>2, <2>1, <2>2 DEF FrameOf, ShowsFile
<1>12. \A id \in Id : ItemWithPlaylistID(all, id) \in Id
  BY <1>4, RememberedLemma
<1>13. selectionStates' \in [Slots -> State]
  <2>1. ASSUME NEW s \in Slots
        PROVE  [c.slots[s] EXCEPT !.item = ItemWithPlaylistID(all, c.slots[s].item)] \in State
    <3>1. c.slots[s] \in State
      BY <1>1
    <3>2. ItemWithPlaylistID(all, c.slots[s].item) \in Id
      BY <1>12, <3>1 DEF State
    <3>3. QED
      BY <3>1, <3>2 DEF State
  <2>2. QED
    BY <1>3, <1>5, <2>1
<1>14. /\ selected' \in Ids(all) \cup {None} /\ playback' \in Playback
       /\ FrameOf(all, selected', playback')
  <2>1. CASE c.current.frame = -1
    BY <1>3, <1>5, <1>10, <1>11, <2>1
  <2>2. CASE c.current.frame # -1
    <3>1. c.current.frame \in Nat /\ c.current.item \in Id
      BY <1>1, <2>2 DEF State, Frame
    <3>2. ItemWithPlaylistID(all, c.current.item) \in Id
      BY <1>12, <3>1
    <3>3. Shows(ItemWithPlaylistID(all, c.current.item), c.current.frame, all, old, p)
      BY <1>5, <2>2
    <3>4. QED
      BY <1>3, <1>4, <1>8, <1>10, <1>11, <3>1, <3>2, <3>3, ShowsLemma
  <2>3. QED
    BY <2>1, <2>2
<1>15. /\ playlist' \in Seq(ItemType) /\ DOMAIN playlist' = DOMAIN all
       /\ \A k \in DOMAIN all : playlist'[k].id = all[k].id /\ playlist'[k].source = all[k].source
  BY <1>4, <1>5, ForgottenLemma
<1>16. Ids(playlist') = Ids(all) /\ FrameOf(playlist', selected', playback')
  BY <1>14, <1>15 DEF Ids, FrameOf, ShowsFile
<1>17. DistinctIds(playlist') /\ \A k \in DOMAIN playlist' : playlist'[k].id < idCounter + n
  BY <1>8, <1>15 DEF DistinctIds
<1>18. TreeInv'
  BY <1>3, <1>4, <1>6, <1>13, <1>14, <1>15, <1>16, <1>17
     DEF TreeInv, DistinctIds, Ids, FrameOf, ShowsFile
<1>19. Loaded(c, m, n)
  BY <1>4, <1>15 DEF Loaded
<1>20. QED
  BY <1>4, <1>8, <1>11, <1>18, <1>19 DEF all, m, n

\* The parser can refuse a document that is not in UTF-8.
LEMMA RefusedLemma ==
    ASSUME TreeInv, NEW before, NEW old, NEW p, Before(before, old, p),
           playlist' = before, selected' = old, playback' = p,
           UNCHANGED <<idCounter, selectionStates>>
    PROVE  TreeInv'
<1>1. CASE before = playlist /\ old = selected /\ p = playback
  BY <1>1 DEF TreeInv, DistinctIds, Ids, FrameOf, ShowsFile
<1>2. CASE before = <<>> /\ old = None /\ p.currentFrameIdx = -1
  <2>1. playlist' = <<>> /\ DOMAIN playlist' = {} /\ playlist' \in Seq(ItemType)
    BY <1>2, EmptySeq
  <2>2. playback' \in Playback /\ playback'.currentFrameIdx = -1 /\ selected' = None
    BY <1>2 DEF Before
  <2>3. QED
    BY <2>1, <2>2 DEF TreeInv, DistinctIds, FrameOf, ShowsFile
<1>3. QED
  BY <1>1, <1>2 DEF Before

LEMMA LoadTree ==
    ASSUME TreeInv, NEW c, Readable(c), NEW before, NEW old, NEW p, Before(before, old, p),
           LoadPlaylistFromByteArray(c, before, old, p)
    PROVE  TreeInv'
BY LoadLemma, RefusedLemma DEF LoadPlaylistFromByteArray
-----------------------------------------------------------------------------
(* The invariant.                                                          *)

LEMMA InitSession == Init => SessionInv
<1> SUFFICES ASSUME Init
             PROVE  SessionInv
  OBVIOUS
<1>1. /\ playlist = <<>> /\ idCounter = 0 /\ selected = None /\ selectionStates = NoSlots
      /\ playback = NoPlayback
      /\ running = FALSE /\ autosave = None /\ playlistFile = None /\ atTick = None
  BY DEF Init
<1>2. /\ <<>> \in Seq(ItemType) /\ DOMAIN <<>> = {} /\ NoSlots \in [Slots -> State]
      /\ NoPlayback \in Playback /\ NoPlayback.currentFrameIdx = -1
  BY EmptySeq DEF NoSlots, NoState, State, Id, Frame, NoPlayback, Playback
<1>3. TreeInv
  BY <1>1, <1>2 DEF TreeInv, DistinctIds, FrameOf, ShowsFile
<1>4. QED
  BY <1>1, <1>3 DEF SessionInv, EndedInv, FileInv, TickInv, Ticked

LEMMA IdsLemma ==
    ASSUME TreeInv
    PROVE  /\ \A k \in DOMAIN playlist : playlist[k] \in ItemType /\ playlist[k].id \in Nat
           /\ Ids(playlist) \subseteq Nat /\ Nat \subseteq Id /\ None \in Id /\ selected \in Id
<1>1. \A k \in DOMAIN playlist : playlist[k] \in ItemType
  BY LenProperties, ElementOfSeq DEF TreeInv
<1>2. \A k \in DOMAIN playlist : playlist[k].id \in Nat
  BY <1>1 DEF ItemType
<1>3. QED
  BY <1>1, <1>2 DEF Ids, Id, TreeInv

\* What is saved can be loaded, and shows what the user sees.
LEMMA SavedLemma ==
    ASSUME TreeInv
    PROVE  /\ Written(GetPlaylistString) /\ GetPlaylistString # None
           /\ View = Shown(GetPlaylistString) /\ View # None
<1> DEFINE items == [k \in DOMAIN playlist |-> [id |-> playlist[k].id,
                                                source |-> playlist[k].source]]
           slots == [s \in Slots |->
                        IF PlaybackStateFrameIdx(s) = -1 THEN NoState ELSE selectionStates[s]]
           current == [item |-> selected, frame |-> playback.currentFrameIdx]
<1>1. PICK n \in Nat : n = Len(playlist) /\ DOMAIN playlist = 1 .. n
  BY LenProperties DEF TreeInv
<1>2. \A k \in 1 .. n : playlist[k] \in ItemType
  BY <1>1, ElementOfSeq DEF TreeInv
<1>3. \A k \in 1 .. n : /\ playlist[k].id \in Nat /\ playlist[k].source \in Source
                        /\ items[k].id = playlist[k].id /\ items[k].source = playlist[k].source
  BY <1>1, <1>2 DEF ItemType
<1>4. items \in [1 .. n -> SavedItem]
  BY <1>1, <1>3 DEF SavedItem
<1>5. GetPlaylistString = [items |-> items, slots |-> slots, current |-> current]
  BY DEF GetPlaylistString
<1>6. selected \in Id /\ playback.currentFrameIdx \in Frame
  BY IdsLemma DEF TreeInv, Playback
<1>7. current \in State
  BY <1>6 DEF State
<1>8. slots \in [Slots -> State]
  <2>1. NoState \in State
    BY DEF NoState, State, Id, Frame
  <2>2. QED
    BY <2>1 DEF TreeInv
<1>9. \A s \in Slots : slots[s].frame = -1 => slots[s].item = None
  BY DEF PlaybackStateFrameIdx, NoState
<1> HIDE DEF items
<1>10. items \in Seq(SavedItem) /\ Len(items) = n /\ DOMAIN items = 1 .. n
  BY <1>4, FunctionIsSeq
<1>11. DistinctIds(items)
  BY <1>1, <1>3, <1>10 DEF DistinctIds, TreeInv
<1>12. FrameOf(items, selected, [currentFrameIdx |-> playback.currentFrameIdx])
  BY <1>1, <1>3, <1>10 DEF FrameOf, ShowsFile, TreeInv
<1>13. ASSUME NEW id
       PROVE  Place(playlist, id) = Place(items, id)
  <2>1. {k \in 1 .. Len(playlist) : playlist[k].id = id} = {k \in 1 .. Len(items) : items[k].id = id}
    BY <1>1, <1>3, <1>10
  <2>2. QED
    BY <2>1 DEF Place, SelectInSeq
<1>14. [k \in DOMAIN playlist |-> playlist[k].source] = [k \in DOMAIN items |-> items[k].source]
  BY <1>1, <1>3, <1>10
<1>15. Ids(playlist) = Ids(items)
  BY <1>1, <1>3, <1>10 DEF Ids
<1> DEFINE OldSlot(s) ==
        IF PlaybackStateFrameIdx(s) = -1 \/ selectionStates[s].item \notin Ids(playlist)
        THEN NoMark
        ELSE [place |-> Place(playlist, selectionStates[s].item),
              frame |-> selectionStates[s].frame]
<1>16. ASSUME NEW s \in Slots
       PROVE  OldSlot(s) = ShownSlot(items, slots[s])
  <2>1. CASE PlaybackStateFrameIdx(s) = -1
    BY <2>1 DEF ShownSlot, NoState
  <2>2. CASE PlaybackStateFrameIdx(s) # -1
    <3>1. slots[s] = selectionStates[s] /\ selectionStates[s].frame # -1
      BY <2>2 DEF PlaybackStateFrameIdx
    <3>2. QED
      BY <1>13, <1>15, <2>2, <3>1 DEF ShownSlot
  <2>3. QED
    BY <2>1, <2>2
<1>17. View = [sources |-> [k \in DOMAIN playlist |-> playlist[k].source],
               slots |-> [s \in Slots |-> OldSlot(s)],
               current |-> [place |-> Place(playlist, selected),
                            frame |-> playback.currentFrameIdx]]
  BY DEF View
<1>18. Shown(GetPlaylistString)
         = [sources |-> [k \in DOMAIN items |-> items[k].source],
            slots |-> [s \in Slots |-> ShownSlot(items, slots[s])],
            current |-> [place |-> Place(items, selected), frame |-> playback.currentFrameIdx]]
  BY <1>5 DEF Shown
<1>19. \A s \in Slots : OldSlot(s) \in [place: Nat, frame: Frame]
  <2>1. \A id : Place(playlist, id) \in Nat
    BY PlaceType DEF TreeInv
  <2>2. \A s \in Slots : selectionStates[s].frame \in Frame
    BY DEF TreeInv, State
  <2>3. NoMark \in [place: Nat, frame: Frame]
    BY DEF NoMark, Frame
  <2>4. QED
    BY <2>1, <2>2, <2>3
<1> HIDE DEF slots, current, OldSlot
<1>20. GetPlaylistString \in Saved
  BY <1>5, <1>7, <1>8, <1>10 DEF Saved, SavedItem
<1>21. Written(GetPlaylistString)
  <2>1. Readable(GetPlaylistString)
    BY <1>5, <1>11, <1>20 DEF Readable
  <2>2. \A k \in DOMAIN items : items[k].source \in Source
    BY <1>3, <1>10
  <2>3. FrameOf(items, current.item, [currentFrameIdx |-> current.frame])
    BY <1>12 DEF current
  <2>4. QED
    BY <1>5, <1>9, <2>1, <2>2, <2>3 DEF Written
<1>22. View = Shown(GetPlaylistString)
  BY <1>13, <1>14, <1>16, <1>17, <1>18
<1>23. View \in Seen
  <2>1. Place(playlist, selected) \in Nat
    BY PlaceType DEF TreeInv
  <2>2. [k \in DOMAIN playlist |-> playlist[k].source] \in [1 .. n -> Source]
    BY <1>1, <1>3
  <2>3. [k \in DOMAIN playlist |-> playlist[k].source] \in Seq(Source)
    BY <2>2, FunctionIsSeq
  <2>4. QED
    BY <1>6, <1>17, <1>19, <2>1, <2>3 DEF Seen
<1>24. QED
  BY <1>20, <1>21, <1>22, <1>23, SessionAssumption

\* The autosave has the same ids and view states.
LEMMA Latin1Lemma ==
    ASSUME NEW c, Written(c)
    PROVE  /\ Readable(InLatin1(c)) /\ InLatin1(c) # None
           /\ InLatin1(c).slots = c.slots /\ InLatin1(c).current = c.current
           /\ DOMAIN InLatin1(c).items = DOMAIN c.items
           /\ \A k \in DOMAIN c.items : /\ InLatin1(c).items[k].id = c.items[k].id
                                        /\ InLatin1(c).items[k].source = ToLatin1(c.items[k].source)
           /\ \A id : Place(InLatin1(c).items, id) = Place(c.items, id)
<1> DEFINE items == c.items
           latin == [k \in DOMAIN items |-> [id |-> items[k].id,
                                             source |-> ToLatin1(items[k].source)]]
<1>1. /\ items \in Seq(SavedItem) /\ c.slots \in [Slots -> State] /\ c.current \in State
      /\ c = [items |-> c.items, slots |-> c.slots, current |-> c.current]
      /\ DistinctIds(items)
  BY DEF Written, Readable, Saved, SavedItem
<1>2. InLatin1(c) = [items |-> latin, slots |-> c.slots, current |-> c.current]
  <2>1. InLatin1(c) = [c EXCEPT !.items = latin]
    BY DEF InLatin1
  <2> HIDE DEF latin
  <2>2. QED
    BY <2>1 DEF Written, Readable, Saved
<1> HIDE DEF items
<1>3. PICK n \in Nat : n = Len(items) /\ DOMAIN items = 1 .. n
  BY <1>1, LenProperties
<1>4. \A k \in 1 .. n : items[k].id \in Nat /\ items[k].source \in Source \cup {Garbled}
  <2>1. \A k \in 1 .. n : items[k] \in SavedItem
    BY <1>1, <1>3, ElementOfSeq
  <2>2. QED
    BY <2>1 DEF SavedItem
<1>5. \A k \in 1 .. n : latin[k].id = items[k].id /\ latin[k].source = ToLatin1(items[k].source)
  BY <1>3
<1>6. latin \in [1 .. n -> SavedItem]
  BY <1>3, <1>4 DEF SavedItem, ToLatin1
<1> HIDE DEF latin
<1>7. latin \in Seq(SavedItem) /\ Len(latin) = n /\ DOMAIN latin = 1 .. n
  BY <1>6, FunctionIsSeq
<1>8. DistinctIds(latin)
  BY <1>1, <1>3, <1>5, <1>7 DEF DistinctIds
<1>9. InLatin1(c) \in Saved
  BY <1>1, <1>2, <1>7 DEF Saved, SavedItem
<1>10. ASSUME NEW id
       PROVE  Place(latin, id) = Place(items, id)
  <2>1. {k \in 1 .. Len(latin) : latin[k].id = id} = {k \in 1 .. Len(items) : items[k].id = id}
    BY <1>3, <1>5, <1>7
  <2>2. QED
    BY <2>1 DEF Place, SelectInSeq
<1>11. QED
  BY <1>2, <1>3, <1>5, <1>7, <1>8, <1>9, <1>10, SessionAssumption DEF Readable, items

\* One item more, with the next id.
LEMMA AppendLemma ==
    ASSUME TreeInv, NEW item \in ItemType, item.id = idCounter,
           playlist' = Append(playlist, item), idCounter' = idCounter + 1,
           selectionStates' = selectionStates,
           \/ selected' = selected /\ playback' = playback
           \/ /\ selected' = idCounter /\ playback' \in Playback
              /\ playback'.currentFrameIdx # -1 <=> item.source \in Files
    PROVE  TreeInv'
<1>1. PICK m \in Nat : m = Len(playlist) /\ DOMAIN playlist = 1 .. m
  BY LenProperties DEF TreeInv
<1>2. /\ playlist' \in Seq(ItemType) /\ Len(playlist') = m + 1
      /\ \A k \in 1 .. m : playlist'[k] = playlist[k]
      /\ playlist'[m + 1] = item
  BY <1>1 DEF TreeInv
<1>3. DOMAIN playlist' = 1 .. m + 1
  BY <1>1, <1>2, LenProperties
<1>4. \A j, k \in 1 .. m : playlist'[j].id = playlist'[k].id => j = k
  BY <1>1, <1>2, SMTT(30) DEF TreeInv, DistinctIds
<1>5. \A k \in 1 .. m : playlist'[k].id < idCounter
  BY <1>1, <1>2 DEF TreeInv
<1>6. \A k \in 1 .. 1 : playlist'[m + k].id = idCounter + k - 1
  BY <1>1, <1>2 DEF TreeInv
<1>7. idCounter \in Nat /\ 1 \in Nat
  BY DEF TreeInv
<1>8. DistinctIds(playlist') /\ \A k \in DOMAIN playlist' : playlist'[k].id < idCounter + 1
  BY <1>1, <1>2, <1>3, <1>4, <1>5, <1>6, <1>7, HigherIds
<1>9. /\ \A k \in DOMAIN playlist' : k \in 1 .. m \/ k = m + 1
      /\ m + 1 \in DOMAIN playlist' /\ \A k \in 1 .. m : k \in DOMAIN playlist'
  BY <1>3
<1>10. /\ selected' \in Ids(playlist') \cup {None} /\ playback' \in Playback
       /\ FrameOf(playlist', selected', playback')
  <2>1. CASE selected' = selected /\ playback' = playback
    <3>1. selected # idCounter
      BY <1>7, SessionAssumption DEF TreeInv, Ids
    <3>2. ShowsFile(playlist', selected) <=> ShowsFile(playlist, selected)
      BY <1>1, <1>2, <1>9, <3>1 DEF ShowsFile
    <3>3. selected \in Ids(playlist') \cup {None}
      BY <1>1, <1>2, <1>9 DEF TreeInv, Ids
    <3>4. QED
      BY <2>1, <3>2, <3>3 DEF TreeInv, FrameOf
  <2>2. CASE /\ selected' = idCounter /\ playback' \in Playback
             /\ playback'.currentFrameIdx # -1 <=> item.source \in Files
    <3>1. \A k \in 1 .. m : playlist'[k].id # idCounter
      BY <1>5, <1>7
    <3>2. ShowsFile(playlist', idCounter) <=> item.source \in Files
      BY <1>2, <1>9, <3>1 DEF ShowsFile
    <3>3. idCounter \in Ids(playlist')
      BY <1>2, <1>9 DEF Ids
    <3>4. QED
      BY <2>2, <3>2, <3>3 DEF FrameOf
  <2>3. QED
    BY <2>1, <2>2
<1>11. QED
  BY <1>2, <1>7, <1>8, <1>10 DEF TreeInv, DistinctIds, FrameOf, ShowsFile, Ids

\* One item less.
LEMMA RemoveLemma ==
    ASSUME TreeInv, NEW k \in DOMAIN playlist, playlist' = RemoveAt(playlist, k),
           idCounter' = idCounter, selectionStates' = selectionStates,
           selected' \in Ids(playlist') \cup {None}, playback' \in Playback,
           playback'.currentFrameIdx # -1 <=> SourceOf(playlist', selected') \in Files
    PROVE  TreeInv'
<1> DEFINE first == SubSeq(playlist, 1, k - 1)
           rest == SubSeq(playlist, k + 1, Len(playlist))
<1>1. PICK n \in Nat : n = Len(playlist) /\ DOMAIN playlist = 1 .. n
  BY LenProperties DEF TreeInv
<1>2. k \in 1 .. n /\ \A i \in 1 .. n : playlist[i] \in ItemType
  BY <1>1, ElementOfSeq DEF TreeInv
<1>3. /\ first \in Seq(ItemType) /\ Len(first) = k - 1
      /\ \A i \in 1 .. k - 1 : first[i] = playlist[i]
  <2>1. \A i \in 1 .. k - 1 : playlist[i] \in ItemType
    BY <1>1, <1>2
  <2>2. QED
    BY <1>1, <1>2, <2>1, SubSeqProperties, SMTT(30)
<1>4. /\ rest \in Seq(ItemType) /\ Len(rest) = n - k
      /\ \A i \in 1 .. n - k : rest[i] = playlist[k + i]
  <2>1. \A i \in k + 1 .. n : playlist[i] \in ItemType
    BY <1>1, <1>2
  <2>2. QED
    BY <1>1, <1>2, <2>1, SubSeqProperties, SMTT(30)
<1>5. playlist' = first \o rest
  BY DEF RemoveAt
<1> HIDE DEF first, rest
<1>6. /\ playlist' \in Seq(ItemType) /\ Len(playlist') = n - 1
      /\ \A i \in 1 .. n - 1 : playlist'[i] = IF i <= k - 1 THEN first[i] ELSE rest[i - (k - 1)]
  <2>1. /\ first \o rest \in Seq(ItemType) /\ Len(first \o rest) = Len(first) + Len(rest)
        /\ \A i \in 1 .. Len(first) + Len(rest) :
             (first \o rest)[i] = IF i <= Len(first) THEN first[i] ELSE rest[i - Len(first)]
    BY <1>3, <1>4, ConcatProperties
  <2>2. Len(first) + Len(rest) = n - 1 /\ Len(first) = k - 1
    <3>1. Len(first) = k - 1 /\ Len(rest) = n - k
      BY <1>3, <1>4
    <3>2. k \in 1 .. n
      BY <1>2
    <3>3. (k - 1) + (n - k) = n - 1
      BY <3>2
    <3>4. QED
      BY <3>1, <3>3
  <2>3. /\ first \o rest \in Seq(ItemType) /\ Len(first \o rest) = n - 1
        /\ \A i \in 1 .. n - 1 :
             (first \o rest)[i] = IF i <= k - 1 THEN first[i] ELSE rest[i - (k - 1)]
    BY <2>1, <2>2, ZenonT(30)
  <2>4. QED
    BY <1>5, <2>3, ZenonT(30)
<1>7. DOMAIN playlist' = 1 .. n - 1
  BY <1>6, LenProperties
<1> DEFINE Old(i) == IF i <= k - 1 THEN i ELSE i + 1
<1>8. ASSUME NEW i \in 1 .. n - 1
      PROVE  Old(i) \in 1 .. n /\ playlist'[i] = playlist[Old(i)]
  <2>1. CASE i <= k - 1
    BY <1>1, <1>2, <1>3, <1>6, <2>1
  <2>2. CASE ~ (i <= k - 1)
    <3>1. i - (k - 1) \in 1 .. n - k /\ k + (i - (k - 1)) = i + 1
      BY <1>1, <1>2, <2>2
    <3>2. playlist'[i] = rest[i - (k - 1)]
      BY <1>6, <2>2
    <3>3. rest[i - (k - 1)] = playlist[i + 1]
      BY <1>4, <3>1
    <3>4. Old(i) = i + 1 /\ i + 1 \in 1 .. n
      BY <1>1, <2>2
    <3>5. QED
      BY <3>2, <3>3, <3>4
  <2>3. QED
    BY <2>1, <2>2
<1>9. \A i, j \in 1 .. n - 1 : Old(i) = Old(j) => i = j
  BY <1>1, <1>2
<1> HIDE DEF Old
<1>10. DistinctIds(playlist)'
  <2>1. ASSUME NEW i \in 1 .. n - 1, NEW j \in 1 .. n - 1, playlist'[i].id = playlist'[j].id
        PROVE  i = j
    <3>1. Old(i) = Old(j)
      BY <1>1, <1>8, <2>1 DEF TreeInv, DistinctIds
    <3>2. QED
      BY <1>9, <3>1
  <2>2. QED
    BY <1>7, <2>1 DEF DistinctIds
<1>11. \A i \in DOMAIN playlist' : playlist'[i].id < idCounter'
  BY <1>1, <1>7, <1>8 DEF TreeInv
<1>12. FrameOf(playlist', selected', playback')
  <2> DEFINE items == playlist'
             id    == selected'
  <2>1. items \in Seq(ItemType) /\ DistinctIds(items)
    BY <1>6, <1>10 DEF DistinctIds
  <2> HIDE DEF items, id
  <2>2. SourceOf(items, id) \in Files <=> ShowsFile(items, id)
    BY <2>1, SourceLemma
  <2>3. QED
    BY <2>2 DEF FrameOf, items, id
<1>13. QED
  BY <1>6, <1>10, <1>11, <1>12 DEF TreeInv, DistinctIds, Ids, FrameOf, ShowsFile

\* A step that leaves the files, or drops the autosave.
LEMMA FilesLemma ==
    ASSUME TickInv, playlistFile' # None => Written(playlistFile'),
           \/ autosave' = autosave /\ atTick' = atTick
           \/ autosave' = None /\ atTick' = None
    PROVE  FileInv' /\ TickInv'
<1>1. FileInv'
  BY DEF FileInv
<1>2. Ticked(autosave', atTick')
  BY DEF TickInv, Ticked
<1>3. QED
  BY <1>1, <1>2 DEF TickInv

\* The program ends.
LEMMA EndedLemma ==
    ASSUME SessionInv, Ended, playlistFile' # None => Written(playlistFile'),
           \/ autosave' = autosave /\ atTick' = atTick
           \/ autosave' = None /\ atTick' = None
    PROVE  SessionInv'
<1>1. /\ playlist' = <<>> /\ idCounter' = 0 /\ selected' = None /\ playback' = NoPlayback
      /\ selectionStates' = NoSlots /\ running' = FALSE
  BY DEF Ended
<1>2. /\ <<>> \in Seq(ItemType) /\ DOMAIN <<>> = {} /\ NoSlots \in [Slots -> State]
      /\ NoPlayback \in Playback /\ NoPlayback.currentFrameIdx = -1
  BY EmptySeq DEF NoSlots, NoState, State, Id, Frame, NoPlayback, Playback
<1>3. TreeInv'
  BY <1>1, <1>2 DEF TreeInv, DistinctIds, FrameOf, ShowsFile
<1>4. EndedInv'
  BY <1>1 DEF EndedInv, NoSlots, NoPlayback
<1>5. FileInv' /\ TickInv'
  BY FilesLemma DEF SessionInv
<1>6. QED
  BY <1>3, <1>4, <1>5 DEF SessionInv

\* A step of the running program that keeps the tree in order.
LEMMA RunningLemma ==
    ASSUME SessionInv, TreeInv', running' = TRUE,
           playlistFile' # None => Written(playlistFile'),
           \/ autosave' = autosave /\ atTick' = atTick
           \/ autosave' = None /\ atTick' = None
    PROVE  SessionInv'
<1>1. EndedInv'
  BY DEF EndedInv
<1>2. FileInv' /\ TickInv'
  BY FilesLemma DEF SessionInv
<1>3. QED
  BY <1>1, <1>2 DEF SessionInv

\* A step that changes only what is selected and its frame, or the slots.
LEMMA SelectionLemma ==
    ASSUME TreeInv, playlist' = playlist, idCounter' = idCounter,
           selected' \in Ids(playlist) \cup {None}, selectionStates' \in [Slots -> State],
           playback' \in Playback, FrameOf(playlist, selected', playback')
    PROVE  TreeInv'
BY DEF TreeInv, DistinctIds, Ids, FrameOf, ShowsFile

\* The autosave can be loaded.
LEMMA AutosaveLemma ==
    ASSUME TickInv, autosave # None
    PROVE  \E c \in Saved : /\ Written(c) /\ autosave = InLatin1(c) /\ Readable(autosave)
                            /\ atTick = Shown(c) /\ atTick # None
BY Latin1Lemma DEF TickInv, Ticked

LEMMA StartUpSession ==
    ASSUME SessionInv, NEW restore \in BOOLEAN, StartUp(restore)
    PROVE  SessionInv'
<1>1. TreeInv'
  <2>1. CASE restore
    <3>1. /\ LoadPlaylistFromByteArray(autosave, <<>>, None, NoPlayback)
          /\ autosave # None /\ TreeInv /\ TickInv
      BY <2>1 DEF StartUp, SessionInv
    <3>2. Readable(autosave)
      BY <3>1, AutosaveLemma
    <3>3. Before(<<>>, None, NoPlayback)
      BY DEF Before, NoPlayback, Playback, Frame
    <3>4. QED
      BY <3>1, <3>2, <3>3, LoadTree
  <2>2. CASE ~restore
    BY <2>2 DEF StartUp, SessionInv, TreeInv, DistinctIds, Ids, FrameOf, ShowsFile
  <2>3. QED
    BY <2>1, <2>2
<1>2. /\ running' = TRUE /\ autosave' = autosave /\ atTick' = atTick
      /\ playlistFile' # None => Written(playlistFile')
  BY DEF StartUp, files, SessionInv, FileInv
<1>3. QED
  BY <1>1, <1>2, RunningLemma

LEMMA AutoSaveSession ==
    ASSUME SessionInv, AutoSavePlaylist
    PROVE  SessionInv'
<1>1. TreeInv'
  BY DEF AutoSavePlaylist, tree, SessionInv, TreeInv, DistinctIds, Ids, FrameOf, ShowsFile
<1>2. CASE playlist = <<>>
  <2>1. /\ running' = TRUE /\ autosave' = None /\ atTick' = None
        /\ playlistFile' # None => Written(playlistFile')
    BY <1>2 DEF AutoSavePlaylist, InProgram, SessionInv, FileInv
  <2>2. QED
    BY <1>1, <2>1, RunningLemma
<1>3. CASE playlist # <<>>
  <2>1. /\ running' = TRUE /\ autosave' = InLatin1(GetPlaylistString) /\ atTick' = View
        /\ playlistFile' = playlistFile
    BY <1>3 DEF AutoSavePlaylist, InProgram
  <2>2. /\ Written(GetPlaylistString) /\ View = Shown(GetPlaylistString) /\ View # None
    BY SavedLemma DEF SessionInv
  <2> DEFINE c == GetPlaylistString
             seen == View
  <2>3. Written(c) /\ c \in Saved /\ seen = Shown(c) /\ seen # None
    BY <2>2 DEF Written, Readable
  <2> HIDE DEF c, seen
  <2>4. Ticked(InLatin1(c), seen)
    BY <2>3 DEF Ticked
  <2>5. FileInv' /\ TickInv'
    BY <2>1, <2>4 DEF SessionInv, FileInv, TickInv, c, seen
  <2>6. EndedInv'
    BY <2>1 DEF EndedInv
  <2>7. QED
    BY <1>1, <2>5, <2>6 DEF SessionInv
<1>4. QED
  BY <1>2, <1>3

\* The user adds an item.
LEMMA AddSession ==
    ASSUME SessionInv,
           \/ \E f \in Files : LoadFiles(f)
           \/ AddTextItem
           \/ DuplicateSelectedItems
    PROVE  SessionInv'
<1>1. TreeInv
  BY DEF SessionInv
<1>2. /\ idCounter \in Nat /\ selected \in Id /\ 0 \in Id /\ playback \in Playback
  BY <1>1, IdsLemma DEF TreeInv, Id
<1>3. \E source \in Source, id \in Id :
        /\ Append1(NewItem(source, id)) /\ ByUser
        /\ \/ selected' = selected /\ playback' = playback
           \/ selected' = idCounter /\ playback' = CurrentSelectedItemsChanged(playback, source)
  <2>1. CASE \E f \in Files : LoadFiles(f)
    BY <1>2, <2>1 DEF LoadFiles, Source
  <2>2. CASE AddTextItem
    BY <1>2, <2>2 DEF AddTextItem, Source
  <2>3. CASE DuplicateSelectedItems
    <3>1. PICK k \in DOMAIN playlist :
            /\ Append1(NewItem(playlist[k].source, selected)) /\ ByUser
            /\ selected' = idCounter
            /\ playback' = CurrentSelectedItemsChanged(playback, playlist[k].source)
      BY <2>3 DEF DuplicateSelectedItems
    <3>2. playlist[k].source \in Source
      BY <1>1, IdsLemma DEF ItemType
    <3>3. QED
      BY <1>2, <3>1, <3>2
  <2>4. QED
    BY <2>1, <2>2, <2>3
<1>4. PICK source \in Source, id \in Id :
        /\ Append1(NewItem(source, id)) /\ ByUser
        /\ \/ selected' = selected /\ playback' = playback
           \/ selected' = idCounter /\ playback' = CurrentSelectedItemsChanged(playback, source)
  BY <1>3
<1> DEFINE item == NewItem(source, id)
<1>5. item \in ItemType /\ item.id = idCounter /\ item.source = source
  BY <1>2 DEF NewItem, ItemType
<1>6. /\ playlist' = Append(playlist, item) /\ idCounter' = idCounter + 1
      /\ selectionStates' = selectionStates
      /\ autosave' = autosave /\ atTick' = atTick /\ playlistFile' = playlistFile
      /\ running' = TRUE
  BY <1>4 DEF Append1, files, ByUser, InProgram
<1> HIDE DEF item
<1>7. \/ selected' = selected /\ playback' = playback
      \/ /\ selected' = idCounter /\ playback' \in Playback
         /\ playback'.currentFrameIdx # -1 <=> item.source \in Files
  BY <1>2, <1>4, <1>5, ChangedLemma
<1>8. TreeInv'
  BY <1>1, <1>5, <1>6, <1>7, AppendLemma
<1>9. QED
  BY <1>6, <1>8, RunningLemma DEF SessionInv, FileInv

LEMMA DeleteSession ==
    ASSUME SessionInv, NEW k \in DOMAIN playlist, DeletePlaylistItems(k)
    PROVE  SessionInv'
<1>1. TreeInv /\ playback \in Playback
  BY DEF SessionInv, TreeInv
<1>2. /\ playlist' = RemoveAt(playlist, k) /\ idCounter' = idCounter
      /\ selectionStates' = selectionStates
      /\ autosave' = autosave /\ atTick' = atTick /\ playlistFile' = playlistFile
      /\ running' = TRUE
  BY DEF DeletePlaylistItems, files, ByUser, InProgram
<1>3. PICK p \in {playback, CurrentSelectedItemsChanged(playback, None)} :
        /\ selected' \in Ids(playlist') \cup {None}
        /\ playback' = CurrentSelectedItemsChanged(p, SourceOf(playlist', selected'))
  BY <1>2 DEF DeletePlaylistItems
<1>4. p \in Playback
  BY <1>1, ChangedLemma
<1>5. /\ playback' \in Playback
      /\ playback'.currentFrameIdx # -1 <=> SourceOf(playlist', selected') \in Files
  BY <1>3, <1>4, ChangedLemma
<1>6. TreeInv'
  BY <1>1, <1>2, <1>3, <1>5, RemoveLemma
<1>7. QED
  BY <1>2, <1>6, RunningLemma DEF SessionInv, FileInv

\* The user selects something or goes to another frame, or an item that is gone is
\* forgotten.
Selecting ==
    \/ \E id \in Ids(playlist) \cup {None} : Select(id)
    \/ \E f \in Files : \E n \in 0 .. LastFrame[f] :
           SourceOf(playlist, selected) = f /\ SetFrame(n)
    \/ \E id \in removed : ItemDeleted(id)
    \/ \E s \in Slots : SaveViewState(s) \/ LoadViewState(s)

LEMMA SelectSession ==
    ASSUME SessionInv, Selecting
    PROVE  SessionInv'
<1>1. TreeInv
  BY DEF SessionInv
<1>2. /\ playlist \in Seq(ItemType) /\ DistinctIds(playlist)
      /\ selected \in Ids(playlist) \cup {None} /\ selected \in Id /\ None \in Id
      /\ selectionStates \in [Slots -> State] /\ playback \in Playback
      /\ FrameOf(playlist, selected, playback)
      /\ playlistFile # None => Written(playlistFile)
  BY <1>1, IdsLemma DEF TreeInv, SessionInv, FileInv
<1>3. /\ playlist' = playlist /\ idCounter' = idCounter /\ running' = TRUE
      /\ autosave' = autosave /\ atTick' = atTick /\ playlistFile' = playlistFile
  BY DEF Selecting, Select, SetFrame, ItemDeleted, SaveViewState, LoadViewState, files, ByUser,
         InProgram
<1> DEFINE Goal == /\ selected' \in Ids(playlist) \cup {None}
                   /\ selectionStates' \in [Slots -> State]
                   /\ playback' \in Playback /\ FrameOf(playlist, selected', playback')
<1>4. Goal
  <2>1. ASSUME NEW id \in Ids(playlist) \cup {None}, Select(id)
        PROVE  Goal
    <3>1. /\ selected' = id /\ selectionStates' = selectionStates
          /\ playback' = CurrentSelectedItemsChanged(playback, SourceOf(playlist, id))
      BY <2>1 DEF Select
    <3>2. playback' \in Playback /\ FrameOf(playlist, id, playback')
      BY <1>2, <3>1, ChangedLemma, SourceLemma DEF FrameOf
    <3>3. QED
      BY <1>2, <3>1, <3>2
  <2>2. ASSUME NEW f \in Files, NEW n \in 0 .. LastFrame[f],
               SourceOf(playlist, selected) = f, SetFrame(n)
        PROVE  Goal
    <3>1. n \in Nat
      BY SessionAssumption
    <3>2. /\ selected' = selected /\ selectionStates' = selectionStates
          /\ playback' = [playback EXCEPT !.currentFrameIdx = n]
      BY <2>2 DEF SetFrame
    <3>3. playback' \in Playback /\ playback'.currentFrameIdx = n
      BY <1>2, <3>1, <3>2 DEF Playback, Frame
    <3>4. ShowsFile(playlist, selected)
      BY <1>2, <2>2, SourceLemma
    <3>5. QED
      BY <1>2, <3>1, <3>2, <3>3, <3>4 DEF FrameOf
  <2>3. ASSUME NEW id \in removed, ItemDeleted(id)
        PROVE  Goal
    <3>1. \A s \in Slots : [selectionStates[s] EXCEPT !.item = None] \in State
      BY <1>2 DEF State
    <3>2. QED
      BY <1>2, <2>3, <3>1 DEF ItemDeleted
  <2>4. ASSUME NEW s \in Slots, SaveViewState(s)
        PROVE  Goal
    <3>1. [item |-> selected, frame |-> playback.currentFrameIdx] \in State
      BY <1>2 DEF State, Playback
    <3>2. QED
      BY <1>2, <2>4, <3>1 DEF SaveViewState
  <2>5. ASSUME NEW s \in Slots, LoadViewState(s)
        PROVE  Goal
    <3>1. selectionStates[s].item \in Id /\ selectionStates[s].frame \in Nat
      BY <1>2, <2>5 DEF LoadViewState, PlaybackStateFrameIdx, State, Frame
    <3>2. QED
      BY <1>2, <2>5, <3>1, ShowsLemma DEF LoadViewState
  <2>6. QED
    BY <2>1, <2>2, <2>3, <2>4, <2>5 DEF Selecting
<1>5. TreeInv'
  BY <1>1, <1>3, <1>4, SelectionLemma
<1>6. QED
  BY <1>2, <1>3, <1>5, RunningLemma

\* What is selected before a playlist file is loaded.
LEMMA LoadsBefore ==
    ASSUME TreeInv, NEW answer, LoadPlaylistFile(answer)
    PROVE  \E before, old, p : /\ Before(before, old, p)
                               /\ LoadPlaylistFromByteArray(playlistFile, before, old, p)
<1>1. CASE answer = "Clear"
  <2>1. LoadPlaylistFromByteArray(playlistFile, <<>>, None,
                                  CurrentSelectedItemsChanged(playback, None))
    BY <1>1 DEF LoadPlaylistFile
  <2>2. /\ CurrentSelectedItemsChanged(playback, None) \in Playback
        /\ CurrentSelectedItemsChanged(playback, None).currentFrameIdx = -1
    BY ChangedLemma, SessionAssumption DEF TreeInv
  <2>3. QED
    BY <2>1, <2>2 DEF Before
<1>2. CASE answer # "Clear"
  <2>1. LoadPlaylistFromByteArray(playlistFile, playlist, selected, playback)
    BY <1>2 DEF LoadPlaylistFile
  <2>2. QED
    BY <2>1 DEF Before, TreeInv
<1>3. QED
  BY <1>1, <1>2

LEMMA LoadFileSession ==
    ASSUME SessionInv, NEW answer \in {"Clear", "Append"}, LoadPlaylistFile(answer)
    PROVE  SessionInv'
<1>1. TreeInv /\ Written(playlistFile) /\ Readable(playlistFile)
  BY DEF LoadPlaylistFile, SessionInv, FileInv, Written
<1>2. TreeInv'
  BY <1>1, LoadsBefore, LoadTree
<1>3. /\ autosave' = autosave /\ atTick' = atTick /\ playlistFile' = playlistFile
      /\ running' = TRUE
  BY DEF LoadPlaylistFile, files, ByUser, InProgram
<1>4. QED
  BY <1>1, <1>2, <1>3, RunningLemma

\* The tree does not change.
LEMMA SameTree ==
    ASSUME TreeInv, UNCHANGED <<playlist, idCounter, selected, selectionStates, playback>>
    PROVE  TreeInv'
BY DEF TreeInv, DistinctIds, Ids, FrameOf, ShowsFile

\* Nothing changes but the files that are missing.
LEMMA UnchangedSession ==
    ASSUME SessionInv, UNCHANGED <<autosave, playlistFile, running, tree, atTick>>
    PROVE  SessionInv'
<1>1. TreeInv' /\ EndedInv'
  BY SameTree DEF tree, SessionInv, EndedInv, NoSlots, NoPlayback
<1>2. playlistFile' # None => Written(playlistFile')
  BY DEF SessionInv, FileInv
<1>3. FileInv' /\ TickInv'
  BY <1>2, FilesLemma DEF SessionInv
<1>4. QED
  BY <1>1, <1>3 DEF SessionInv

LEMMA NextSession == SessionInv /\ [Next]_vars => SessionInv'
<1> SUFFICES ASSUME SessionInv, [Next]_vars
             PROVE  SessionInv'
  OBVIOUS
<1>1. CASE \E restore \in BOOLEAN : StartUp(restore)
  BY <1>1, StartUpSession
<1>2. CASE DropAutosavedPlaylist
  <2>1. /\ autosave' = None /\ atTick' = None /\ playlistFile' = playlistFile
        /\ running' = TRUE /\ UNCHANGED tree
    BY <1>2 DEF DropAutosavedPlaylist
  <2>2. TreeInv'
    BY <2>1, SameTree DEF tree, SessionInv
  <2>3. QED
    BY <2>1, <2>2, RunningLemma DEF SessionInv, FileInv
<1>3. CASE Crash
  <2>1. Ended /\ playlistFile' = playlistFile /\ autosave' = autosave /\ atTick' = atTick
    BY <1>3 DEF Crash, files
  <2>2. QED
    BY <2>1, EndedLemma DEF SessionInv, FileInv
<1>4. ASSUME NEW answer \in {"not asked", "Close", "Save"}, CloseEvent(answer)
      PROVE  SessionInv'
  <2>1. /\ Ended /\ autosave' = None /\ atTick' = None
        /\ playlistFile' = IF answer = "Save" THEN GetPlaylistString ELSE playlistFile
    BY <1>4 DEF CloseEvent
  <2>2. playlistFile' # None => Written(playlistFile')
    BY <2>1, SavedLemma DEF SessionInv, FileInv
  <2>3. QED
    BY <2>1, <2>2, EndedLemma
<1>5. CASE AutoSavePlaylist
  BY <1>5, AutoSaveSession
<1>6. CASE (\E f \in Files : LoadFiles(f)) \/ AddTextItem \/ DuplicateSelectedItems
  BY <1>6, AddSession
<1>7. CASE \E f \in Files : FileVanishes(f)
  <2>1. UNCHANGED <<autosave, playlistFile, running, tree, atTick>>
    BY <1>7 DEF FileVanishes
  <2>2. QED
    BY <2>1, UnchangedSession
<1>8. CASE \E k \in DOMAIN playlist : DeletePlaylistItems(k)
  BY <1>8, DeleteSession
<1>9. CASE Selecting
  BY <1>9, SelectSession
<1>10. CASE SavePlaylistToFile
  <2>1. /\ autosave' = autosave /\ atTick' = atTick /\ playlistFile' = GetPlaylistString
        /\ running' = TRUE
        /\ UNCHANGED <<playlist, idCounter, selected, selectionStates, playback>>
    BY <1>10 DEF SavePlaylistToFile, ByUser, InProgram
  <2>2. TreeInv'
    BY <2>1, SameTree DEF SessionInv
  <2>3. QED
    BY <2>1, <2>2, SavedLemma, RunningLemma DEF SessionInv
<1>11. CASE \E answer \in {"Clear", "Append"} : LoadPlaylistFile(answer)
  BY <1>11, LoadFileSession
<1>12. CASE UNCHANGED vars
  BY <1>12, UnchangedSession DEF vars, files
<1>13. QED
  BY <1>1, <1>2, <1>3, <1>4, <1>5, <1>6, <1>7, <1>8, <1>9, <1>10, <1>11, <1>12
     DEF Next, Selecting
-----------------------------------------------------------------------------
(* A session comes back.                                                   *)

\* Where in the list of loaded items the item at a place is.
NewPlace(places, p) == SelectInSeq(places, LAMBDA q : q = p)

LEMMA NewPlaceLemma ==
    ASSUME NEW E, NEW places \in Seq(E), NEW p
    PROVE  /\ (\A k \in DOMAIN places : places[k] # p) => NewPlace(places, p) = 0
           /\ \A k \in DOMAIN places :
                places[k] = p /\ (\A j \in DOMAIN places : places[j] = p => j = k)
                => NewPlace(places, p) = k
<1> DEFINE I == {k \in 1 .. Len(places) : places[k] = p}
<1>1. NewPlace(places, p) = IF I # {} THEN Min(I) ELSE 0
  BY DEF NewPlace, SelectInSeq
<1>2. DOMAIN places = 1 .. Len(places) /\ Len(places) \in Nat
  BY LenProperties
<1>3. ASSUME \A k \in DOMAIN places : places[k] # p
      PROVE  NewPlace(places, p) = 0
  BY <1>1, <1>2, <1>3
<1>4. ASSUME NEW k \in DOMAIN places, places[k] = p,
             \A j \in DOMAIN places : places[j] = p => j = k
      PROVE  NewPlace(places, p) = k
  <2>1. I = {k} /\ k \in Nat
    BY <1>2, <1>4
  <2>2. Min(I) = k
    BY <2>1 DEF Min
  <2>3. QED
    BY <1>1, <2>1, <2>2
<1>5. QED
  BY <1>3, <1>4

\* An id that was saved is found again where its item has gone, or not at all if
\* its item is left out.
Again(items, id, found) ==
    \/ /\ found = None
       /\ Place(playlist', found) = 0 /\ NewPlace(Places(items), Place(items, id)) = 0
    \/ \E k \in DOMAIN Places(items) :
          /\ k \in DOMAIN playlist' /\ playlist'[k].id = found /\ found \in Nat
          /\ Place(playlist', found) = k /\ k # 0
          /\ NewPlace(Places(items), Place(items, id)) = k
          /\ Places(items)[k] = Place(items, id) /\ Place(items, id) \in DOMAIN items

LEMMA FoundAgain ==
    ASSUME TreeInv, NEW c, Readable(c), LoadItemsAndStates(c, <<>>, None, NoPlayback),
           NEW id \in Id
    PROVE  Again(c.items, id, ItemWithPlaylistID(AllItems(<<>>, c.items), id))
<1> DEFINE items == c.items
           places == Places(items)
           n == Len(places)
           found == ItemWithPlaylistID(AllItems(<<>>, items), id)
<1>1. items \in Seq(SavedItem) /\ DistinctIds(items) /\ idCounter \in Nat
  BY DEF Readable, Saved, SavedItem, TreeInv
<1>2. /\ n \in Nat /\ DOMAIN playlist' = 1 .. n
      /\ \A k \in 1 .. n : playlist'[k].id = idCounter + k - 1
      /\ playlist' \in Seq(ItemType)
  <2>1. Len(<<>>) = 0
    BY EmptySeq
  <2>2. TreeInv' /\ Loaded(c, 0, n)
    <3>1. Before(<<>>, None, NoPlayback)
      BY DEF Before, NoPlayback, Playback, Frame
    <3>2. QED
      BY <2>1, <3>1, LoadLemma
  <2>3. /\ n \in Nat /\ DOMAIN playlist' = 1 .. 0 + n /\ playlist' \in Seq(ItemType)
        /\ \A k \in 1 .. n : playlist'[0 + k].id = idCounter + k - 1
    BY <2>2 DEF TreeInv, Loaded
  <2> HIDE DEF n
  <2>4. 0 + n = n /\ \A k \in 1 .. n : 0 + k = k
    BY <2>3
  <2>5. QED
    BY <2>3, <2>4
<1>3. /\ places \in Seq(DOMAIN items) /\ DOMAIN places = 1 .. n
      /\ \A a, b \in DOMAIN places : places[a] = places[b] => a = b
      /\ \A k \in 1 .. n : places[k] \in DOMAIN items
  BY <1>1, PlacesLemma, LoadItemsLemma
<1>4. \A k \in 1 .. n : items[places[k]].id = id => found = idCounter + k - 1
  <2>1. <<>> \in Seq(ItemType)
    BY EmptySeq
  <2>2. ASSUME NEW k \in 1 .. Len(Places(items)), items[Places(items)[k]].id = id
        PROVE  ItemWithPlaylistID(AllItems(<<>>, items), id) = idCounter + k - 1
    <3>1. PICK before \in Seq(ItemType) : before = <<>>
      BY <2>1
    <3> HIDE DEF items, places, n, found
    <3>2. ItemWithPlaylistID(AllItems(before, items), id) = idCounter + k - 1
      BY SMTT(30), <1>1, <2>2, FoundLemma
    <3>3. QED
      BY <3>1, <3>2
  <2>3. QED
    BY <2>2
<1>5. (\A k \in 1 .. n : items[places[k]].id # id) => found = None
  BY <1>1, NotFoundLemma
<1>6. \A k \in DOMAIN items : items[k].id = id => Place(items, id) = k
  <2>1. ASSUME NEW k \in DOMAIN items, items[k].id = id
        PROVE  \A j \in DOMAIN items : items[j].id = id => j = k
    BY <1>1, <2>1 DEF DistinctIds
  <2> HIDE DEF items
  <2>2. QED
    BY <1>1, <2>1, PlaceLemma
<1>7. \/ Place(items, id) = 0
      \/ Place(items, id) \in DOMAIN items /\ items[Place(items, id)].id = id
  BY <1>1, PlaceIsFound
<1>8. 0 \notin DOMAIN items
  BY <1>1, LenProperties
<1> HIDE DEF items, places, n, found
<1>9. CASE \E k \in 1 .. n : items[places[k]].id = id
  <2>1. PICK k \in 1 .. n : items[places[k]].id = id
    BY <1>9
  <2>2. found = idCounter + k - 1 /\ Place(items, id) = places[k]
    BY <1>3, <1>4, <1>6, <2>1
  <2>3. Place(playlist', found) = k
    <3>1. \A j \in DOMAIN playlist' : playlist'[j].id = found => j = k
      BY <1>1, <1>2, <2>2
    <3>2. k \in DOMAIN playlist' /\ playlist'[k].id = found
      BY <1>2, <2>2
    <3>3. QED
      BY <1>2, <3>1, <3>2, PlaceLemma
  <2>4. NewPlace(places, Place(items, id)) = k
    <3>1. \A j \in DOMAIN places : places[j] = Place(items, id) => j = k
      BY <1>3, <2>2
    <3>2. k \in DOMAIN places /\ places[k] = Place(items, id)
      BY <1>3, <2>2
    <3>3. QED
      BY <1>3, <3>1, <3>2, NewPlaceLemma
  <2>5. /\ k \in DOMAIN places /\ k \in DOMAIN playlist' /\ playlist'[k].id = found
        /\ found \in Nat /\ k # 0 /\ places[k] = Place(items, id) /\ places[k] \in DOMAIN items
    BY <1>1, <1>2, <1>3, <2>2
  <2>6. QED
    BY <2>3, <2>4, <2>5 DEF items, places, found, Again
<1>10. CASE \A k \in 1 .. n : items[places[k]].id # id
  <2>1. found = None
    BY <1>5, <1>10
  <2>2. Place(playlist', found) = 0
    <3>1. \A j \in DOMAIN playlist' : playlist'[j].id # found
      BY <1>1, <1>2, <2>1, SessionAssumption
    <3>2. QED
      BY <1>2, <3>1, PlaceLemma
  <2>3. NewPlace(places, Place(items, id)) = 0
    <3>1. \A k \in DOMAIN places : places[k] # Place(items, id)
      BY <1>3, <1>7, <1>8, <1>10
    <3>2. QED
      BY <1>3, <3>1, NewPlaceLemma
  <2>4. QED
    BY <2>1, <2>2, <2>3 DEF items, places, found, Again
<1>11. QED
  BY <1>9, <1>10

\* Nothing has no place.
LEMMA NoPlace ==
    ASSUME NEW E, NEW list \in Seq(E), \A k \in DOMAIN list : list[k].id \in Nat
    PROVE  Place(list, None) = 0 /\ None \notin Ids(list)
BY PlaceLemma, SessionAssumption DEF Ids

\* What is seen after a step.
LEMMA ViewLemma ==
    ASSUME TreeInv'
    PROVE  View' = [sources |-> [k \in DOMAIN playlist' |-> playlist'[k].source],
                    slots |-> [s \in Slots |-> ShownSlot(playlist', selectionStates'[s])],
                    current |-> [place |-> Place(playlist', selected'),
                                 frame |-> playback'.currentFrameIdx]]
<1> DEFINE Slot(s) ==
        IF \/ (IF selectionStates'[s].item = None THEN -1 ELSE selectionStates'[s].frame) = -1
           \/ selectionStates'[s].item \notin Ids(playlist')
        THEN NoMark
        ELSE [place |-> Place(playlist', selectionStates'[s].item),
              frame |-> selectionStates'[s].frame]
<1>1. View' = [sources |-> [k \in DOMAIN playlist' |-> playlist'[k].source],
               slots |-> [s \in Slots |-> Slot(s)],
               current |-> [place |-> Place(playlist', selected'),
                            frame |-> playback'.currentFrameIdx]]
  BY DEF View, PlaybackStateFrameIdx, NoMark, Ids, Place, SelectInSeq, Min
<1>2. None \notin Ids(playlist')
  <2>1. playlist' \in Seq(ItemType)
    BY DEF TreeInv
  <2>2. \A k \in DOMAIN playlist' : playlist'[k] \in ItemType
    BY <2>1, LenProperties, ElementOfSeq
  <2>3. QED
    BY <2>2, SessionAssumption DEF ItemType, Ids
<1>3. \A s \in Slots : Slot(s) = ShownSlot(playlist', selectionStates'[s])
  BY <1>2 DEF ShownSlot
<1> HIDE DEF Slot
<1>4. QED
  BY <1>1, <1>3

LEMMA NothingLemma ==
    ASSUME TreeInv', playlist' = <<>>, selected' = None, selectionStates' = NoSlots,
           playback' = NoPlayback
    PROVE  View' = Nothing
<1>1. Place(<<>>, None) = 0 /\ DOMAIN <<>> = {}
  <2>1. <<>> \in Seq(ItemType) /\ DOMAIN <<>> = {}
    BY EmptySeq
  <2>2. QED
    BY <2>1, NoPlace
<1>2. \A s \in Slots : ShownSlot(<<>>, NoSlots[s]) = NoMark
  BY DEF NoSlots, NoState, ShownSlot
<1>3. View' = [sources |-> [k \in {} |-> <<>>[k].source],
               slots |-> [s \in Slots |-> ShownSlot(<<>>, NoSlots[s])],
               current |-> [place |-> 0, frame |-> -1]]
  BY <1>1, ViewLemma DEF NoPlayback
<1>4. [k \in {} |-> <<>>[k].source] = <<>>
  OBVIOUS
<1>5. QED
  BY <1>2, <1>3, <1>4 DEF Nothing, NoMark

\* A mark at its new place.
Moved(places, mark) ==
    IF NewPlace(places, mark.place) = 0 THEN NoMark
    ELSE [mark EXCEPT !.place = NewPlace(places, mark.place)]

\* The place of what is not there is nowhere.
LEMMA NowhereLemma ==
    ASSUME NEW E, NEW items \in Seq(E)
    PROVE  NewPlace(Places(items), 0) = 0
<1>1. Places(items) \in Seq(DOMAIN items)
  BY PlacesLemma
<1>2. \A k \in DOMAIN Places(items) : Places(items)[k] \in DOMAIN items
  BY <1>1, LenProperties, ElementOfSeq
<1>3. 0 \notin DOMAIN items
  BY LenProperties
<1>4. QED
  BY <1>1, <1>2, <1>3, NewPlaceLemma

\* A view state in the list c of loaded items names the item it named in "items", the
\* same list with other sources, or none.
LEMMA RestoredMark ==
    ASSUME TreeInv, NEW c, Readable(c), LoadItemsAndStates(c, <<>>, None, NoPlayback),
           TreeInv',
           NEW items \in Seq(SavedItem), DistinctIds(items),
           \A id : Place(c.items, id) = Place(items, id),
           NEW state \in State,
           NEW found, found = ItemWithPlaylistID(AllItems(<<>>, c.items), state.item)
    PROVE  ShownSlot(playlist', [state EXCEPT !.item = found])
             = Moved(Places(c.items), ShownSlot(items, state))
<1> DEFINE new == [state EXCEPT !.item = found]
           id == state.item
           places == Places(c.items)
<1>1. id \in Id /\ state.frame \in Frame /\ new.item = found /\ new.frame = state.frame
  BY DEF State
<1>2. Again(c.items, id, found)
  BY <1>1, FoundAgain
<1>3. c.items \in Seq(SavedItem)
  BY DEF Readable, Saved, SavedItem
<1>4. NewPlace(places, 0) = 0
  BY <1>3, NowhereLemma
<1>5. id \in Ids(items) <=> Place(items, id) # 0
  <2>1. 0 \notin DOMAIN items
    BY LenProperties
  <2>2. QED
    BY <2>1, PlaceIsFound DEF Ids
<1>6. found \in Ids(playlist') <=> Place(playlist', found) # 0
  <2> DEFINE list == playlist'
  <2>1. list \in Seq(ItemType) /\ DistinctIds(list) /\ 0 \notin DOMAIN list
    BY LenProperties DEF TreeInv, DistinctIds
  <2> HIDE DEF list
  <2>2. found \in Ids(list) <=> Place(list, found) # 0
    BY <2>1, PlaceIsFound DEF Ids
  <2>3. QED
    BY <2>2 DEF list
<1>7. Place(playlist', found) = NewPlace(places, Place(items, id))
  BY <1>2 DEF Again
<1> HIDE DEF new, id, places
<1>8. ShownSlot(playlist', new)
        = IF state.frame = -1 \/ Place(playlist', found) = 0 THEN NoMark
          ELSE [place |-> Place(playlist', found), frame |-> state.frame]
  BY <1>1, <1>6 DEF ShownSlot
<1>9. ShownSlot(items, state) = IF state.frame = -1 \/ Place(items, id) = 0 THEN NoMark
                                ELSE [place |-> Place(items, id), frame |-> state.frame]
  BY <1>5 DEF ShownSlot, id
<1>10. NoMark.place = 0
  BY DEF NoMark
<1>11. CASE state.frame = -1 \/ Place(items, id) = 0
  <2>1. Place(items, id) = 0 => Place(playlist', found) = 0
    BY <1>4, <1>7
  <2>2. ShownSlot(playlist', new) = NoMark /\ ShownSlot(items, state) = NoMark
    BY <1>8, <1>9, <1>11, <2>1
  <2>3. QED
    BY <1>4, <1>10, <2>2 DEF Moved, new, places
<1>12. CASE ~(state.frame = -1 \/ Place(items, id) = 0)
  <2> DEFINE mark == [place |-> Place(items, id), frame |-> state.frame]
             q == NewPlace(places, Place(items, id))
  <2>1. ShownSlot(items, state) = mark /\ mark.place = Place(items, id)
    BY <1>9, <1>12
  <2>2. Moved(places, mark) = IF q = 0 THEN NoMark ELSE [place |-> q, frame |-> state.frame]
    BY DEF Moved
  <2>3. QED
    BY <1>7, <1>8, <1>12, <2>1, <2>2 DEF new, places
<1>13. QED
  BY <1>11, <1>12

\* The selection of a file comes back if the file does, any other does not.
LEMMA RestoredSelection ==
    ASSUME TreeInv, NEW c, Readable(c), LoadItemsAndStates(c, <<>>, None, NoPlayback),
           TreeInv',
           NEW items \in Seq(SavedItem), DistinctIds(items),
           \A id : Place(c.items, id) = Place(items, id),
           FrameOf(items, c.current.item, [currentFrameIdx |-> c.current.frame]),
           \A k \in DOMAIN Places(c.items) :
               /\ k \in DOMAIN playlist'
               /\ playlist'[k].source = items[Places(c.items)[k]].source,
           NEW at, at = Place(items, c.current.item),
           NEW mark, mark = [place |-> at, frame |-> c.current.frame]
    PROVE  [place |-> Place(playlist', selected'), frame |-> playback'.currentFrameIdx]
             = IF at # 0 /\ items[at].source \in Files THEN Moved(Places(c.items), mark) ELSE NoMark
<1> DEFINE id == c.current.item
           frame == c.current.frame
           places == Places(c.items)
           all == AllItems(<<>>, c.items)
           found == ItemWithPlaylistID(all, id)
<1>1. id \in Id /\ frame \in Frame
  BY DEF Readable, Saved, State
<1>2. Again(c.items, id, found)
  BY <1>1, FoundAgain
<1>3. /\ all \in Seq(ItemType) /\ DistinctIds(all) /\ FrameOf(all, None, NoPlayback)
  <2>1. Before(<<>>, None, NoPlayback)
    BY DEF Before, NoPlayback, Playback, Frame
  <2>2. QED
    BY <2>1, LoadLemma
<1>4. /\ playlist' = Forgotten(all)
      /\ IF frame = -1 THEN selected' = None /\ playback' = NoPlayback
         ELSE Shows(found, frame, all, None, NoPlayback)
  BY DEF LoadItemsAndStates, AllItems, Forgotten
<1>5. NoPlayback \in Playback /\ NoPlayback.currentFrameIdx = -1
  BY DEF NoPlayback, Playback, Frame
<1>6. /\ DOMAIN playlist' = DOMAIN all
      /\ \A k \in DOMAIN all : all[k].id = playlist'[k].id /\ all[k].source = playlist'[k].source
  BY <1>3, <1>4, ForgottenLemma
<1>7. Place(playlist', None) = 0
  <2>1. playlist' \in Seq(ItemType)
    BY DEF TreeInv
  <2>2. \A k \in DOMAIN playlist' : playlist'[k] \in ItemType
    BY <2>1, LenProperties, ElementOfSeq
  <2>3. \A k \in DOMAIN playlist' : playlist'[k].id \in Nat
    BY <2>2 DEF ItemType
  <2>4. QED
    BY <2>1, <2>3, NoPlace
<1>8. frame # -1 <=> at # 0 /\ items[at].source \in Files
  <2>1. 0 \notin DOMAIN items
    BY LenProperties
  <2>2. \/ at = 0 /\ \A k \in DOMAIN items : items[k].id # id
        \/ at \in DOMAIN items /\ items[at].id = id
    BY PlaceIsFound
  <2>3. frame # -1 <=> ShowsFile(items, id)
    BY DEF FrameOf
  <2>4. ShowsFile(items, id) <=> at # 0 /\ items[at].source \in Files
    BY <2>1, <2>2 DEF ShowsFile, DistinctIds
  <2>5. QED
    BY <2>3, <2>4
<1>9. mark.place = at
  OBVIOUS
<1> HIDE DEF all, found, places, id, frame
<1>10. CASE frame = -1
  BY <1>4, <1>5, <1>7, <1>8, <1>10 DEF NoMark
<1>11. CASE frame # -1 /\ NewPlace(places, at) = 0
  <2>1. found = None
    BY <1>2, <1>11 DEF Again, places, id
  <2>2. selected' = None /\ playback' = NoPlayback
    <3>1. Shows(None, frame, all, None, NoPlayback) /\ frame \in Nat /\ None \in Id
      BY <1>1, <1>4, <1>11, <2>1 DEF Frame, Id
    <3>2. ~ShowsFile(all, None)
      BY <1>3, <1>5 DEF FrameOf
    <3>3. QED
      BY <1>3, <1>5, <3>1, <3>2, ShowsLemma
  <2>3. Moved(places, mark) = NoMark
    BY <1>9, <1>11 DEF Moved
  <2>4. QED
    BY <1>5, <1>7, <1>8, <1>11, <2>2, <2>3 DEF NoMark, places
<1>12. CASE frame # -1 /\ NewPlace(places, at) # 0
  <2>1. PICK k \in DOMAIN places :
          /\ k \in DOMAIN playlist' /\ playlist'[k].id = found /\ found \in Nat
          /\ Place(playlist', found) = k /\ k = NewPlace(places, at) /\ places[k] = at
    BY <1>2, <1>12 DEF Again, places, id
  <2>2. playlist'[k].source \in Files
    BY <1>8, <1>12, <2>1 DEF places
  <2>3. ShowsFile(all, found)
    BY <1>6, <2>1, <2>2 DEF ShowsFile
  <2>4. selected' = found /\ playback'.currentFrameIdx = frame
    <3>1. Shows(found, frame, all, None, NoPlayback) /\ frame \in Nat /\ found \in Id
      BY <1>1, <1>4, <1>12, <2>1 DEF Frame, Id
    <3>2. QED
      BY <1>3, <1>5, <2>3, <3>1, ShowsLemma
  <2>5. Moved(places, mark) = [place |-> k, frame |-> frame]
    BY <1>12, <2>1 DEF Moved, frame
  <2>6. QED
    BY <1>8, <1>12, <2>1, <2>4, <2>5 DEF places
<1>13. QED
  BY <1>10, <1>11, <1>12

\* The whole session.
LEMMA RestoredLemma ==
    ASSUME TreeInv, selectionStates = NoSlots, NEW old, Written(old),
           LoadItemsAndStates(InLatin1(old), <<>>, None, NoPlayback)
    PROVE  TreeInv' /\ View' = Kept(Shown(old))
<1> DEFINE items == old.items
           c == InLatin1(old)
           places == Places(c.items)
           all == AllItems(<<>>, c.items)
<1>1. /\ Readable(c) /\ c.slots = old.slots /\ c.current = old.current
      /\ DOMAIN c.items = DOMAIN items
      /\ \A k \in DOMAIN items : c.items[k].source = ToLatin1(items[k].source)
      /\ \A id : Place(c.items, id) = Place(items, id)
  BY Latin1Lemma
<1>2. /\ items \in Seq(SavedItem) /\ DistinctIds(items)
      /\ old.slots \in [Slots -> State] /\ old.current \in State
      /\ \A k \in DOMAIN items : items[k].source \in Source
      /\ FrameOf(items, old.current.item, [currentFrameIdx |-> old.current.frame])
  BY DEF Written, Readable, Saved, SavedItem
<1>3. c.items \in Seq(SavedItem) /\ idCounter \in Nat
  BY <1>1 DEF Readable, Saved, SavedItem, TreeInv
<1>4. TreeInv' /\ Loaded(c, 0, Len(places))
  <2>1. Before(<<>>, None, NoPlayback) /\ Len(<<>>) = 0
    BY EmptySeq DEF Before, NoPlayback, Playback, Frame
  <2>2. QED
    BY <1>1, <2>1, LoadLemma
<1>5. LoadItemsAndStates(c, <<>>, None, NoPlayback)
  OBVIOUS
<1> HIDE DEF c, items
<1>6. /\ Len(places) \in Nat /\ DOMAIN places = 1 .. Len(places)
      /\ \A k \in 1 .. Len(places) : places[k] \in DOMAIN c.items
  BY <1>3, LoadItemsLemma
<1>7. \A k \in DOMAIN places : c.items[places[k]].source \in Source
  BY <1>3, PlacesLemma
<1> HIDE DEF places
<1>8. \A k \in DOMAIN places : c.items[places[k]].source = items[places[k]].source
  BY <1>1, <1>6, <1>7, SessionAssumption DEF ToLatin1
<1>9. /\ DOMAIN playlist' = DOMAIN places
      /\ \A k \in DOMAIN places : playlist'[k].source = items[places[k]].source
  <2>1. /\ DOMAIN playlist' = 1 .. 0 + Len(places)
        /\ \A k \in 1 .. Len(places) : playlist'[0 + k].source = c.items[places[k]].source
    BY <1>4 DEF Loaded, places
  <2>2. 0 + Len(places) = Len(places) /\ \A k \in 1 .. Len(places) : 0 + k = k
    BY <1>6
  <2>3. QED
    BY <1>6, <1>8, <2>1, <2>2
<1>10. ASSUME NEW s \in Slots
       PROVE  ShownSlot(playlist', selectionStates'[s]) = Moved(places, ShownSlot(items, old.slots[s]))
  <2>1. selectionStates' = [t \in Slots |->
             IF c.slots[t].frame = -1 THEN selectionStates[t]
             ELSE [c.slots[t] EXCEPT !.item = ItemWithPlaylistID(all, c.slots[t].item)]]
    BY <1>5 DEF LoadItemsAndStates, AllItems
  <2>2. selectionStates'[s] = IF c.slots[s].frame = -1 THEN NoState
             ELSE [c.slots[s] EXCEPT !.item = ItemWithPlaylistID(all, c.slots[s].item)]
    BY <2>1 DEF NoSlots
  <2>3. old.slots[s] \in State /\ c.slots[s] = old.slots[s]
    BY <1>1, <1>2
  <2> DEFINE state == old.slots[s]
             found == ItemWithPlaylistID(all, state.item)
  <2>4. ShownSlot(playlist', [state EXCEPT !.item = found]) = Moved(places, ShownSlot(items, state))
    <3> HIDE DEF state
    <3>1. state \in State
      BY <2>3 DEF state
    <3>2. QED
      BY <1>1, <1>2, <1>4, <1>5, <3>1, RestoredMark DEF places
  <2>5. CASE state.frame = -1
    <3>1. [state EXCEPT !.item = found].frame = -1
      BY <2>3, <2>5 DEF State
    <3>2. ShownSlot(playlist', [state EXCEPT !.item = found]) = NoMark
      BY <3>1 DEF ShownSlot
    <3>3. ShownSlot(playlist', selectionStates'[s]) = NoMark
      BY <2>2, <2>3, <2>5 DEF ShownSlot, NoState
    <3>4. QED
      BY <2>4, <3>2, <3>3
  <2>6. CASE state.frame # -1
    BY <2>2, <2>3, <2>4, <2>6
  <2>7. QED
    BY <2>5, <2>6
<1> DEFINE at == Place(items, old.current.item)
           mark == [place |-> at, frame |-> old.current.frame]
<1>11. [place |-> Place(playlist', selected'), frame |-> playback'.currentFrameIdx]
         = IF at # 0 /\ items[at].source \in Files THEN Moved(places, mark) ELSE NoMark
  <2>1. at = Place(items, c.current.item) /\ mark = [place |-> at, frame |-> c.current.frame]
    BY <1>1
  <2>2. FrameOf(items, c.current.item, [currentFrameIdx |-> c.current.frame])
    BY <1>1, <1>2
  <2>3. \A k \in DOMAIN Places(c.items) :
          /\ k \in DOMAIN playlist'
          /\ playlist'[k].source = items[Places(c.items)[k]].source
    BY <1>9 DEF places
  <2> HIDE DEF at, mark
  <2>4. QED
    BY SMTT(60), <1>1, <1>2, <1>4, <1>5, <2>1, <2>2, <2>3, RestoredSelection DEF places
<1> DEFINE v == Shown(old)
<1>12. /\ v.sources = [k \in DOMAIN items |-> items[k].source]
       /\ \A s \in Slots : v.slots[s] = ShownSlot(items, old.slots[s])
       /\ v.current = mark
  BY DEF Shown, items
<1> HIDE DEF v
<1>13. Loadable([k \in DOMAIN v.sources |-> ToLatin1(v.sources[k])]) = places
  <2>1. [k \in DOMAIN v.sources |-> ToLatin1(v.sources[k])]
          = [k \in DOMAIN c.items |-> c.items[k].source]
    BY <1>1, <1>12
  <2>2. QED
    BY <2>1 DEF Places, places
<1>14. Kept(v) = [sources |-> [k \in DOMAIN places |-> v.sources[places[k]]],
                  slots |-> [s \in Slots |-> Moved(places, v.slots[s])],
                  current |-> IF v.current.place # 0 /\ v.sources[v.current.place] \in Files
                              THEN Moved(places, v.current) ELSE NoMark]
  BY <1>13 DEF Kept, NewPlace, Moved
<1>15. View' = [sources |-> [k \in DOMAIN playlist' |-> playlist'[k].source],
                slots |-> [s \in Slots |-> ShownSlot(playlist', selectionStates'[s])],
                current |-> [place |-> Place(playlist', selected'),
                             frame |-> playback'.currentFrameIdx]]
  BY <1>4, ViewLemma
<1>16. [k \in DOMAIN playlist' |-> playlist'[k].source]
         = [k \in DOMAIN places |-> v.sources[places[k]]]
  BY <1>1, <1>6, <1>9, <1>12
<1>17. [s \in Slots |-> ShownSlot(playlist', selectionStates'[s])]
         = [s \in Slots |-> Moved(places, v.slots[s])]
  BY <1>10, <1>12
<1>18. (at # 0 /\ items[at].source \in Files)
         <=> (v.current.place # 0 /\ v.sources[v.current.place] \in Files)
  <2>1. at = 0 \/ at \in DOMAIN items
    BY <1>2, PlaceIsFound
  <2>2. v.current.place = at
    BY <1>12
  <2> HIDE DEF at, mark
  <2>3. QED
    BY <1>12, <2>1, <2>2
<1> HIDE DEF at, mark
<1>19. QED
  BY <1>4, <1>11, <1>12, <1>14, <1>15, <1>16, <1>17, <1>18 DEF v

\* What is restored is what was there at the last autosave, but for what the autosave
\* cannot name, or nothing if the document cannot be read; and it can be restored
\* exactly if the last session crashed after an autosave.
THEOREM CrashedSessionsComeBack == Spec => SessionComesBack
<1> DEFINE A == \A restore \in BOOLEAN : StartUp(restore) =>
                  IF restore
                  THEN /\ atTick # None
                       /\ \/ View' = Kept(atTick)
                          \/ View' = Nothing /\ \E k \in DOMAIN atTick.sources :
                                                   atTick.sources[k] \in Foreign
                  ELSE View' = Nothing
<1>1. SessionInv /\ [Next]_vars => [A]_vars
  <2> SUFFICES ASSUME SessionInv, NEW restore \in BOOLEAN, StartUp(restore)
               PROVE  IF restore
                      THEN /\ atTick # None
                           /\ \/ View' = Kept(atTick)
                              \/ View' = Nothing /\ \E k \in DOMAIN atTick.sources :
                                                       atTick.sources[k] \in Foreign
                      ELSE View' = Nothing
    OBVIOUS
  <2>1. /\ TreeInv /\ TickInv /\ playlist = <<>> /\ selected = None
        /\ selectionStates = NoSlots /\ playback = NoPlayback
    BY DEF SessionInv, EndedInv, StartUp
  <2>2. TreeInv'
    BY StartUpSession DEF SessionInv
  <2>3. CASE ~restore
    BY <2>1, <2>2, <2>3, NothingLemma DEF StartUp
  <2>4. CASE restore
    <3>1. autosave # None /\ LoadPlaylistFromByteArray(autosave, <<>>, None, NoPlayback)
      BY <2>4 DEF StartUp
    <3>2. PICK old \in Saved : /\ Written(old) /\ autosave = InLatin1(old)
                               /\ atTick = Shown(old) /\ atTick # None
      BY <2>1, <3>1, AutosaveLemma
    <3>3. CASE LoadItemsAndStates(autosave, <<>>, None, NoPlayback)
      BY <2>1, <2>4, <3>2, <3>3, RestoredLemma
    <3>4. ASSUME NEW k \in DOMAIN autosave.items, autosave.items[k].source = Garbled,
                 playlist' = <<>>, selected' = None, playback' = NoPlayback,
                 selectionStates' = selectionStates
          PROVE  View' = Nothing /\ \E j \in DOMAIN atTick.sources : atTick.sources[j] \in Foreign
      <4>1. View' = Nothing
        BY <2>1, <2>2, <3>4, NothingLemma
      <4>2. k \in DOMAIN old.items /\ autosave.items[k].source = ToLatin1(old.items[k].source)
        BY <3>2, <3>4, Latin1Lemma
      <4>3. old.items[k].source \in Foreign
        BY <3>2, <3>4, <4>2, SessionAssumption DEF Written, ToLatin1
      <4>4. atTick.sources = [j \in DOMAIN old.items |-> old.items[j].source]
        BY <3>2 DEF Shown
      <4>5. QED
        BY <4>1, <4>2, <4>3, <4>4
    <3>5. QED
      BY <2>4, <3>1, <3>2, <3>3, <3>4 DEF LoadPlaylistFromByteArray
  <2>5. QED
    BY <2>3, <2>4
<1>2. QED
  BY <1>1, InitSession, NextSession, PTL DEF Spec, SessionComesBack
-----------------------------------------------------------------------------
(* Slots of a loaded playlist.                                             *)

LEMMA LengthLemma ==
    ASSUME NEW E, NEW list \in Seq(E), NEW n \in Nat, DOMAIN list = 1 .. n
    PROVE  Len(list) = n
<1>1. PICK l \in Nat : l = Len(list) /\ DOMAIN list = 1 .. l
  BY LenProperties
<1>2. \A k \in Nat : k \in 1 .. l <=> k \in 1 .. n
  BY <1>1
<1>3. l <= n
  BY <1>2
<1>4. n <= l
  BY <1>2
<1>5. QED
  BY <1>1, <1>3, <1>4

\* A slot that named an item when the playlist was saved names this item when
\* the playlist has been loaded, whatever was in the tree before.
THEOREM LoadedSlotsNameTheirItems == Spec => SlotsNameTheirItems
<1> DEFINE A == \A answer \in {"Clear", "Append"} :
                  LoadPlaylistFile(answer) =>
                    LET items  == playlistFile.items
                        places == Loadable([k \in DOMAIN items |-> items[k].source])
                        before == Len(playlist') - Len(places)
                    IN  \A s \in Slots, k \in DOMAIN places :
                            playlistFile.slots[s].item = items[places[k]].id =>
                                View'.slots[s] = [place |-> before + k,
                                                  frame |-> playlistFile.slots[s].frame]
<1>1. SessionInv /\ [Next]_vars => [A]_vars
  <2> SUFFICES ASSUME SessionInv, NEW answer \in {"Clear", "Append"}, LoadPlaylistFile(answer),
                      NEW s \in Slots, NEW k \in DOMAIN Places(playlistFile.items),
                      playlistFile.slots[s].item
                        = playlistFile.items[Places(playlistFile.items)[k]].id
               PROVE  View'.slots[s]
                        = [place |-> Len(playlist') - Len(Places(playlistFile.items)) + k,
                           frame |-> playlistFile.slots[s].frame]
    BY DEF Places
  <2> DEFINE c == playlistFile
             items == c.items
             places == Places(items)
             n == Len(places)
             id == items[places[k]].id
  <2>1. /\ Written(c) /\ Readable(c) /\ TreeInv /\ idCounter \in Nat /\ DistinctIds(items)
        /\ items \in Seq(SavedItem) /\ c.slots \in [Slots -> State]
    BY DEF LoadPlaylistFile, SessionInv, FileInv, Written, Readable, Saved, SavedItem, TreeInv
  <2>2. PICK before, old, p : /\ Before(before, old, p)
                              /\ LoadPlaylistFromByteArray(c, before, old, p)
    BY <2>1, LoadsBefore
  <2>3. LoadItemsAndStates(c, before, old, p)
    <3>1. \A j \in DOMAIN items : items[j].source # Garbled
      BY <2>1, SessionAssumption DEF Written
    <3>2. QED
      BY <2>2, <3>1 DEF LoadPlaylistFromByteArray
  <2>4. before \in Seq(ItemType)
    BY <2>1, <2>2, EmptySeq DEF Before, TreeInv
  <2>5. n \in Nat /\ DOMAIN places = 1 .. n /\ k \in 1 .. n /\ places[k] \in DOMAIN items
    <3>1. PICK list \in Seq(SavedItem) : list = items
      BY <2>1
    <3>2. Len(Places(list)) \in Nat /\ DOMAIN Places(list) = 1 .. Len(Places(list))
      BY <2>1, LoadItemsLemma
    <3>3. \A j \in 1 .. Len(Places(list)) : Places(list)[j] \in DOMAIN list
      BY <2>1, LoadItemsLemma
    <3>4. k \in DOMAIN Places(list)
      BY <3>1
    <3> HIDE DEF items
    <3>5. QED
      BY <3>1, <3>2, <3>3, <3>4
  <2>6. id \in Nat /\ id # None
    <3>1. items[places[k]] \in SavedItem
      BY <2>1, <2>5, LenProperties, ElementOfSeq
    <3>2. QED
      BY <3>1, SessionAssumption DEF SavedItem
  <2> DEFINE slot == c.slots[s]
             new == idCounter + k - 1
  <2>7. slot \in State /\ slot.item = id /\ slot.frame # -1
    BY <2>1, <2>6 DEF Written
  <2>8. ItemWithPlaylistID(AllItems(before, items), id) = new
    <3>1. k \in 1 .. Len(Places(items))
      BY <2>5
    <3> HIDE DEF items
    <3>2. QED
      BY <2>1, <2>4, <3>1, FoundLemma
  <2>9. selectionStates'[s] = [slot EXCEPT !.item = new]
    <3>1. selectionStates' = [t \in Slots |->
               IF c.slots[t].frame = -1 THEN selectionStates[t]
               ELSE [c.slots[t] EXCEPT
                        !.item = ItemWithPlaylistID(AllItems(before, items), c.slots[t].item)]]
      BY <2>3 DEF LoadItemsAndStates, AllItems
    <3>2. QED
      BY <2>7, <2>8, <3>1
  <2> DEFINE m == Len(before)
  <2>10. TreeInv' /\ Loaded(c, m, n)
    BY <2>1, <2>2, <2>3, LoadLemma
  <2>11. View'.slots[s] = ShownSlot(playlist', selectionStates'[s])
    BY <2>10, ViewLemma
  <2> HIDE DEF m, n, slot, new
  <2>12. /\ m + k \in DOMAIN playlist' /\ playlist'[m + k].id = new
         /\ m \in Nat /\ DOMAIN playlist' = 1 .. m + n /\ playlist' \in Seq(ItemType)
         /\ \A i, j \in DOMAIN playlist' : playlist'[i].id = playlist'[j].id => i = j
    BY <2>5, <2>10 DEF Loaded, TreeInv, DistinctIds, new
  <2>13. Place(playlist', new) = m + k
    <3>1. \A j \in DOMAIN playlist' : playlist'[j].id = new => j = m + k
      BY <2>12
    <3> DEFINE list == playlist'
               at   == m + k
    <3>2. /\ list \in Seq(ItemType) /\ at \in DOMAIN list /\ list[at].id = new
          /\ \A j \in DOMAIN list : list[j].id = new => j = at
      BY <2>12, <3>1
    <3> HIDE DEF list, at
    <3>3. Place(list, new) = at
      BY <3>2, PlaceLemma
    <3>4. QED
      BY <3>3 DEF list, at
  <2>14. new \in Ids(playlist')
    BY <2>12 DEF Ids
  <2>15. [slot EXCEPT !.item = new].item = new /\ [slot EXCEPT !.item = new].frame = slot.frame
    BY <2>7 DEF State
  <2>16. View'.slots[s] = [place |-> m + k, frame |-> slot.frame]
    BY <2>7, <2>9, <2>11, <2>13, <2>14, <2>15 DEF ShownSlot
  <2>17. Len(playlist') = m + n
    BY <2>5, <2>12, LengthLemma
  <2>18. m + k = Len(playlist') - n + k
    BY <2>5, <2>12, <2>17
  <2>19. QED
    BY <2>16, <2>18 DEF n, slot
<1>2. QED
  BY <1>1, InitSession, NextSession, PTL DEF Spec, SlotsNameTheirItems
=============================================================================
