------------------------------ MODULE Session ------------------------------
(***************************************************************************)
(* What outlives the program: the playlist that is saved by itself every   *)
(* ten seconds, the one the user saves, and the view states in both        *)
(* (PlaylistTreeWidget, ViewStateHandler, MainWindow).  The program can    *)
(* crash at any time; files can be gone when a playlist is loaded.         *)
(*                                                                         *)
(* One instance of the program runs at a time: all instances share the     *)
(* settings the autosave is kept in.  A view state is the first item it    *)
(* selects with the frame; zoom and splitting are left out.  Nothing plays *)
(* while the user selects, and a file keeps its frames.                    *)
(***************************************************************************)
EXTENDS Lists, SequencesExt

CONSTANTS
    Files,       \* the files that can be in a playlist
    Foreign,     \* those with other than ASCII characters in their path
    LastFrame,   \* the frames of a file are 0 .. LastFrame[f]
    Text,        \* what a text item shows: it has no file and no frames
    Garbled,     \* a path that is not one of a file
    Slots,       \* the view states that can be saved
    None,
    MaxId,       \* bound: items made by one start of the program
    MaxStarts,   \* bound: starts of the program
    MaxOps       \* bound: what the user does in all of them

Source == Files \cup {Text}
Id     == Nat \cup {None}

Frame  == Nat \cup {-1}

(* A view state: its item and its frame, or neither.                       *)
State   == [item: Id, frame: Frame]
NoState == [item |-> None, frame |-> -1]

(* What is saved: the items with their ids, the slots and the selection.   *)
(* What the user sees: the same by places, 0 for none.                     *)
Saved == [items: Seq([id: Nat, source: Source \cup {Garbled}]),
          slots: [Slots -> State], current: State]
Seen  == LET Mark == [place: Nat, frame: Frame]
         IN  [sources: Seq(Source), slots: [Slots -> Mark], current: Mark]

ASSUME SessionAssumption ==
    /\ Text \notin Files /\ Garbled \notin Source
    /\ Foreign \subseteq Files
    /\ LastFrame \in [Files -> Nat]
    /\ MaxId \in Nat
    /\ None \notin Nat \cup Files
    /\ None \notin Saved /\ None \notin Seen

VARIABLES
    autosave,      \* the setting "Autosaveplaylist": a saved playlist or None
    playlistFile,  \* the last playlist the user saved, or None
    missing,       \* files that are not there at present
    running,
    startingUp,    \* an autosave was found and is not dropped yet
    playlist,      \* the items in the tree, records of id, source and playlistID
    removed,       \* ids of items taken out of the tree and not yet deleted
    selected,      \* id of the first selected item or None
    selectionStates, \* the slots
    playback,      \* currentFrameIdx and lastValidFrameIdx; -1: none
    isSaved,
    idCounter,
    starts, ops,
    atTick         \* history: what the user saw at the last autosave, or None

files == <<autosave, playlistFile, missing>>
tree  == <<playlist, removed, selected, selectionStates, playback, isSaved, idCounter>>
vars  == <<files, running, startingUp, tree, starts, ops, atTick>>

Ids(items) == {items[k].id : k \in DOMAIN items}
Place(items, id) == SelectInSeq(items, LAMBDA item : item.id = id)   \* 0 if not there

\* What the item with an id shows; None if there is none.
SourceOf(items, id) ==
    LET k == Place(items, id) IN IF k = 0 THEN None ELSE items[k].source

-----------------------------------------------------------------------------
(* The frame and the selection *)

(* Only files have frames.  Without them there is no current frame; the    *)
(* last one is kept for the next file.                                     *)
CurrentSelectedItemsChanged(p, source) ==
    LET frame     == p.currentFrameIdx
        last      == LastFrame[source]
        lastValid == IF p.lastValidFrameIdx > last THEN last ELSE p.lastValidFrameIdx
    IN  IF source \notin Files
        THEN [currentFrameIdx   |-> -1,
              lastValidFrameIdx |-> IF frame # -1 THEN frame ELSE p.lastValidFrameIdx]
        ELSE IF frame = -1
        THEN [currentFrameIdx   |-> IF lastValid # -1 THEN lastValid ELSE 0,
              lastValidFrameIdx |-> lastValid]
        ELSE [p EXCEPT !.currentFrameIdx = IF p.lastValidFrameIdx > last THEN last ELSE frame]

\* Mutant: the frame is set before the item is selected.
Shows_FrameFirst(id, frame, items, old, p) ==
    LET new    == IF id = None THEN old ELSE IF id \in Ids(items) THEN id ELSE None
        at     == IF SourceOf(items, old) \in Files THEN [p EXCEPT !.currentFrameIdx = frame] ELSE p
    IN  /\ selected' = new
        /\ playback' = IF id \in {None, old} THEN at
                       ELSE CurrentSelectedItemsChanged(CurrentSelectedItemsChanged(at, None),
                                                        SourceOf(items, new))

(* A view state is shown.  Without an item, or with the selected one, the  *)
(* selection stays, or else it is cleared first.  Then the frame is set.   *)
Shows(id, frame, items, old, p) ==
    LET new    == IF id = None THEN old ELSE IF id \in Ids(items) THEN id ELSE None
        source == SourceOf(items, new)
        chosen == IF id \in {None, old} THEN p
                  ELSE CurrentSelectedItemsChanged(CurrentSelectedItemsChanged(p, None), source)
    IN  /\ selected' = new
        /\ playback' = IF source \in Files THEN [chosen EXCEPT !.currentFrameIdx = frame]
                       ELSE chosen

(* The frame of a slot; -1 if the slot is not valid.                       *)
PlaybackStateFrameIdx(s) ==
    IF selectionStates[s].item = None THEN -1 ELSE selectionStates[s].frame

-----------------------------------------------------------------------------
(* Saving and loading *)

(* A slot without a frame, saved while a text item was selected, is left   *)
(* out.                                                                    *)
GetPlaylistString ==
    [items |-> [k \in DOMAIN playlist |-> [id |-> playlist[k].id, source |-> playlist[k].source]],
     slots |-> [s \in Slots |->
         IF PlaybackStateFrameIdx(s) = -1 THEN NoState ELSE selectionStates[s]],
     current |-> [item |-> selected, frame |-> playback.currentFrameIdx]]

(* The autosave is written in Latin-1 and read as UTF-8.                   *)
ToLatin1(source) == IF source \in Foreign THEN Garbled ELSE source
InLatin1(c) ==
    [c EXCEPT !.items = [k \in DOMAIN c.items |-> [id |-> c.items[k].id,
                                                  source |-> ToLatin1(c.items[k].source)]]]

(* The places of the items that can be loaded: a file that is not there is *)
(* left out.                                                               *)
Loadable(sources) ==
    Positions(Len(sources), {k \in 1 .. Len(sources) : sources[k] \in Source \ missing})

(* A new item remembers the id it was saved with.                          *)
LoadItems(items) ==
    LET places == Loadable([k \in DOMAIN items |-> items[k].source])
    IN  [k \in DOMAIN places |-> [id |-> idCounter + k - 1,
                                 source |-> items[places[k]].source,
                                 playlistID |-> items[places[k]].id]]

\* Mutant: the first item that remembers the id is taken.
FirstWithPlaylistIDMutant(items, id) ==
    LET k == SelectInSeq(items, LAMBDA item : id # None /\ item.playlistID = id)
    IN  IF k = 0 THEN None ELSE items[k].id

(* The last item in the tree that remembers the id. *)
ItemWithPlaylistID(items, id) ==
    LET k == SelectLastInSeq(items, LAMBDA item : id # None /\ item.playlistID = id)
    IN  IF k = 0 THEN None ELSE items[k].id

(* The items are added behind those in "before"; then the view states with *)
(* a frame are loaded and the remembered ids are reset.  If nothing is     *)
(* selected then, "setCurrentItem(0)" passes no item, and nothing gets     *)
(* selected.  What was selected and played before is old and p.            *)
LoadItemsAndStates(c, before, old, p) ==
    LET all == before \o LoadItems(c.items)
    IN  /\ idCounter + Len(c.items) =< MaxId
        /\ playlist' = [k \in DOMAIN all |-> [all[k] EXCEPT !.playlistID = None]]
        /\ idCounter' = idCounter + Len(LoadItems(c.items))
        /\ selectionStates' = [s \in Slots |->
               IF c.slots[s].frame = -1 THEN selectionStates[s]
               ELSE [c.slots[s] EXCEPT !.item = ItemWithPlaylistID(all, c.slots[s].item)]]
        /\ IF c.current.frame = -1 THEN selected' = old /\ playback' = p
           ELSE Shows(ItemWithPlaylistID(all, c.current.item), c.current.frame, all, old, p)

(* Bytes that are not UTF-8 can make the parser refuse the whole document, *)
(* or one path in it is garbled: it depends on the characters and on Qt.   *)
LoadPlaylistFromByteArray(c, before, old, p) ==
    \/ LoadItemsAndStates(c, before, old, p)
    \/ /\ \E k \in DOMAIN c.items : c.items[k].source = Garbled
       /\ playlist' = before /\ selected' = old /\ playback' = p
       /\ UNCHANGED <<idCounter, selectionStates>>

-----------------------------------------------------------------------------
(* Initial state, start and end of the program *)

NoSlots    == [s \in Slots |-> NoState]
NoPlayback == [currentFrameIdx |-> -1, lastValidFrameIdx |-> -1]

Init ==
    /\ autosave = None /\ playlistFile = None /\ missing = {}
    /\ running = FALSE /\ startingUp = FALSE
    /\ playlist = <<>> /\ removed = {} /\ selected = None
    /\ selectionStates = NoSlots /\ playback = NoPlayback
    /\ isSaved = TRUE /\ idCounter = 0
    /\ starts = 0 /\ ops = 0 /\ atTick = None

(* If there is an autosave the user is asked whether it is to be restored. *)
StartUp(restore) ==
    /\ ~running /\ starts < MaxStarts
    /\ running' = TRUE
    /\ startingUp' = (autosave # None)
    /\ starts' = starts + 1
    /\ IF restore
       THEN /\ autosave # None
            /\ LoadPlaylistFromByteArray(autosave, <<>>, None, NoPlayback)
       ELSE UNCHANGED <<playlist, selected, selectionStates, playback, idCounter>>
    /\ UNCHANGED <<files, removed, isSaved, ops, atTick>>

(* After that the autosave is dropped: until then it would be restored     *)
(* again if an item makes the program crash while it is loaded.            *)
DropAutosavedPlaylist ==
    /\ running /\ startingUp
    /\ startingUp' = FALSE
    /\ autosave' = None
    /\ atTick' = None
    /\ UNCHANGED <<playlistFile, missing, running, tree, starts, ops>>

Ended == /\ running' = FALSE /\ startingUp' = FALSE
         /\ playlist' = <<>> /\ removed' = {} /\ selected' = None
         /\ selectionStates' = NoSlots /\ playback' = NoPlayback
         /\ isSaved' = TRUE /\ idCounter' = 0

Crash == /\ running
         /\ Ended
         /\ UNCHANGED <<files, starts, ops, atTick>>

GetIsSaved == playlist = <<>> \/ isSaved

(* The user is asked if something is not saved.  If the file dialog is     *)
(* cancelled the window is closed all the same.                            *)
CloseEvent(answer) ==
    /\ running /\ ~startingUp
    /\ GetIsSaved <=> answer = "not asked"
    /\ playlistFile' = IF answer = "Save" THEN GetPlaylistString ELSE playlistFile
    /\ Ended
    /\ autosave' = None
    /\ atTick' = None
    /\ UNCHANGED <<missing, starts, ops>>

-----------------------------------------------------------------------------
(* The user and the timer *)

InProgram == /\ running /\ ~startingUp
             /\ UNCHANGED <<running, startingUp, starts, missing>>

ByUser == /\ InProgram
          /\ ops < MaxOps
          /\ ops' = ops + 1

(* What can be seen of the session: items by their source, the slots that  *)
(* can be loaded and the selection by place, with their frames.            *)
NoMark == [place |-> 0, frame |-> -1]
View == [sources |-> [k \in DOMAIN playlist |-> playlist[k].source],
         slots |-> [s \in Slots |->
             IF PlaybackStateFrameIdx(s) = -1 \/ selectionStates[s].item \notin Ids(playlist)
             THEN NoMark
             ELSE [place |-> Place(playlist, selectionStates[s].item),
                   frame |-> selectionStates[s].frame]],
         current |-> [place |-> Place(playlist, selected),
                      frame |-> playback.currentFrameIdx]]

AutoSavePlaylist ==
    /\ InProgram
    /\ autosave' = IF playlist = <<>> THEN None ELSE InLatin1(GetPlaylistString)
    /\ atTick' = IF playlist = <<>> THEN None ELSE View
    /\ UNCHANGED <<playlistFile, tree, ops>>

NewItem(source, id) == [id |-> idCounter, source |-> source, playlistID |-> id]

Append1(item) == /\ idCounter < MaxId
                 /\ playlist' = Append(playlist, item)
                 /\ idCounter' = idCounter + 1
                 /\ UNCHANGED <<files, removed, selectionStates, atTick>>

LoadFiles(f) == /\ ByUser
                /\ f \notin missing
                /\ Append1(NewItem(f, 0))
                /\ selected' = idCounter
                /\ playback' = CurrentSelectedItemsChanged(playback, f)
                /\ isSaved' = FALSE

AddTextItem == /\ ByUser
               /\ Append1(NewItem(Text, 0))
               /\ UNCHANGED <<selected, playback, isSaved>>

(* Through a playlist that is not loaded any further: the remembered id    *)
(* stays.                                                                  *)
DuplicateSelectedItems ==
    \E k \in DOMAIN playlist :
        /\ ByUser
        /\ playlist[k].id = selected
        /\ playlist[k].source \notin missing
        /\ Append1(NewItem(playlist[k].source, selected))
        /\ selected' = idCounter
        /\ playback' = CurrentSelectedItemsChanged(playback, playlist[k].source)
        /\ UNCHANGED isSaved

(* The view chooses what is selected next, at once or after a moment with  *)
(* no selection.                                                           *)
DeletePlaylistItems(k) ==
    LET rest == RemoveAt(playlist, k)
        cleared == CurrentSelectedItemsChanged(playback, None)
    IN  /\ ByUser
        /\ playlist[k].id = selected
        /\ playlist' = rest
        /\ removed' = removed \cup {playlist[k].id}
        /\ \E id \in Ids(rest) \cup {None}, p \in {playback, cleared} :
               /\ selected' = id
               /\ playback' = CurrentSelectedItemsChanged(p, SourceOf(rest, id))
        /\ UNCHANGED <<files, selectionStates, isSaved, idCounter, atTick>>

(* Later, when nothing loads or caches the item. *)
ItemDeleted(id) ==
    /\ InProgram
    /\ removed' = removed \ {id}
    /\ selectionStates' = [s \in Slots |->
           IF selectionStates[s].item = id THEN [selectionStates[s] EXCEPT !.item = None]
           ELSE selectionStates[s]]
    /\ UNCHANGED <<files, playlist, selected, playback, isSaved, idCounter, ops, atTick>>

Select(id) == /\ ByUser
              /\ selected' = id /\ id # selected
              /\ playback' = CurrentSelectedItemsChanged(playback, SourceOf(playlist, id))
              /\ UNCHANGED <<files, playlist, removed, selectionStates, isSaved, idCounter, atTick>>

SetFrame(n) == /\ ByUser
               /\ n # playback.currentFrameIdx
               /\ playback' = [playback EXCEPT !.currentFrameIdx = n]
               /\ UNCHANGED <<files, playlist, removed, selected, selectionStates, isSaved,
                              idCounter, atTick>>

SaveViewState(s) ==
    /\ ByUser
    /\ selectionStates' = [selectionStates EXCEPT ![s] =
           [item |-> selected, frame |-> playback.currentFrameIdx]]
    /\ UNCHANGED <<files, playlist, removed, selected, playback, isSaved, idCounter, atTick>>

(* An item that was removed cannot be selected. *)
LoadViewState(s) ==
    /\ ByUser
    /\ PlaybackStateFrameIdx(s) # -1
    /\ Shows(selectionStates[s].item, selectionStates[s].frame, playlist, selected, playback)
    /\ UNCHANGED <<files, playlist, removed, selectionStates, isSaved, idCounter, atTick>>

SavePlaylistToFile ==
    /\ ByUser
    /\ playlistFile' = GetPlaylistString
    /\ isSaved' = TRUE
    /\ UNCHANGED <<autosave, playlist, removed, selected, selectionStates, playback, idCounter,
                   atTick>>

LoadPlaylistFile(answer) ==
    /\ ByUser
    /\ playlistFile # None
    /\ playlist = <<>> => answer = "Append"
    /\ IF answer = "Clear"
       THEN LoadPlaylistFromByteArray(playlistFile, <<>>, None,
                                      CurrentSelectedItemsChanged(playback, None))
       ELSE LoadPlaylistFromByteArray(playlistFile, playlist, selected, playback)
    /\ removed' = removed \cup (IF answer = "Clear" THEN Ids(playlist) ELSE {})
    /\ UNCHANGED <<files, isSaved, atTick>>

(* Environment *)
FileVanishes(f) == /\ missing = {}
                   /\ missing' = {f}
                   /\ UNCHANGED <<autosave, playlistFile, running, startingUp, tree, starts, ops,
                                  atTick>>

Next == \/ \E restore \in BOOLEAN : StartUp(restore)
        \/ DropAutosavedPlaylist
        \/ Crash
        \/ \E answer \in {"not asked", "Close", "Save"} : CloseEvent(answer)
        \/ AutoSavePlaylist
        \/ \E f \in Files : LoadFiles(f) \/ FileVanishes(f)
        \/ AddTextItem
        \/ DuplicateSelectedItems
        \/ \E k \in DOMAIN playlist : DeletePlaylistItems(k)
        \/ \E id \in Ids(playlist) \cup {None} : Select(id)
        \/ \E f \in Files : \E n \in 0 .. LastFrame[f] :
               SourceOf(playlist, selected) = f /\ SetFrame(n)
        \/ \E id \in removed : ItemDeleted(id)
        \/ \E s \in Slots : SaveViewState(s) \/ LoadViewState(s)
        \/ SavePlaylistToFile
        \/ \E answer \in {"Clear", "Append"} : LoadPlaylistFile(answer)

Spec == Init /\ [][Next]_vars

-----------------------------------------------------------------------------
(* Properties *)

\* What is left of a session in an autosave of which files cannot be loaded.
Kept(v) ==
    LET places == Loadable([k \in DOMAIN v.sources |-> ToLatin1(v.sources[k])])
        To(mark) == LET place == SelectInSeq(places, LAMBDA p : p = mark.place)
                    IN  IF place = 0 THEN NoMark ELSE [mark EXCEPT !.place = place]
        onFile == v.current.place # 0 /\ v.sources[v.current.place] \in Files
    IN  [sources |-> [k \in DOMAIN places |-> v.sources[places[k]]],
         slots |-> [s \in Slots |-> To(v.slots[s])],
         current |-> IF onFile THEN To(v.current) ELSE NoMark]

Nothing == [sources |-> <<>>, slots |-> [s \in Slots |-> NoMark], current |-> NoMark]

(* The user is asked ("It looks like YUView crashed the last time you used *)
(* it") only if the last session crashed with a playlist that was not      *)
(* empty.  What is restored is what was there at the last autosave, also   *)
(* at a second try after a crash while restoring: the items in their       *)
(* order, the slots that could be loaded and the selection of a file on    *)
(* the same items with the same frames, although all items have new ids.   *)
(* Left out are files that are gone or whose path is not ASCII, with what  *)
(* names them, and the selection of a text item.  With such a path the     *)
(* document may not be readable at all; then nothing comes back.           *)
SessionComesBack == [][\A restore \in BOOLEAN : StartUp(restore) =>
    IF restore
    THEN /\ atTick # None
         /\ \/ View' = Kept(atTick)
            \/ View' = Nothing /\ \E k \in DOMAIN atTick.sources : atTick.sources[k] \in Foreign
    ELSE View' = Nothing]_vars

(* "We have an autosave of the playlist you were working with": all of it  *)
(* comes back if no file is gone.  Known to fail: the selection of a text  *)
(* item does not, and paths that are not ASCII do not.                     *)
WholeSessionComesBack == [][StartUp(TRUE) /\ missing = {} => View' = atTick]_vars

(* A slot in a playlist file names the same item when the file is loaded   *)
(* into a running session, also behind items that came from the same file  *)
(* or are copies of such items.  (If that item is gone the slot can name   *)
(* an older one: known to fail.)                                           *)
SlotsNameTheirItems == [][\A answer \in {"Clear", "Append"} :
    LoadPlaylistFile(answer) =>
        LET items  == playlistFile.items
            places == Loadable([k \in DOMAIN items |-> items[k].source])
            before == Len(playlist') - Len(places)
        IN  \A s \in Slots, k \in DOMAIN places :
                playlistFile.slots[s].item = items[places[k]].id =>
                    View'.slots[s] = [place |-> before + k,
                                      frame |-> playlistFile.slots[s].frame]]_vars

(* The header: "After loading the playlist, this playlistID has to be      *)
(* reset ...  If another playlist is loaded later on, the value has to be  *)
(* invalid": a loaded slot names an item of this playlist or none.  Known  *)
(* to fail: an item that never was in a playlist has the id 0, a copy that *)
(* of its original.                                                        *)
SlotsNameLoadedItems == [][\A answer \in {"Clear", "Append"} :
    LoadPlaylistFile(answer) => \A s \in Slots :
        playlistFile.slots[s].frame # -1 =>
            selectionStates'[s].item \notin Ids(playlist)]_vars
=============================================================================
