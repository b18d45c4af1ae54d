------------------------------ MODULE CoinPhotos ------------------------------
(***************************************************************************)
(* The two photos of a purchase on its edit page                           *)
(* (features/collection/PurchaseFormPage.tsx): a side is picked, a file    *)
(* chosen, framed in the crop dialog, encoded and checked for blur, and    *)
(* sent at once, while the page goes on; a photo of the owner's is removed *)
(* by its cross.  Requests are answered in any order, each with both sides *)
(* as the server had them.                                                 *)
(*                                                                         *)
(* A picture is the number of the file chosen.  Encoding goes on after its *)
(* dialog is closed, and ends in the handlers of the render it began in.   *)
(***************************************************************************)
EXTENDS Integers, Sequences

CONSTANTS MaxPicks,     \* bound: files chosen
          MaxEncodes,   \* bound: how often one is encoded
          MaxRemovals   \* bound: photos removed

ASSUME CoinPhotosAssumption ==
    MaxPicks \in Nat /\ MaxEncodes \in Nat /\ MaxRemovals \in Nat

Faces == {"obverse", "reverse"}
Files == 1..MaxPicks
NoFile == 0                     \* no file, and the catalogue's picture of a side
Before == MaxPicks + 1          \* the photo the purchase had
Shots == Files \cup {NoFile, Before}

VARIABLES face,         \* side of the picker
          choosing,     \* the browser's file dialog is open
          framed,          \* the file in the crop dialog, whose key it is
          warned,       \* blurWarning of that dialog
          chosen,       \* how many files were chosen
          encodes,      \* encodings under way
          encoded,      \* how many were begun
          savingSide,
          posts,        \* requests under way
          removals,     \* how many removals were asked for
          answers,      \* photos: what a request last answered, if any did
          ownership,    \* of a side, once a request of it was answered
          loaded,       \* the photos the page was opened with
          store,        \* the server's photos
          posted,       \* every picture sent, with its side
          pickedFor,    \* the side each file was chosen for
          lost          \* a request failed

cropVars == <<face, choosing, framed, warned, chosen, encodes, encoded, pickedFor>>
photoPageVars == <<savingSide, answers, ownership>>
coinPhotoVars ==
    <<cropVars, photoPageVars, posts, removals, loaded, store, posted, lost>>

BothFaces == [Faces -> Shots]
Posts == [n : Nat, what : {"put", "delete"}, face : Faces, shot : Shots,
          done : BOOLEAN, both : BothFaces]

CoinPhotosTypeOK ==
    /\ face \in Faces \cup {"none"} /\ choosing \in BOOLEAN
    /\ framed \in 0..MaxPicks /\ warned \in BOOLEAN /\ chosen \in 0..MaxPicks
    /\ encodes \subseteq [n : 1..MaxEncodes, shot : Files, face : Faces]
    /\ encoded \in 0..MaxEncodes /\ removals \in 0..MaxRemovals
    /\ savingSide \in Faces \cup {"none"}
    /\ \A p \in posts : p \in Posts
    /\ answers \in BothFaces \cup {<<>>}
    /\ ownership \in [Faces -> {"as loaded", "own", "not own"}]
    /\ loaded \in BothFaces /\ store \in BothFaces
    /\ \A k \in DOMAIN posted : posted[k] \in Files \X Faces
    /\ pickedFor \in Seq(Faces) /\ Len(pickedFor) = chosen
    /\ lost \in BOOLEAN

CoinPhotosInit ==
    /\ face = "none" /\ choosing = FALSE /\ framed = NoFile /\ warned = FALSE
    /\ chosen = 0 /\ encodes = {} /\ encoded = 0 /\ pickedFor = <<>>
    /\ savingSide = "none" /\ answers = <<>> /\ ownership = [f \in Faces |-> "as loaded"]
    /\ posts = {} /\ removals = 0 /\ posted = <<>> /\ lost = FALSE
    /\ loaded \in [Faces -> {NoFile, Before}]
    /\ store = loaded

-----------------------------------------------------------------------------
(* What the page knows.                                                     *)

\* isOwnPhoto
IsOwnPhoto(f) ==
    IF ownership[f] = "as loaded" THEN loaded[f] # NoFile ELSE ownership[f] = "own"

\* photoOverrides, which supersede what was loaded from the first answer on.
ShownPhoto(f) == IF answers = <<>> THEN loaded[f] ELSE answers[f]

\* The page under the dialogs
PageFree == framed = NoFile /\ ~ choosing

UploadBusy == savingSide # "none"

\* Mutant of Encoding: the guard against a second click is forgotten.
EncodingUnseen == FALSE

Encoding == \E e \in encodes : e.shot = framed

-----------------------------------------------------------------------------
(* The picker and the crop dialog.                                          *)

PickFace(f) ==
    /\ PageFree
    /\ face' = f /\ choosing' = TRUE
    /\ UNCHANGED <<framed, warned, chosen, encodes, encoded, pickedFor,
                   photoPageVars, posts, removals, loaded, store, posted, lost>>

FileChosen ==
    /\ choosing /\ chosen < MaxPicks
    /\ choosing' = FALSE
    /\ chosen' = chosen + 1 /\ framed' = chosen + 1 /\ warned' = FALSE
    /\ pickedFor' = Append(pickedFor, face)
    /\ UNCHANGED <<face, encodes, encoded,
                   photoPageVars, posts, removals, loaded, store, posted, lost>>

NoFileChosen ==
    /\ choosing /\ choosing' = FALSE
    /\ UNCHANGED <<face, framed, warned, chosen, encodes, encoded, pickedFor,
                   photoPageVars, posts, removals, loaded, store, posted, lost>>

\* Cancel where it is enabled; Escape, the cross and the backdrop always.
CancelFraming ==
    /\ framed # NoFile
    /\ framed' = NoFile /\ warned' = FALSE
    /\ UNCHANGED <<face, choosing, chosen, encodes, encoded, pickedFor,
                   photoPageVars, posts, removals, loaded, store, posted, lost>>

SaveFraming ==
    /\ framed # NoFile /\ ~ warned /\ ~ UploadBusy /\ ~ Encoding
    /\ encoded < MaxEncodes /\ encoded' = encoded + 1
    /\ encodes' = encodes \cup {[n |-> encoded + 1, shot |-> framed, face |-> face]}
    /\ UNCHANGED <<face, choosing, framed, warned, chosen, pickedFor,
                   photoPageVars, posts, removals, loaded, store, posted, lost>>

\* onCropSave of the render the encoding began in
SideOfPost(e) == e.face

\* uploadMutation.mutate; whatever is in the crop dialog by now is released.
PostPhoto(f, shot) ==
    /\ posts' = posts \cup {[n |-> Len(posted) + 1, what |-> "put", face |-> f, shot |-> shot,
                             done |-> FALSE, both |-> store]}
    /\ posted' = Append(posted, <<shot, f>>)
    /\ savingSide' = f
    /\ framed' = NoFile /\ warned' = FALSE
    /\ UNCHANGED <<face, choosing, chosen, encoded, pickedFor, answers, ownership,
                   removals, loaded, store, lost>>

EncodedSharp(e) ==
    /\ PostPhoto(SideOfPost(e), e.shot)
    /\ encodes' = encodes \ {e}

\* A warning, or a failure the dialog reports: nothing where it was closed.
EncodedInVain(e) ==
    /\ encodes' = encodes \ {e}
    /\ warned' \in {warned, warned \/ e.shot = framed}
    /\ UNCHANGED <<face, choosing, framed, chosen, encoded, pickedFor,
                   photoPageVars, posts, removals, loaded, store, posted, lost>>

SaveBlurred ==
    /\ warned /\ ~ UploadBusy
    /\ PostPhoto(face, framed)
    /\ UNCHANGED encodes

DropWarning ==
    /\ warned /\ ~ UploadBusy
    /\ warned' = FALSE
    /\ UNCHANGED <<face, choosing, framed, chosen, encodes, encoded, pickedFor,
                   photoPageVars, posts, removals, loaded, store, posted, lost>>

\* The cross of a side waits for no other request.
RemoveFace(f) ==
    /\ PageFree /\ IsOwnPhoto(f) /\ removals < MaxRemovals
    /\ removals' = removals + 1
    /\ posts' = posts \cup {[n |-> removals + 1, what |-> "delete", face |-> f, shot |-> NoFile,
                             done |-> FALSE, both |-> store]}
    /\ savingSide' = f
    /\ UNCHANGED <<cropVars, answers, ownership, loaded, store, posted, lost>>

-----------------------------------------------------------------------------
(* The requests.                                                            *)

StorePhoto(p) ==
    /\ ~ p.done
    /\ store' = [store EXCEPT ![p.face] = p.shot]
    /\ posts' = (posts \ {p}) \cup {[p EXCEPT !.done = TRUE, !.both = store']}
    /\ UNCHANGED <<cropVars, photoPageVars, removals, loaded, posted, lost>>

PhotoAnswered(p) ==
    /\ p.done
    /\ posts' = posts \ {p}
    /\ answers' = p.both
    /\ ownership' = [ownership EXCEPT ![p.face] = IF p.what = "put" THEN "own" ELSE "not own"]
    /\ savingSide' = "none"
    /\ UNCHANGED <<cropVars, removals, loaded, store, posted, lost>>

\* Refused, or the request or its answer lost
PhotoRefused(p) ==
    /\ posts' = posts \ {p}
    /\ savingSide' = "none"
    /\ lost' = TRUE
    /\ UNCHANGED <<cropVars, answers, ownership, removals, loaded, store, posted>>

CoinPhotosNext ==
    \/ \E f \in Faces : PickFace(f) \/ RemoveFace(f)
    \/ FileChosen \/ NoFileChosen \/ CancelFraming \/ SaveFraming \/ SaveBlurred \/ DropWarning
    \/ \E e \in encodes : EncodedSharp(e) \/ EncodedInVain(e)
    \/ \E p \in posts : StorePhoto(p) \/ PhotoAnswered(p) \/ PhotoRefused(p)

CoinPhotosSpec == CoinPhotosInit /\ [][CoinPhotosNext]_coinPhotoVars

-----------------------------------------------------------------------------
(* Properties.                                                              *)

\* A file is sent at most once, and to the side it was chosen for, though an
\* encoding outlives its dialog and another side may be picked meanwhile
\* (CropDialog.tsx:83-86; useCoinPhotoPicker.ts:39-42).
SentAsPicked ==
    \A k \in DOMAIN posted :
        /\ posted[k][2] = pickedFor[posted[k][1]]
        /\ \A l \in DOMAIN posted : posted[l][1] = posted[k][1] => l = k

\* With nothing under way and nothing failed, the page shows what the server
\* has: "every response already carries the fresh truth for both"
\* (PurchaseFormPage.tsx:60-65).  Answers come out of order, and the code
\* shows the last one to come.
ShowsStoredPhotos ==
    posts = {} /\ ~ lost => \A f \in Faces : ShownPhoto(f) = store[f]
=============================================================================
