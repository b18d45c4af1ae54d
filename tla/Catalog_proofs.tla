--------------------------- MODULE Catalog_proofs ---------------------------
(***************************************************************************)
(* Proofs about the coins of the catalogue and of a collection: the        *)
(* proposals of an administrator (Proposals), the photo services of the    *)
(* server (Photos), the photos on a purchase's page (CoinPhotos), the      *)
(* pages that list (Listing) and the money on a coin's card (CoinMoney),   *)
(* for any contents, pictures, sides, countries, series, purchases and     *)
(* amounts, and any number of requests.                                    *)
(***************************************************************************)
EXTENDS Listing, Proposals, Photos, CoinPhotos, CoinMoney, FiniteSetTheorems,
        SequenceTheorems, WellFoundedInduction, TLAPS

-----------------------------------------------------------------------------
(*                                PROPOSALS                                 *)
-----------------------------------------------------------------------------
USE ProposalsAssumption

-----------------------------------------------------------------------------
(* Overlays.                                                                *)

\* The editor and the crop dialog over it; the other two lie alone.
Stacks == {{}, {"lightbox"}, {"confirm"}, {"editor"}, {"editor", "crop"}}

LEMMA Orders ==
  Order("editor") = 1 /\ Order("crop") = 2 /\ Order("confirm") = 3 /\ Order("lightbox") = 4
  <1>1. DOMAIN Overlays = 1..4  BY DEF Overlays
  <1>2. /\ Overlays[1] = "editor" /\ Overlays[2] = "crop" /\ Overlays[3] = "confirm"
        /\ Overlays[4] = "lightbox"
    BY DEF Overlays
  <1>3. 1..4 = {1, 2, 3, 4}  OBVIOUS
  <1> HIDE DEF Overlays
  <1> QED BY <1>1, <1>2, <1>3 DEF Order

\* What lies over the page, what its lock found, and the picture that is cropped.
Stacked ==
    /\ overlays \in Stacks /\ DOMAIN found = AnyOverlay
    /\ overlays # {} => overflow = "hidden"
    /\ "crop" \in overlays => found["crop"] = "hidden"
    /\ "crop" \in overlays <=> raw # NoPicture

\* Closing an overlay leaves the one under it, and its lock.
LEMMA CloseTop ==
  ASSUME Stacked, NEW o \in AnyOverlay, OnTop(o)
  PROVE  /\ o = "crop" => overlays = {"editor", "crop"}
         /\ o # "crop" => overlays = {o}
  BY Orders DEF Stacked, Stacks, OnTop, AnyOverlay

LEMMA CropUnlocked ==
  ASSUME Stacked, Unlock({"crop"}), raw' = NoPicture
  PROVE  Stacked'
  <1>1. CASE "crop" \in overlays
    <2>1. overlays = {"editor", "crop"} /\ found["crop"] = "hidden"
      BY <1>1 DEF Stacked, Stacks
    <2>2. {"crop"} \cap overlays = {"crop"} /\ overlays' = {"editor"}
      BY <2>1 DEF Unlock
    <2>3. (CHOOSE o \in {"crop"} : \A p \in {"crop"} : Order(p) <= Order(o)) = "crop"
      BY Orders
    <2>4. overflow' = "hidden"  BY <2>1, <2>2, <2>3 DEF Unlock
    <2>5. DOMAIN found' = AnyOverlay  BY DEF Unlock
    <2> QED BY <2>2, <2>4, <2>5 DEF Stacked, Stacks
  <1>2. CASE "crop" \notin overlays
    <2>1. overlays' = overlays /\ overflow' = overflow /\ DOMAIN found' = AnyOverlay
      BY <1>2 DEF Unlock
    <2> QED BY <1>2, <2>1 DEF Stacked
  <1> QED BY <1>1, <1>2

LEMMA AllUnlocked ==
  ASSUME NEW gone, overlays \subseteq gone, Unlock(gone), EditorGone
  PROVE  Stacked'
  BY DEF Unlock, EditorGone, Stacked, Stacks

LEMMA LockedOverPage ==
  ASSUME overlays = {}, Stacked, NEW o \in AnyOverlay \ {"crop"}, Lock(o), UNCHANGED raw
  PROVE  Stacked'
  BY DEF Lock, Stacked, Stacks, AnyOverlay

\* The overlays are stacked as they were opened, each with its own scroll lock
\* (Modal.tsx, Lightbox.tsx, pageScroll.ts).
THEOREM StackKept == ProposalSpec => []Stacked
  <1>1. ProposalInit => Stacked
    BY DEF ProposalInit, Stacked, Stacks
  <1>2. Stacked /\ [ProposalNext]_proposalVars => Stacked'
    <2> SUFFICES ASSUME Stacked, [ProposalNext]_proposalVars PROVE Stacked'
      OBVIOUS
    <2>1. ASSUME UNCHANGED <<overlays, found, overflow, raw>> PROVE Stacked'
      BY <2>1 DEF Stacked
    <2>2. CASE Enlarge
      BY <2>2, LockedOverPage DEF Enlarge, Bare, AnyOverlay, crop
    <2>3. CASE AskToReject
      BY <2>3, LockedOverPage DEF AskToReject, Bare, AnyOverlay, crop
    <2>4. CASE LeaveCard
      BY <2>4, AllUnlocked DEF LeaveCard
    <2>5. ASSUME NEW t \in Contents, EditProposal(t) PROVE Stacked'
      BY <2>5, LockedOverPage DEF EditProposal, Bare, AnyOverlay, crop
    <2>6. ASSUME NEW o \in AnyOverlay, Close(o) PROVE Stacked'
      <3>1. overlays \subseteq {o}  BY <2>6, CloseTop DEF Close
      <3> QED BY <2>6, <3>1, AllUnlocked DEF Close
    <2>7. CASE CloseCrop
      BY <2>7, CropUnlocked DEF CloseCrop
    <2>8. CASE EscapeOverlay
      BY <2>8, AllUnlocked DEF EscapeOverlay
    <2>9. ASSUME NEW s \in CoinSides, NEW p \in Pictures, PickSidePhoto(s, p) PROVE Stacked'
      <3>1. overlays = {"editor"} /\ overflow = "hidden"
        BY <2>9, CloseTop DEF PickSidePhoto, AnyOverlay, Stacked
      <3>2. overlays' = {"editor", "crop"} /\ overflow' = "hidden"
        BY <2>9, <3>1 DEF PickSidePhoto, Lock
      <3>3. DOMAIN found' = AnyOverlay /\ found'["crop"] = "hidden"
        BY <2>9, <3>1 DEF PickSidePhoto, Lock, Stacked, AnyOverlay
      <3>4. raw' # NoPicture  BY <2>9 DEF PickSidePhoto
      <3> QED BY <3>2, <3>3, <3>4 DEF Stacked, Stacks
    <2>10. ASSUME NEW o, Encoded(o) PROVE Stacked'
      <3>1. CASE o = "sharp"
        BY <2>10, <3>1, CropUnlocked DEF Encoded, Taken
      <3>2. CASE o # "sharp"
        BY <2>10, <3>2, <2>1 DEF Encoded, dialogs
      <3> QED BY <3>1, <3>2
    <2>11. CASE SaveAnyway
      BY <2>11, CropUnlocked DEF SaveAnyway, Taken
    <2>12. CASE FinishEdit
      BY <2>12, AllUnlocked DEF FinishEdit
    <2>13. CASE \/ ComeBack \/ (\E t \in Contents : EditField(t) \/ RivalCommits(t))
                \/ (\E s \in CoinSides : RemovePhoto(s))
                \/ SaveCrop \/ DropBlurred \/ Approve \/ ConfirmReject \/ Submit \/ NextStep
                \/ RequestFailed \/ Refuse
                \/ (\E op : Begin("page", op) \/ Begin("rival", op))
                \/ (\E reply : CommitDecision(reply))
      BY <2>13, <2>1 DEF ComeBack, EditField, RivalCommits, RemovePhoto, SaveCrop, DropBlurred,
           Approve, ConfirmReject, Submit, NextStep, RequestFailed, Refuse, Begin,
           CommitDecision, dialogs, crop
    <2>14. CASE UNCHANGED proposalVars
      BY <2>1, <2>14 DEF proposalVars, dialogs, crop
    <2> QED BY <2>2, <2>3, <2>4, <2>5, <2>6, <2>7, <2>8, <2>9, <2>10, <2>11, <2>12, <2>13, <2>14
            DEF ProposalNext
  <1> QED BY <1>1, <1>2, PTL DEF ProposalSpec

\* The page behind an overlay never scrolls (Modal.tsx, pageScroll.ts).
THEOREM FrozenBehind == ProposalSpec => []PageFrozen
  <1>1. Stacked => PageFrozen  BY DEF Stacked, PageFrozen
  <1> QED BY <1>1, StackKept, PTL

-----------------------------------------------------------------------------
(* Type correctness: first what the page holds, then its requests and the   *)
(* server, which take their values from it.                                 *)

PageTyped ==
    /\ place \in {"card", "list"}
    /\ overlays \subseteq AnyOverlay /\ overflow \in {"", "hidden"}
    /\ found \in [AnyOverlay -> {"", "hidden"}]
    /\ fields \in Contents /\ photoEdits \in Changes
    /\ raw \in Pictures \cup {NoPicture} /\ blurred \in Pictures \cup {NoPicture}
    /\ side \in CoinSides
    /\ encoding \subseteq [picture : Pictures, side : CoinSides]

Steps == {"approve", "reject", "fields", "photo"}

ServerTyped ==
    /\ item \in Items
    /\ decisions \in Seq([by : {"page", "rival"}, what : Steps])
    /\ txn \in [{"page", "rival"} -> {"none"} \cup Steps]
    /\ underWay \in {"none", "approve", "reject", "edit"}
    /\ sent \in [fields : Contents, edits : Changes]
    /\ step \in {"none"} \cup Steps /\ left \subseteq CoinSides
    /\ answer \in {"none", "ok", "refused", "lost"}
    /\ decisionsAsked \in 0..MaxDecisions /\ rivalSaves \in 0..MaxDecisions
    /\ rivalActed \in BOOLEAN

LEMMA NewTyped ==
  /\ FirstSide \in CoinSides /\ NoEdits \in Changes
  /\ NewEditor = [fields |-> NewEditor.fields, edits |-> NoEdits]
  /\ NewEditor.fields \in Contents
  BY DEF FirstSide, NoEdits, Changes, NewEditor

LEMMA LockTyped ==
  ASSUME PageTyped, NEW o \in AnyOverlay, Lock(o)
  PROVE  /\ overlays' \subseteq AnyOverlay /\ overflow' \in {"", "hidden"}
         /\ found' \in [AnyOverlay -> {"", "hidden"}]
  BY DEF Lock, PageTyped

LEMMA UnlockTyped ==
  ASSUME PageTyped, Stacked, NEW gone, Unlock(gone)
  PROVE  /\ overlays' \subseteq AnyOverlay /\ overflow' \in {"", "hidden"}
         /\ found' \in [AnyOverlay -> {"", "hidden"}]
  <1>1. overlays' \subseteq AnyOverlay /\ found' \in [AnyOverlay -> {"", "hidden"}]
    BY DEF Unlock, PageTyped
  <1>2. overflow' \in {"", "hidden"}
    <2>1. CASE gone \cap overlays = {}
      BY <2>1 DEF Unlock, PageTyped
    <2>2. CASE gone \cap overlays # {}
      <3> DEFINE last == CHOOSE o \in gone \cap overlays :
                            \A p \in gone \cap overlays : Order(p) <= Order(o)
      <3>1. \E o \in gone \cap overlays :
               \A p \in gone \cap overlays : Order(p) <= Order(o)
        BY <2>2, Orders DEF Stacked, Stacks
      <3>2. last \in overlays  BY <3>1
      <3>3. overflow' = found[last]  BY <2>2 DEF Unlock
      <3> HIDE DEF last
      <3> QED BY <3>2, <3>3 DEF PageTyped
    <2> QED BY <2>1, <2>2
  <1> QED BY <1>1, <1>2

LEMMA GoneTyped ==
  ASSUME EditorGone
  PROVE  /\ fields' \in Contents /\ photoEdits' \in Changes
         /\ raw' \in Pictures \cup {NoPicture} /\ blurred' \in Pictures \cup {NoPicture}
         /\ side' \in CoinSides /\ encoding' \subseteq [picture : Pictures, side : CoinSides]
  BY NewTyped DEF EditorGone

LEMMA TakenTyped ==
  ASSUME PageTyped, Stacked, NEW p \in Pictures \cup {NoPicture}, NEW s \in CoinSides,
         Taken(p, s)
  PROVE  /\ photoEdits' \in Changes /\ raw' \in Pictures \cup {NoPicture}
         /\ overlays' \subseteq AnyOverlay /\ overflow' \in {"", "hidden"}
         /\ found' \in [AnyOverlay -> {"", "hidden"}]
  <1>1. photoEdits' \in Changes /\ raw' \in Pictures \cup {NoPicture}
    BY DEF Taken, PageTyped, Changes
  <1> QED BY <1>1, UnlockTyped DEF Taken

\* The page of the proposal keeps its type (ProposalActions.tsx,
\* ProposalEditor.tsx).
THEOREM PageKeepsType == ProposalSpec => []PageTyped
  <1>1. ProposalInit => PageTyped
    BY NewTyped DEF ProposalInit, PageTyped
  <1>2. PageTyped /\ Stacked /\ [ProposalNext]_proposalVars => PageTyped'
    <2> SUFFICES ASSUME PageTyped, Stacked, [ProposalNext]_proposalVars PROVE PageTyped'
      OBVIOUS
    <2>1. ASSUME UNCHANGED <<place, dialogs, editor, crop>> PROVE PageTyped'
      BY <2>1 DEF PageTyped, dialogs, editor, crop
    <2>2. CASE Enlarge
      BY <2>2, LockTyped DEF Enlarge, AnyOverlay, editor, crop, PageTyped
    <2>3. CASE AskToReject
      BY <2>3, LockTyped DEF AskToReject, AnyOverlay, editor, crop, PageTyped
    <2>4. ASSUME NEW t \in Contents, EditProposal(t) PROVE PageTyped'
      BY <2>4, LockTyped, NewTyped DEF EditProposal, AnyOverlay, crop, PageTyped
    <2>5. CASE CloseCrop
      BY <2>5, UnlockTyped DEF CloseCrop, editor, PageTyped
    <2>6. ASSUME NEW o \in AnyOverlay, Close(o) PROVE PageTyped'
      BY <2>6, UnlockTyped, GoneTyped DEF Close, PageTyped
    <2>7. CASE EscapeOverlay
      BY <2>7, UnlockTyped, GoneTyped DEF EscapeOverlay, PageTyped
    <2>8. CASE LeaveCard
      BY <2>8, UnlockTyped, GoneTyped DEF LeaveCard, PageTyped
    <2>9. CASE FinishEdit
      BY <2>9, UnlockTyped, GoneTyped DEF FinishEdit, PageTyped
    <2>10. CASE ComeBack
      BY <2>10 DEF ComeBack, dialogs, editor, crop, PageTyped
    <2>11. ASSUME NEW t \in Contents, EditField(t) PROVE PageTyped'
      BY <2>11 DEF EditField, dialogs, crop, PageTyped
    <2>12. ASSUME NEW s \in CoinSides, RemovePhoto(s) PROVE PageTyped'
      BY <2>12 DEF RemovePhoto, dialogs, crop, PageTyped, Changes
    <2>13. ASSUME NEW s \in CoinSides, NEW p \in Pictures, PickSidePhoto(s, p)
           PROVE  PageTyped'
      BY <2>13, LockTyped DEF PickSidePhoto, AnyOverlay, editor, PageTyped
    <2>14. CASE SaveCrop
      <3>1. raw \in Pictures  BY <2>14 DEF SaveCrop, OnTop, Stacked, PageTyped
      <3>2. [picture |-> raw, side |-> side] \in [picture : Pictures, side : CoinSides]
        BY <3>1 DEF PageTyped
      <3>3. encoding' \subseteq [picture : Pictures, side : CoinSides]
        BY <2>14, <3>2 DEF SaveCrop
      <3> QED BY <2>14, <3>3 DEF SaveCrop, dialogs, editor, PageTyped
    <2>15. CASE DropBlurred
      BY <2>15 DEF DropBlurred, dialogs, editor, PageTyped
    <2>16. CASE SaveAnyway
      <3>1. Taken(blurred, side) /\ blurred \in Pictures \cup {NoPicture} /\ side \in CoinSides
        BY <2>16 DEF SaveAnyway, PageTyped
      <3> QED BY <2>16, <3>1, TakenTyped DEF SaveAnyway, PageTyped
    <2>17. ASSUME NEW o, Encoded(o) PROVE PageTyped'
      <3>1. PICK e \in encoding :
               /\ encoding' = {}
               /\ blurred' = IF o = "blurred" THEN e.picture ELSE blurred
               /\ IF o = "sharp" THEN Taken(e.picture, e.side)
                  ELSE UNCHANGED <<photoEdits, raw, dialogs>>
               /\ UNCHANGED <<place, fields, side>>
        BY <2>17 DEF Encoded
      <3>2. e.picture \in Pictures /\ e.side \in CoinSides  BY DEF PageTyped
      <3>3. CASE o = "sharp"
        BY <3>1, <3>2, <3>3, TakenTyped DEF PageTyped
      <3>4. CASE o # "sharp"
        BY <3>1, <3>2, <3>4 DEF PageTyped, dialogs
      <3> QED BY <3>3, <3>4
    <2>18. CASE \/ Approve \/ ConfirmReject \/ Submit \/ NextStep \/ RequestFailed \/ Refuse
                \/ (\E t : RivalCommits(t))
                \/ (\E op : Begin("page", op) \/ Begin("rival", op))
                \/ (\E reply : CommitDecision(reply))
      BY <2>1, <2>18 DEF Approve, ConfirmReject, Submit, NextStep, RequestFailed, Refuse,
           RivalCommits, Begin, CommitDecision
    <2>19. CASE UNCHANGED proposalVars
      BY <2>1, <2>19 DEF proposalVars
    <2> QED BY <2>2, <2>3, <2>4, <2>5, <2>6, <2>7, <2>8, <2>9, <2>10, <2>11, <2>12, <2>13, <2>14,
               <2>15, <2>16, <2>17, <2>18, <2>19 DEF ProposalNext
  <1> QED BY <1>1, <1>2, StackKept, PTL DEF ProposalSpec

LEMMA DecidedTyped ==
  ASSUME ServerTyped, NEW a \in {"page", "rival"}, NEW op \in Steps, Decide(a, op)
  PROVE  /\ item' \in Items /\ item'.fields = item.fields /\ item'.photos = item.photos
         /\ item'.status # "draft"
         /\ decisions' \in Seq([by : {"page", "rival"}, what : Steps])
         /\ Len(decisions') = Len(decisions) + 1
  <1>1. /\ [item EXCEPT !.status = "active"] \in Items
        /\ [item EXCEPT !.status = "rejected", !.archived = TRUE] \in Items
    BY DEF ServerTyped, Items, Statuses
  <1>2. item' \in Items /\ item'.fields = item.fields /\ item'.photos = item.photos
        /\ item'.status # "draft"
    BY <1>1 DEF Decide, ServerTyped, Items
  <1>3. [by |-> a, what |-> op] \in [by : {"page", "rival"}, what : Steps]
    OBVIOUS
  <1> HIDE DEF Steps
  <1>4. decisions' = Append(decisions, [by |-> a, what |-> op])  BY DEF Decide
  <1> QED BY <1>2, <1>3, <1>4, AppendProperties DEF ServerTyped

LEMMA SavedTyped ==
  ASSUME ServerTyped, NEW t \in Contents
  PROVE  [item EXCEPT !.fields = t] \in Items
  BY DEF ServerTyped, Items

LEMMA PhotoSavedTyped ==
  ASSUME ServerTyped, NEW s \in CoinSides, sent.edits[s] # Keep
  PROVE  /\ [item EXCEPT !.photos[s] = sent.edits[s]] \in Items
         /\ [item EXCEPT !.photos[s] = sent.edits[s]].photos
              = [item.photos EXCEPT ![s] = sent.edits[s]]
         /\ [item EXCEPT !.photos[s] = sent.edits[s]].fields = item.fields
         /\ [item EXCEPT !.photos[s] = sent.edits[s]].status = item.status
  <1>1. sent.edits[s] \in Pictures \cup {NoPicture}
    BY DEF ServerTyped, Changes
  <1>2. [item.photos EXCEPT ![s] = sent.edits[s]] \in Photos
    BY <1>1 DEF ServerTyped, Items, Photos
  <1> QED BY <1>2 DEF ServerTyped, Items

\* The photos still to be sent are among the changes of the edit.
Left == \A s \in left : sent.edits[s] # Keep

\* The server's side and the request under way keep their types, and the photos
\* still to be sent are among those changed (ProposalActions.tsx:52-66).
THEOREM ServerKeepsType == ProposalSpec => [](ServerTyped /\ Left)
  <1> DEFINE Inv == ServerTyped /\ Left
  <1>1. ProposalInit => Inv
    <2> SUFFICES ASSUME ProposalInit PROVE Inv
      OBVIOUS
    <2>1. sent \in [fields : Contents, edits : Changes]
      <3>1. sent = NewEditor  BY DEF ProposalInit
      <3> QED BY <3>1, NewTyped
    <2>2. txn \in [{"page", "rival"} -> {"none"} \cup Steps]  BY DEF ProposalInit
    <2>3. decisions \in Seq([by : {"page", "rival"}, what : Steps])
      BY EmptySeq DEF ProposalInit
    <2>4. 0 \in 0..MaxDecisions  OBVIOUS
    <2> QED BY <2>1, <2>2, <2>3, <2>4 DEF ProposalInit, ServerTyped, Left
  <1>2. Inv /\ PageTyped /\ [ProposalNext]_proposalVars => Inv'
    <2> SUFFICES ASSUME Inv, PageTyped, [ProposalNext]_proposalVars PROVE Inv'
      OBVIOUS
    <2>1. ASSUME UNCHANGED <<server, request, rival>> PROVE Inv'
      BY <2>1 DEF server, request, rival, ServerTyped, Left
    <2>2. CASE \/ Enlarge \/ AskToReject \/ CloseCrop \/ EscapeOverlay \/ LeaveCard \/ ComeBack
               \/ SaveCrop \/ DropBlurred \/ SaveAnyway
               \/ (\E t : EditProposal(t) \/ EditField(t))
               \/ (\E o : Close(o) \/ Encoded(o))
               \/ (\E s : RemovePhoto(s) \/ \E p : PickSidePhoto(s, p))
      BY <2>1, <2>2 DEF Enlarge, AskToReject, CloseCrop, EscapeOverlay, LeaveCard, ComeBack,
           SaveCrop, DropBlurred, SaveAnyway, EditProposal, EditField, Close, Encoded,
           RemovePhoto, PickSidePhoto
    <2>3. ASSUME NEW k \in {"approve", "reject", "edit"}, NEW f \in Steps, Send(k, f)
          PROVE  /\ decisionsAsked' \in 0..MaxDecisions
                 /\ underWay' \in {"none", "approve", "reject", "edit"}
                 /\ step' \in {"none"} \cup Steps /\ answer' = "none"
      BY <2>3 DEF Send, ServerTyped
    <2>4. CASE Approve
      BY <2>3, <2>4 DEF Approve, server, rival, ServerTyped, Left, Steps
    <2>5. CASE ConfirmReject
      BY <2>3, <2>5 DEF ConfirmReject, server, rival, ServerTyped, Left, Steps
    <2>6. CASE Submit
      <3>1. sent' \in [fields : Contents, edits : Changes] /\ sent'.edits = photoEdits
        BY <2>6 DEF Submit, PageTyped
      <3>2. left' \subseteq CoinSides /\ \A s \in left' : sent'.edits[s] # Keep
        BY <2>6, <3>1 DEF Submit
      <3>3. Send("edit", "fields")  BY <2>6 DEF Submit
      <3> QED BY <2>3, <2>6, <3>1, <3>2, <3>3 DEF Submit, server, ServerTyped, Left, Steps
    <2>7. CASE NextStep
      BY <2>7 DEF NextStep, server, rival, ServerTyped, Left, Steps
    <2>8. CASE FinishEdit \/ RequestFailed
      <3>1. sent' \in [fields : Contents, edits : Changes] /\ left' = {}
        BY <2>8, NewTyped DEF FinishEdit, RequestFailed
      <3>2. underWay' = "none" /\ step' = "none" /\ answer' = "none"
            /\ UNCHANGED <<server, decisionsAsked, rival>>
        BY <2>8 DEF FinishEdit, RequestFailed
      <3> QED BY <3>1, <3>2 DEF server, rival, ServerTyped, Left
    <2>9. CASE Refuse
      BY <2>9 DEF Refuse, server, rival, ServerTyped, Left
    <2>10. ASSUME NEW a \in {"page", "rival"}, NEW op \in Steps, Begin(a, op) PROVE Inv'
      <3>1. txn' \in [{"page", "rival"} -> {"none"} \cup Steps]
        BY <2>10 DEF Begin, ServerTyped
      <3>2. rivalSaves' \in 0..MaxDecisions /\ rivalActed' \in BOOLEAN
        <4>1. CASE a = "page"
          BY <2>10, <4>1 DEF Begin, rival, ServerTyped
        <4>2. CASE a = "rival"
          <5>1. decisionsAsked + rivalSaves < MaxDecisions /\ rivalSaves' = rivalSaves + 1
                /\ rivalActed' = TRUE
            BY <2>10, <4>2 DEF Begin
          <5> QED BY <5>1 DEF ServerTyped
        <4> QED BY <4>1, <4>2
      <3> QED BY <2>10, <3>1, <3>2 DEF Begin, request, ServerTyped, Left
    <2>11. ASSUME NEW reply \in {"ok", "lost"}, CommitDecision(reply) PROVE Inv'
      <3>1. txn' \in [{"page", "rival"} -> {"none"} \cup Steps]
        BY <2>11 DEF CommitDecision, ServerTyped
      <3>2. /\ item' \in Items /\ left' \subseteq left
            /\ decisions' \in Seq([by : {"page", "rival"}, what : Steps])
        <4>1. CASE Decide("page", txn["page"]) /\ UNCHANGED left
                   /\ txn["page"] \in {"approve", "reject"}
          BY <4>1, DecidedTyped DEF Steps
        <4>2. CASE item' = [item EXCEPT !.fields = sent.fields] /\ UNCHANGED <<decisions, left>>
          BY <4>2, SavedTyped DEF ServerTyped
        <4>3. ASSUME NEW s \in left, item' = [item EXCEPT !.photos[s] = sent.edits[s]],
                     left' = left \ {s}, UNCHANGED decisions
              PROVE  /\ item' \in Items /\ left' \subseteq left
                     /\ decisions' \in Seq([by : {"page", "rival"}, what : Steps])
          <5>1. s \in CoinSides /\ sent.edits[s] # Keep  BY DEF ServerTyped, Left
          <5> QED BY <4>3, <5>1, PhotoSavedTyped DEF ServerTyped
        <4> QED BY <2>11, <4>1, <4>2, <4>3 DEF CommitDecision
      <3> QED BY <2>11, <3>1, <3>2 DEF CommitDecision, rival, ServerTyped, Left
    <2>12. ASSUME NEW t \in Contents, RivalCommits(t) PROVE Inv'
      <3>1. txn' \in [{"page", "rival"} -> {"none"} \cup Steps]
        BY <2>12 DEF RivalCommits, ServerTyped
      <3>2. item' \in Items /\ decisions' \in Seq([by : {"page", "rival"}, what : Steps])
        <4>1. CASE txn["rival"] = "fields"
          BY <2>12, <4>1, SavedTyped DEF RivalCommits, ServerTyped
        <4>2. CASE txn["rival"] # "fields"
          <5>1. Decide("rival", txn["rival"]) /\ txn["rival"] \in Steps
            BY <2>12, <4>2 DEF RivalCommits, ServerTyped
          <5> QED BY <5>1, DecidedTyped
        <4> QED BY <4>1, <4>2
      <3> QED BY <2>12, <3>1, <3>2 DEF RivalCommits, request, rival, ServerTyped, Left
    <2>13. CASE UNCHANGED proposalVars
      BY <2>1, <2>13 DEF proposalVars
    <2> QED BY <2>2, <2>4, <2>5, <2>6, <2>7, <2>8, <2>9, <2>10, <2>11, <2>12, <2>13
            DEF ProposalNext, Steps
  <1> QED BY <1>1, <1>2, PageKeepsType, PTL DEF ProposalSpec

\* The type of the state, for any contents, pictures, sides and requests.
THEOREM ProposalTyped == ProposalSpec => []ProposalTypeOK
  <1>1. PageTyped /\ ServerTyped => ProposalTypeOK
    <2> SUFFICES ASSUME PageTyped, ServerTyped PROVE ProposalTypeOK
      OBVIOUS
    <2>1. \A n \in DOMAIN decisions : decisions[n].by \in {"page", "rival"}
      <3> TAKE n \in DOMAIN decisions
      <3>1. decisions[n] \in [by : {"page", "rival"}, what : Steps]
        <4>1. decisions \in Seq([by : {"page", "rival"}, what : Steps])  BY DEF ServerTyped
        <4> HIDE DEF Steps
        <4>2. n \in 1..Len(decisions)  BY <4>1, LenProperties
        <4> QED BY <4>1, <4>2, ElementOfSeq
      <3> QED BY <3>1
    <2> QED BY <2>1 DEF PageTyped, ServerTyped, ProposalTypeOK, Steps
  <1> QED BY <1>1, PageKeepsType, ServerKeepsType, PTL

-----------------------------------------------------------------------------
(* One decision.                                                            *)

\* While no rival acts, a handler that decides is deciding a draft, and what
\* is a draft has not been decided.
Alone ==
    rivalSaves = 0 =>
      /\ txn["rival"] = "none"
      /\ txn["page"] \in {"approve", "reject", "photo"} => item.status = "draft"
      /\ item.status = "draft" => Len(decisions) = 0
      /\ Len(decisions) <= 1

\* A lost answer and a second press decide nothing twice (approve_item,
\* reject_item: they ask for a draft).
THEOREM DecidedOnceAlone == ProposalSpec => []OneDecision
  <1>1. ProposalInit => Alone
    <2> SUFFICES ASSUME ProposalInit PROVE Alone
      OBVIOUS
    <2>1. Len(decisions) = 0
      <3>1. decisions = <<>>  BY DEF ProposalInit
      <3> QED BY <3>1, EmptySeq
    <2>2. txn["page"] = "none" /\ txn["rival"] = "none"  BY DEF ProposalInit
    <2> QED BY <2>1, <2>2 DEF Alone
  <1>2. ServerTyped /\ Left /\ Alone /\ [ProposalNext]_proposalVars => Alone'
    <2> SUFFICES ASSUME ServerTyped, Left, Alone, [ProposalNext]_proposalVars, rivalSaves' = 0
                 PROVE  Alone'
      BY DEF Alone
    <2>1. ASSUME UNCHANGED <<server, rivalSaves>> PROVE Alone'
      BY <2>1 DEF server, Alone
    <2>2. CASE \/ Enlarge \/ AskToReject \/ CloseCrop \/ EscapeOverlay \/ LeaveCard \/ ComeBack
               \/ SaveCrop \/ DropBlurred \/ SaveAnyway
               \/ (\E t : EditProposal(t) \/ EditField(t))
               \/ (\E o : Close(o) \/ Encoded(o))
               \/ (\E s : RemovePhoto(s) \/ \E p : PickSidePhoto(s, p))
               \/ Approve \/ ConfirmReject \/ Submit \/ NextStep \/ FinishEdit
               \/ RequestFailed \/ Refuse \/ UNCHANGED proposalVars
      BY <2>1, <2>2 DEF Enlarge, AskToReject, CloseCrop, EscapeOverlay, LeaveCard, ComeBack,
           SaveCrop, DropBlurred, SaveAnyway, EditProposal, EditField, Close, Encoded,
           RemovePhoto, PickSidePhoto, Approve, ConfirmReject, Submit, NextStep, FinishEdit,
           RequestFailed, Refuse, proposalVars, rival
    <2>3. ASSUME NEW op \in Steps, Begin("page", op) PROVE Alone'
      <3>1. /\ txn' = [txn EXCEPT !["page"] = op]
            /\ op = "fields" \/ item.status = "draft"
            /\ UNCHANGED <<item, decisions, rivalSaves>>
        BY <2>3 DEF Begin, IsDraft, rival
      <3>2. txn'["page"] = op /\ txn'["rival"] = txn["rival"]  BY <3>1 DEF ServerTyped
      <3> QED BY <3>1, <3>2 DEF Alone
    <2>4. ASSUME NEW op \in Steps, Begin("rival", op) PROVE Alone'
      <3>1. rivalSaves' = rivalSaves + 1  BY <2>4 DEF Begin
      <3> QED BY <3>1 DEF ServerTyped
    <2>5. ASSUME NEW reply, CommitDecision(reply) PROVE Alone'
      <3>1. /\ txn'["page"] = "none" /\ txn'["rival"] = txn["rival"]
            /\ rivalSaves = 0
        BY <2>5 DEF CommitDecision, rival, ServerTyped
      <3>2. CASE Decide("page", txn["page"]) /\ txn["page"] \in {"approve", "reject"}
        <4>1. Len(decisions') = Len(decisions) + 1 /\ item'.status # "draft"
          BY <3>2, DecidedTyped DEF Steps
        <4>2. Len(decisions) = 0  BY <3>1, <3>2 DEF Alone
        <4> QED BY <3>1, <4>1, <4>2 DEF Alone
      <3>3. CASE item' = [item EXCEPT !.fields = sent.fields] /\ UNCHANGED decisions
        <4>1. item'.status = item.status  BY <3>3 DEF ServerTyped, Items
        <4> QED BY <3>1, <3>3, <4>1 DEF Alone
      <3>4. ASSUME NEW s \in left, item' = [item EXCEPT !.photos[s] = sent.edits[s]],
                   UNCHANGED decisions
            PROVE  Alone'
        <4>1. s \in CoinSides /\ sent.edits[s] # Keep  BY DEF ServerTyped, Left
        <4>2. item'.status = item.status  BY <3>4, <4>1, PhotoSavedTyped
        <4> QED BY <3>1, <3>4, <4>2 DEF Alone
      <3> QED BY <2>5, <3>2, <3>3, <3>4 DEF CommitDecision
    <2>6. ASSUME NEW t, RivalCommits(t) PROVE Alone'
      BY <2>6 DEF RivalCommits, Alone, rival
    <2> QED BY <2>2, <2>3, <2>4, <2>5, <2>6 DEF ProposalNext, Steps
  <1>3. Alone => OneDecision  BY DEF Alone, OneDecision
  <1> QED BY <1>1, <1>2, <1>3, ServerKeepsType, PTL DEF ProposalSpec

-----------------------------------------------------------------------------
(* Save and publish.                                                        *)

\* How far an edit of the page has come, while nobody else acts.
EditGoesOn ==
    /\ txn["page"] # "none" => answer = "none" /\ step = txn["page"]
    /\ underWay = "none" => step = "none"
    /\ underWay = "edit" => step \in {"fields", "photo", "approve"}
    /\ underWay = "edit" /\ ~rivalActed =>
         /\ txn["rival"] = "none"
         /\ step # "fields" \/ answer = "ok" => item.fields = sent.fields
         /\ \A s \in CoinSides \ left : sent.edits[s] # Keep => item.photos[s] = sent.edits[s]
         /\ step = "approve" => left = {}

\* What an undisturbed edit publishes is all that it changed (ProposalEditor:
\* fields, photos, then approval).
THEOREM EditPublishesWhole == ProposalSpec => PublishedWhole
  <1> DEFINE Whole ==
        underWay = "edit" /\ ~rivalActed /\ Len(decisions') > Len(decisions) =>
          /\ item'.fields = sent.fields
          /\ \A s \in CoinSides : sent.edits[s] # Keep => item'.photos[s] = sent.edits[s]
  <1>1. ProposalInit => EditGoesOn
    BY DEF ProposalInit, EditGoesOn
  <1>2. ServerTyped /\ Left /\ EditGoesOn /\ [ProposalNext]_proposalVars
          => EditGoesOn' /\ [Whole]_proposalVars
    <2> SUFFICES ASSUME ServerTyped, Left, EditGoesOn, [ProposalNext]_proposalVars
                 PROVE  EditGoesOn' /\ (Whole \/ UNCHANGED proposalVars)
      OBVIOUS
    <2>1. ASSUME UNCHANGED decisions PROVE Whole
      <3>1. ~(Len(decisions') > Len(decisions))  BY <2>1, LenProperties DEF ServerTyped
      <3> QED BY <3>1
    <2>2. ASSUME UNCHANGED <<server, request, rival>> PROVE EditGoesOn' /\ Whole
      BY <2>1, <2>2 DEF server, request, rival, EditGoesOn
    <2>3. CASE \/ Enlarge \/ AskToReject \/ CloseCrop \/ EscapeOverlay \/ LeaveCard \/ ComeBack
               \/ SaveCrop \/ DropBlurred \/ SaveAnyway
               \/ (\E t : EditProposal(t) \/ EditField(t))
               \/ (\E o : Close(o) \/ Encoded(o))
               \/ (\E s : RemovePhoto(s) \/ \E p : PickSidePhoto(s, p))
      BY <2>2, <2>3 DEF Enlarge, AskToReject, CloseCrop, EscapeOverlay, LeaveCard, ComeBack,
           SaveCrop, DropBlurred, SaveAnyway, EditProposal, EditField, Close, Encoded,
           RemovePhoto, PickSidePhoto
    <2>4. CASE Approve \/ ConfirmReject
      <3>1. underWay = "none" /\ underWay' \in {"approve", "reject"} /\ UNCHANGED server
        BY <2>4 DEF Approve, ConfirmReject, Send, Busy
      <3>2. txn["page"] = "none"  BY <3>1 DEF EditGoesOn, ServerTyped, Steps
      <3> QED BY <2>1, <3>1, <3>2 DEF server, EditGoesOn
    <2>5. CASE Submit
      <3>1. /\ underWay = "none" /\ underWay' = "edit" /\ UNCHANGED server
            /\ step' = "fields" /\ answer' = "none"
            /\ sent'.edits = photoEdits /\ left' = {s \in CoinSides : photoEdits[s] # Keep}
            /\ rivalActed' = (txn["rival"] # "none")
        BY <2>5 DEF Submit, Send, Busy
      <3>2. txn["page"] = "none"  BY <3>1 DEF EditGoesOn, ServerTyped, Steps
      <3> QED BY <2>1, <3>1, <3>2 DEF server, EditGoesOn
    <2>6. CASE NextStep
      <3>1. /\ underWay = "edit" /\ answer = "ok" /\ step # "approve" /\ answer' = "none"
            /\ step' = IF left = {} THEN "approve" ELSE "photo"
            /\ UNCHANGED <<item, decisions, txn, underWay, sent, left, rivalActed>>
        BY <2>6 DEF NextStep, server, rival
      <3>2. txn["page"] = "none"  BY <3>1 DEF EditGoesOn
      <3> QED BY <2>1, <3>1, <3>2 DEF EditGoesOn
    <2>7. CASE FinishEdit \/ RequestFailed
      <3>1. /\ answer # "none" /\ underWay' = "none" /\ step' = "none"
            /\ UNCHANGED <<decisions, txn>>
        BY <2>7 DEF FinishEdit, RequestFailed, server
      <3>2. txn["page"] = "none"  BY <3>1 DEF EditGoesOn
      <3> QED BY <2>1, <3>1, <3>2 DEF EditGoesOn
    <2>8. CASE Refuse
      <3>1. /\ txn["page"] = "none" /\ answer' = "refused"
            /\ UNCHANGED <<item, decisions, txn, underWay, sent, step, left, rivalActed>>
        BY <2>8 DEF Refuse, server, rival
      <3> QED BY <2>1, <3>1 DEF EditGoesOn
    <2>9. ASSUME NEW op \in Steps, Begin("page", op) PROVE EditGoesOn' /\ Whole
      <3>1. /\ op = PendingStep /\ txn' = [txn EXCEPT !["page"] = op]
            /\ UNCHANGED <<item, decisions, underWay, sent, step, left, answer, rivalActed>>
        BY <2>9 DEF Begin, rival, request
      <3>2. answer = "none" /\ step = op  BY <3>1 DEF PendingStep, Steps
      <3>3. txn'["page"] = op /\ txn'["rival"] = txn["rival"]  BY <3>1 DEF ServerTyped
      <3> QED BY <2>1, <3>1, <3>2, <3>3 DEF EditGoesOn
    <2>10. ASSUME NEW op \in Steps, Begin("rival", op) PROVE EditGoesOn' /\ Whole
      <3>1. /\ rivalActed' = TRUE /\ txn' = [txn EXCEPT !["rival"] = op]
            /\ UNCHANGED <<decisions, underWay, step, answer>>
        BY <2>10 DEF Begin, request
      <3>2. txn'["page"] = txn["page"]  BY <3>1 DEF ServerTyped
      <3> QED BY <2>1, <3>1, <3>2 DEF EditGoesOn
    <2>11. ASSUME NEW t, RivalCommits(t) PROVE EditGoesOn' /\ Whole
      <3>1. /\ txn["rival"] # "none" /\ txn' = [txn EXCEPT !["rival"] = "none"]
            /\ UNCHANGED <<underWay, step, answer, rivalActed>>
        BY <2>11 DEF RivalCommits, request, rival
      <3>2. txn'["page"] = txn["page"]  BY <3>1 DEF ServerTyped
      <3>3. ~(underWay = "edit" /\ ~rivalActed)  BY <3>1 DEF EditGoesOn
      <3> QED BY <3>1, <3>2, <3>3 DEF EditGoesOn
    <2>12. ASSUME NEW reply, CommitDecision(reply) PROVE EditGoesOn' /\ Whole
      <3>1. /\ txn["page"] # "none" /\ answer = "none" /\ step = txn["page"]
            /\ txn'["page"] = "none" /\ txn'["rival"] = txn["rival"]
            /\ UNCHANGED <<underWay, sent, step, rivalActed>>
        BY <2>12 DEF CommitDecision, rival, ServerTyped, EditGoesOn
      <3>2. CASE Decide("page", txn["page"]) /\ txn["page"] \in {"approve", "reject"}
                 /\ UNCHANGED left
        <4>1. item'.fields = item.fields /\ item'.photos = item.photos
          BY <3>2, DecidedTyped DEF Steps
        <4> QED BY <3>1, <3>2, <4>1 DEF EditGoesOn
      <3>3. CASE txn["page"] = "fields" /\ item' = [item EXCEPT !.fields = sent.fields]
                 /\ UNCHANGED <<decisions, left>>
        <4>1. item'.fields = sent.fields /\ item'.photos = item.photos
          BY <3>3 DEF ServerTyped, Items
        <4> QED BY <2>1, <3>1, <3>3, <4>1 DEF EditGoesOn
      <3>4. ASSUME txn["page"] = "photo", NEW s \in left,
                   item' = [item EXCEPT !.photos[s] = sent.edits[s]],
                   left' = left \ {s}, UNCHANGED decisions
            PROVE  EditGoesOn' /\ Whole
        <4>1. s \in CoinSides /\ sent.edits[s] # Keep  BY DEF ServerTyped, Left
        <4>2. item'.fields = item.fields /\ item'.photos = [item.photos EXCEPT ![s] = sent.edits[s]]
          BY <3>4, <4>1, PhotoSavedTyped
        <4>3. item.photos \in [CoinSides -> Pictures \cup {NoPicture}]
          BY DEF ServerTyped, Items, Photos
        <4>4. \A x \in CoinSides : item'.photos[x] = IF x = s THEN sent.edits[s] ELSE item.photos[x]
          BY <4>1, <4>2, <4>3
        <4> QED BY <2>1, <3>1, <3>4, <4>2, <4>4 DEF EditGoesOn
      <3> QED BY <2>12, <3>2, <3>3, <3>4 DEF CommitDecision
    <2>13. CASE UNCHANGED proposalVars
      BY <2>2, <2>13 DEF proposalVars
    <2> QED BY <2>3, <2>4, <2>5, <2>6, <2>7, <2>8, <2>9, <2>10, <2>11, <2>12, <2>13
            DEF ProposalNext, Steps
  <1> QED BY <1>1, <1>2, ServerKeepsType, PTL DEF ProposalSpec, PublishedWhole
HIDE ProposalsAssumption

-----------------------------------------------------------------------------
(*                             PHOTO SERVICES                               *)
-----------------------------------------------------------------------------
USE PhotosAssumption

-----------------------------------------------------------------------------
(* Type correctness.                                                        *)

\* Every stage of a request is a well-formed record.
LEMMA RequestTyped ==
  ASSUME NEW q \in Requests
  PROVE  /\ q.id \in 1..MaxRequests /\ q.id \in 0..MaxRequests /\ q.key \in Uploads
         /\ q.own \subseteq PhotoRows /\ q.gone \subseteq PhotoRows
         /\ q.seen \subseteq PhotoRows
         /\ [q EXCEPT !.stage = "put"] \in Requests
         /\ \A rows \in SUBSET PhotoRows :
              [q EXCEPT !.stage = "read", !.seen = rows] \in Requests
         /\ \A rows \in SUBSET PhotoRows :
              [q EXCEPT !.stage = "inserted", !.own = rows] \in Requests
         /\ \A row \in PhotoRows : [q EXCEPT !.gone = @ \cup {row}] \in Requests
         /\ \A a, b \in SUBSET PhotoRows :
              [q EXCEPT !.stage = "inserted", !.own = a, !.gone = b] \in Requests
  <1> USE DEF Requests
  <1>1. q.id \in 1..MaxRequests /\ q.key \in Uploads  OBVIOUS
  <1>2. q.id \in 0..MaxRequests  BY <1>1
  <1>3. /\ q.own \subseteq PhotoRows /\ q.gone \subseteq PhotoRows
        /\ q.seen \subseteq PhotoRows
    OBVIOUS
  <1>4. [q EXCEPT !.stage = "put"] \in Requests  OBVIOUS
  <1>5. ASSUME NEW rows \in SUBSET PhotoRows
        PROVE  /\ [q EXCEPT !.stage = "read", !.seen = rows] \in Requests
               /\ [q EXCEPT !.stage = "inserted", !.own = rows] \in Requests
    OBVIOUS
  <1>6. ASSUME NEW row \in PhotoRows PROVE [q EXCEPT !.gone = @ \cup {row}] \in Requests
    <2>1. q.gone \cup {row} \in SUBSET PhotoRows  BY <1>3
    <2> QED BY <2>1
  <1>7. ASSUME NEW a \in SUBSET PhotoRows, NEW b \in SUBSET PhotoRows
        PROVE  [q EXCEPT !.stage = "inserted", !.own = a, !.gone = b] \in Requests
    OBVIOUS
  <1> QED
    <2> HIDE DEF Requests
    <2> QED BY <1>1, <1>2, <1>3, <1>4, <1>5, <1>6, <1>7

LEMMA RowTyped ==
  ASSUME NEW n \in 0..MaxRequests, NEW k \in Uploads
  PROVE  [id |-> n, key |-> k] \in PhotoRows
  BY DEF PhotoRows

\* The type of the state, for any number of requests.
THEOREM PhotosTyped == PhotosSpec => []PhotosTypeOK
  <1>1. PhotosInit => PhotosTypeOK
    <2>1. 0 \in 0..MaxRequests  OBVIOUS
    <2> QED BY <2>1 DEF PhotosInit, PhotosTypeOK
  <1>2. PhotosTypeOK /\ [PhotosNext]_photoVars => PhotosTypeOK'
    <2> SUFFICES ASSUME PhotosTypeOK, [PhotosNext]_photoVars PROVE PhotosTypeOK'
      OBVIOUS
    <2>1. ASSUME NEW p \in Uploads, NEW op \in {"set", "remove"}, Arrives(op, p)
          PROVE  PhotosTypeOK'
      <3>1. made + 1 \in 1..MaxRequests /\ made' \in 0..MaxRequests
        BY <2>1 DEF Arrives, PhotosTypeOK
      <3>2. [id |-> made + 1, op |-> op, key |-> p, stage |-> "arrived", own |-> {},
             gone |-> {}, seen |-> IF service = "avatar" THEN slotRows ELSE {}] \in Requests
        BY <3>1 DEF PhotosTypeOK, Requests
      <3>3. mishaps' \subseteq Mishaps  BY <2>1 DEF Arrives, PhotosTypeOK, Mishaps
      <3> QED BY <2>1, <3>1, <3>2, <3>3 DEF Arrives, PhotosTypeOK
    <2>2. ASSUME NEW q \in requests,
                 \/ Rejected(q) \/ PutObject(q) \/ ReadPrevious(q) \/ ReadTwo(q)
                 \/ InsertRow(q) \/ (\E row \in PhotoRows : Retire(q, row))
                 \/ PointUser(q) \/ CommitPhoto(q) \/ Fails(q)
          PROVE  PhotosTypeOK'
      <3>1. q \in Requests  BY DEF PhotosTypeOK
      <3>2. CASE Rejected(q)
        BY <3>2 DEF Rejected, PhotosTypeOK
      <3>3. CASE PutObject(q)
        BY <3>3, <3>1, RequestTyped DEF PutObject, Becomes, PhotosTypeOK
      <3>4. CASE ReadPrevious(q)
        BY <3>4, <3>1, RequestTyped DEF ReadPrevious, Becomes, PhotosTypeOK
      <3>5. CASE ReadTwo(q)
        BY <3>5 DEF ReadTwo, PhotosTypeOK
      <3>6. CASE InsertRow(q)
        <4>1. (IF q.op = "set" THEN {[id |-> q.id, key |-> q.key]} ELSE {})
                \in SUBSET PhotoRows
          BY <3>1, RequestTyped, RowTyped
        <4> QED BY <3>6, <3>1, <4>1, RequestTyped DEF InsertRow, Becomes, PhotosTypeOK
      <3>7. ASSUME NEW row \in PhotoRows, Retire(q, row) PROVE PhotosTypeOK'
        BY <3>7, <3>1, RequestTyped DEF Retire, Becomes, PhotosTypeOK
      <3>8. CASE PointUser(q)
        <4> DEFINE now == IF q.op = "set" THEN {[id |-> 0, key |-> q.key]} ELSE {}
                   kept == IF Keys(q.seen) = Keys(now) THEN {}
                           ELSE {[id |-> 0, key |-> q.key]}
        <4>1. now \in SUBSET PhotoRows /\ kept \in SUBSET PhotoRows
          <5>1. 0 \in 0..MaxRequests  OBVIOUS
          <5> QED BY <5>1, <3>1, RequestTyped, RowTyped
        <4>2. [q EXCEPT !.stage = "inserted", !.own = now, !.gone = kept] \in Requests
          <5> HIDE DEF now, kept
          <5> QED BY <3>1, <4>1, RequestTyped
        <4>3. objects' \subseteq Uploads /\ requests' \subseteq Requests
          BY <3>8, <4>2 DEF PointUser, Becomes, PhotosTypeOK
        <4> QED BY <3>8, <4>3 DEF PointUser, PhotosTypeOK
      <3>9. CASE CommitPhoto(q)
        BY <3>9, <3>1, RequestTyped DEF CommitPhoto, PhotosTypeOK
      <3>10. CASE Fails(q)
        BY <3>10 DEF Fails, PhotosTypeOK, Mishaps
      <3> QED BY <2>2, <3>2, <3>3, <3>4, <3>5, <3>6, <3>7, <3>8, <3>9, <3>10
    <2>3. CASE UNCHANGED photoVars
      BY <2>3 DEF photoVars, PhotosTypeOK
    <2> QED BY <2>1, <2>2, <2>3 DEF PhotosNext
  <1> QED BY <1>1, <1>2, PTL DEF PhotosSpec

-----------------------------------------------------------------------------
(* A row never names a key that was never written.                          *)

\* What a request will commit, and what it has put, is written.
PutFirst ==
    /\ NeverUnwritten
    /\ \A q \in requests :
         /\ Keys(q.own) \subseteq written
         /\ q.op = "set" /\ q.stage # "arrived" => q.key \in written

\* The docstring of set_photo (collection_photos.py), for any interleaving of
\* any number of requests.
THEOREM NothingUnwritten == PhotosSpec => []NeverUnwritten
  <1>1. PhotosInit => PutFirst
    BY DEF PhotosInit, PutFirst, NeverUnwritten, Keys
  <1>2. PhotosTypeOK /\ PutFirst /\ [PhotosNext]_photoVars => PutFirst'
    <2> SUFFICES ASSUME PhotosTypeOK, PutFirst, [PhotosNext]_photoVars PROVE PutFirst'
      OBVIOUS
    <2>1. ASSUME NEW p \in Uploads, NEW op \in {"set", "remove"}, Arrives(op, p)
          PROVE  PutFirst'
      BY <2>1 DEF Arrives, PutFirst, NeverUnwritten, Keys
    <2>2. ASSUME NEW q \in requests,
                 \/ Rejected(q) \/ PutObject(q) \/ ReadPrevious(q) \/ ReadTwo(q)
                 \/ InsertRow(q) \/ (\E row \in PhotoRows : Retire(q, row))
                 \/ PointUser(q) \/ CommitPhoto(q) \/ Fails(q)
          PROVE  PutFirst'
      <3>1. q \in Requests  BY DEF PhotosTypeOK
      <3>2. CASE Rejected(q)
        BY <3>2 DEF Rejected, PutFirst, NeverUnwritten
      <3>3. CASE PutObject(q)
        BY <3>3, <3>1 DEF PutObject, Becomes, PutFirst, NeverUnwritten, Requests
      <3>4. CASE ReadPrevious(q)
        BY <3>4, <3>1 DEF ReadPrevious, Becomes, PutFirst, NeverUnwritten, Requests
      <3>5. CASE ReadTwo(q)
        BY <3>5 DEF ReadTwo, PutFirst, NeverUnwritten
      <3>6. CASE InsertRow(q)
        <4> DEFINE rows == IF q.op = "set" THEN {[id |-> q.id, key |-> q.key]} ELSE {}
        <4>1. requests' = (requests \ {q}) \cup
                            {[q EXCEPT !.stage = "inserted", !.own = rows]}
          BY <3>6 DEF InsertRow, Becomes
        <4>2. Keys(rows) \subseteq written /\ (q.op = "set" => q.key \in written)
          BY <3>6 DEF InsertRow, PutFirst, Keys
        <4> QED
          <5> HIDE DEF rows
          <5> QED BY <3>6, <3>1, <4>1, <4>2 DEF InsertRow, PutFirst, NeverUnwritten, Requests
      <3>7. ASSUME NEW row \in PhotoRows, Retire(q, row) PROVE PutFirst'
        BY <3>7, <3>1 DEF Retire, Becomes, PutFirst, NeverUnwritten, Requests
      <3>8. CASE PointUser(q)
        <4> DEFINE now == IF q.op = "set" THEN {[id |-> 0, key |-> q.key]} ELSE {}
        <4>1. \E rows :
                requests' = (requests \ {q}) \cup
                  {[q EXCEPT !.stage = "inserted", !.own = now, !.gone = rows]}
          BY <3>8 DEF PointUser, Becomes
        <4>2. Keys(now) \subseteq written
          BY <3>8 DEF PointUser, PutFirst, Keys
        <4>3. q.op = "set" => q.key \in written
          BY <3>8 DEF PointUser, PutFirst
        <4> QED
          <5> HIDE DEF now
          <5> QED BY <3>8, <3>1, <4>1, <4>2, <4>3
                  DEF PointUser, PutFirst, NeverUnwritten, Requests
      <3>9. CASE CommitPhoto(q)
        BY <3>9 DEF CommitPhoto, PutFirst, NeverUnwritten, Keys
      <3>10. CASE Fails(q)
        BY <3>10 DEF Fails, PutFirst, NeverUnwritten
      <3> QED BY <2>2, <3>2, <3>3, <3>4, <3>5, <3>6, <3>7, <3>8, <3>9, <3>10
    <2>3. CASE UNCHANGED photoVars
      BY <2>3 DEF photoVars, PutFirst, NeverUnwritten
    <2> QED BY <2>1, <2>2, <2>3 DEF PhotosNext
  <1>3. PutFirst => NeverUnwritten  BY DEF PutFirst
  <1> QED BY <1>1, <1>2, <1>3, PhotosTyped, PTL DEF PhotosSpec

-----------------------------------------------------------------------------
(* Requests that come one at a time leave one picture.                      *)

\* The store holds these keys, or fewer once the picture on show was uploaded again.
Holds(keys) == objects \subseteq keys /\ ("again" \notin mishaps => objects = keys)

\* What the store holds at each stage of the only request.
Midway(q) ==
    LET set == IF q.op = "set" THEN {q.key} ELSE {} IN
    /\ "again" \notin mishaps /\ service # "avatar" /\ q.op = "set"
         => q.key \notin Keys(slotRows)
    /\ service = "avatar" => q.seen = slotRows
    /\ q.stage = "arrived" => Holds(Keys(slotRows)) /\ q.gone = {}
    /\ q.stage = "put" => Holds(Keys(slotRows) \cup {q.key}) /\ q.gone = {}
    /\ q.stage = "read" =>
         /\ service # "avatar" /\ q.seen = slotRows /\ q.gone = {}
         /\ Holds(Keys(slotRows) \cup set)
    /\ q.stage = "inserted" =>
         /\ q.seen = slotRows
         /\ IF service = "avatar"
            THEN /\ Holds(Keys(q.own))
                 /\ q.gone = {} => Keys(slotRows) = Keys(q.own)
            ELSE /\ q.gone \subseteq slotRows
                 /\ Holds((Keys(slotRows) \ Keys(q.gone)) \cup set)
         /\ Keys(q.own) = set
         /\ q.own = {} \/ \E r \in PhotoRows : q.own = {r}

Calm ==
    mishaps \subseteq {"again"} =>
      /\ slotRows = {} \/ \E r \in PhotoRows : slotRows = {r}
      /\ requests = {} => Holds(Keys(slotRows))
      /\ requests = {} \/ \E q \in Requests : requests = {q} /\ Midway(q)

LEMMA KeysOf ==
  /\ Keys({}) = {}
  /\ \A r \in PhotoRows : Keys({r}) = {r.key} /\ r.key \in Uploads
  /\ \A n, k : Keys({[id |-> n, key |-> k]}) = {k}
  BY DEF Keys, PhotoRows

\* Requests one at a time that do not fail (set_photo, remove_photo and their
\* siblings of the three services): one row at most, and no file but its own.  Its
\* file is there unless the picture on show was uploaded again, an exception the
\* property names because the code then deletes it.
THEOREM OnePicture == PhotosSpec => []KeepsOnePicture
  <1>1. PhotosInit => Calm
    BY KeysOf DEF PhotosInit, Calm, Holds
  <1>2. PhotosTypeOK /\ Calm /\ [PhotosNext]_photoVars => Calm'
    <2> SUFFICES ASSUME PhotosTypeOK, Calm, [PhotosNext]_photoVars,
                        mishaps' \subseteq {"again"}
                 PROVE  Calm'
      BY DEF Calm
    <2>1. ASSUME NEW p \in Uploads, NEW op \in {"set", "remove"}, Arrives(op, p)
          PROVE  Calm'
      <3> DEFINE new == [id |-> made + 1, op |-> op, key |-> p, stage |-> "arrived",
                         own |-> {}, gone |-> {},
                         seen |-> IF service = "avatar" THEN slotRows ELSE {}]
      <3>1. /\ mishaps \subseteq mishaps' /\ mishaps \subseteq {"again"}
            /\ requests = {} /\ Holds(Keys(slotRows))
        BY <2>1 DEF Arrives, Calm
      <3>2. requests' = {new}  BY <2>1, <3>1 DEF Arrives
      <3>3. new \in Requests
        <4>1. made + 1 \in 1..MaxRequests  BY <2>1 DEF Arrives, PhotosTypeOK
        <4> QED BY <4>1 DEF PhotosTypeOK, Requests
      <3>4. Keys(slotRows)' = Keys(slotRows)  BY <2>1 DEF Arrives
      <3>5. "again" \notin mishaps' /\ service # "avatar" /\ op = "set" => p \notin Keys(slotRows)
        BY <2>1 DEF Arrives
      <3>6. ASSUME NEW q, q = new PROVE Midway(q)'
        BY <2>1, <3>1, <3>4, <3>5, <3>6 DEF Arrives, Midway, Holds
      <3>7. \E q \in Requests : q = new  BY <3>3
      <3> QED
        <4> HIDE DEF new
        <4> QED BY <2>1, <3>1, <3>2, <3>6, <3>7 DEF Arrives, Calm
    <2>2. ASSUME NEW q \in requests,
                 \/ Rejected(q) \/ PutObject(q) \/ ReadPrevious(q) \/ ReadTwo(q)
                 \/ InsertRow(q) \/ (\E row \in PhotoRows : Retire(q, row))
                 \/ PointUser(q) \/ CommitPhoto(q) \/ Fails(q)
          PROVE  Calm'
      <3>1. q \in Requests  BY DEF PhotosTypeOK
      <3>2. mishaps \subseteq {"again"} /\ (mishaps' = mishaps \/ Fails(q))
        BY <2>2 DEF Rejected, PutObject, ReadPrevious, ReadTwo, InsertRow, Retire,
                    PointUser, CommitPhoto, Fails
      <3>3. requests = {q} /\ Midway(q)  BY <3>2 DEF Calm
      <3>4. slotRows = {} \/ \E r \in PhotoRows : slotRows = {r}  BY <3>2 DEF Calm
      <3>5. ASSUME NEW changed \in Requests, Becomes(q, changed), Midway(changed)',
                   UNCHANGED slotRows
            PROVE  Calm'
        <4>1. requests' = {changed}  BY <3>3, <3>5 DEF Becomes
        <4> QED BY <3>4, <3>5, <4>1 DEF Calm
      <3>6. CASE Rejected(q)
        <4>1. requests' = {} /\ UNCHANGED <<slotRows, objects, mishaps>> /\ Holds(Keys(slotRows))
          BY <3>6, <3>3 DEF Rejected, Midway
        <4> QED BY <3>4, <4>1 DEF Calm, Keys, Holds
      <3>7. CASE PutObject(q)
        <4>1. Midway([q EXCEPT !.stage = "put"])'
          BY <3>7, <3>1, <3>3 DEF PutObject, Midway, Holds, Requests
        <4> QED BY <3>7, <3>1, <3>5, <4>1, RequestTyped DEF PutObject
      <3>8. CASE ReadPrevious(q)
        <4>1. Midway([q EXCEPT !.stage = "read", !.seen = slotRows])'
          BY <3>8, <3>1, <3>3 DEF ReadPrevious, Midway, Holds, Requests
        <4> QED BY <3>8, <3>1, <3>5, <4>1, RequestTyped DEF ReadPrevious, PhotosTypeOK
      <3>9. CASE ReadTwo(q)
        <4>1. Cardinality(slotRows) \in {0, 1}  BY <3>4, FS_EmptySet, FS_Singleton
        <4> QED BY <3>9, <4>1 DEF ReadTwo
      <3>10. CASE InsertRow(q)
        <4> DEFINE rows == IF q.op = "set" THEN {[id |-> q.id, key |-> q.key]} ELSE {}
        <4>1. rows \in SUBSET PhotoRows /\ (rows = {} \/ \E r \in PhotoRows : rows = {r})
          BY <3>1, RequestTyped, RowTyped
        <4>2. Keys(rows) = IF q.op = "set" THEN {q.key} ELSE {}
          BY KeysOf
        <4>3. Becomes(q, [q EXCEPT !.stage = "inserted", !.own = rows])
          BY <3>10 DEF InsertRow
        <4>4. Midway([q EXCEPT !.stage = "inserted", !.own = rows])'
          <5> HIDE DEF rows
          <5>1. q.stage = "read"  BY <3>10 DEF InsertRow
          <5> QED BY <3>10, <3>1, <3>3, <4>1, <4>2, <5>1, KeysOf
                  DEF InsertRow, Midway, Holds, Requests
        <4> HIDE DEF rows
        <4> QED BY <3>10, <3>1, <3>5, <4>1, <4>3, <4>4, RequestTyped DEF InsertRow
      <3>11. ASSUME NEW row \in PhotoRows, Retire(q, row) PROVE Calm'
        <4>1. slotRows = {row} /\ q.gone = {} /\ q.seen = slotRows
          BY <3>11, <3>3, <3>4 DEF Retire, Midway
        <4>2. objects' = objects \ {row.key} /\ Keys(slotRows) = {row.key}
          BY <3>11, <4>1, KeysOf DEF Retire
        <4>3. Midway([q EXCEPT !.gone = @ \cup {row}])'
          BY <3>11, <3>1, <3>3, <4>1, <4>2, KeysOf DEF Retire, Midway, Holds, Requests
        <4> QED BY <3>11, <3>1, <3>5, <4>3, RequestTyped DEF Retire
      <3>12. CASE PointUser(q)
        <4> DEFINE now == IF q.op = "set" THEN {[id |-> 0, key |-> q.key]} ELSE {}
                   kept == IF Keys(q.seen) = Keys(now) THEN {}
                           ELSE {[id |-> 0, key |-> q.key]}
                   next == [q EXCEPT !.stage = "inserted", !.own = now, !.gone = kept]
        <4>1. /\ now \in SUBSET PhotoRows /\ kept \in SUBSET PhotoRows
              /\ now = {} \/ \E r \in PhotoRows : now = {r}
          <5>1. 0 \in 0..MaxRequests  OBVIOUS
          <5> QED BY <5>1, <3>1, RequestTyped, RowTyped
        <4>2. Keys(now) = IF q.op = "set" THEN {q.key} ELSE {}
          BY KeysOf
        <4>3. kept = {} => Keys(q.seen) = Keys(now)  OBVIOUS
        <4>4. /\ Becomes(q, next) /\ objects' = objects \ (Keys(q.seen) \ Keys(now))
              /\ service = "avatar" /\ UNCHANGED <<service, slotRows, mishaps>>
              /\ q.stage = IF q.op = "set" THEN "put" ELSE "arrived"
          BY <3>12 DEF PointUser
        <4>5. q.seen = slotRows /\ Holds(Keys(now))'
          <5> HIDE DEF now, next
          <5> QED BY <3>3, <4>2, <4>4 DEF Midway, Holds
        <4>6. next \in Requests
          <5> HIDE DEF now, kept
          <5> QED BY <3>1, <4>1, RequestTyped
        <4>7. Keys(slotRows)' = Keys(slotRows)  BY <4>4
        <4>8. Midway(next)'
          <5> HIDE DEF now, kept
          <5>1. /\ next.stage = "inserted" /\ next.own = now /\ next.gone = kept
                /\ next.seen = q.seen /\ next.op = q.op /\ next.key = q.key
            BY <3>1 DEF Requests
          <5> HIDE DEF next
          <5> QED BY <4>1, <4>2, <4>3, <4>4, <4>5, <4>7, <5>1 DEF Midway
        <4> QED
          <5> HIDE DEF next
          <5> QED BY <3>5, <4>4, <4>6, <4>8
      <3>13. CASE CommitPhoto(q)
        <4>1. requests' = {} /\ objects' = objects /\ mishaps' = mishaps /\ q.stage = "inserted"
          BY <3>13, <3>3 DEF CommitPhoto, Done
        <4>2. CASE service = "avatar"
          <5>1. slotRows' = IF q.gone = {} THEN slotRows ELSE q.own
            BY <3>13, <4>2 DEF CommitPhoto
          <5> QED BY <3>3, <3>4, <4>1, <4>2, <5>1 DEF Midway, Calm, Keys, Holds
        <4>3. CASE service # "avatar"
          <5>1. q.gone = slotRows  BY <3>13, <3>3, <4>3 DEF CommitPhoto, Done, Midway
          <5>2. slotRows' = q.own  BY <3>13, <4>3, <5>1 DEF CommitPhoto
          <5>3. Holds(Keys(q.own))  BY <3>3, <4>1, <4>3, <5>1 DEF Midway, Holds
          <5> QED BY <3>3, <4>1, <4>3, <5>2, <5>3 DEF Midway, Calm, Keys, Holds
        <4> QED BY <4>2, <4>3
      <3>14. CASE Fails(q)
        BY <3>14 DEF Fails
      <3> QED BY <2>2, <3>6, <3>7, <3>8, <3>9, <3>10, <3>11, <3>12, <3>13, <3>14
    <2>3. CASE UNCHANGED photoVars
      BY <2>3 DEF photoVars, Calm, Midway, Keys, Holds
    <2> QED BY <2>1, <2>2, <2>3 DEF PhotosNext
  <1>3. Calm => KeepsOnePicture
    <2> SUFFICES ASSUME Calm, requests = {}, mishaps \subseteq {"again"}
                 PROVE  Cardinality(slotRows) <= 1 /\ Holds(Keys(slotRows))
      BY DEF KeepsOnePicture, Holds
    <2>1. slotRows = {} \/ \E r \in PhotoRows : slotRows = {r}  BY DEF Calm
    <2>2. Cardinality(slotRows) \in {0, 1}  BY <2>1, FS_EmptySet, FS_Singleton
    <2> QED BY <2>2 DEF Calm
  <1> QED BY <1>1, <1>2, <1>3, PhotosTyped, PTL DEF PhotosSpec
HIDE PhotosAssumption

-----------------------------------------------------------------------------
(*                        PHOTOS ON A PURCHASE'S PAGE                       *)
-----------------------------------------------------------------------------

\* A file that was sent
Sent(shot) == \E k \in DOMAIN posted : posted[k][1] = shot

\* What the page can still send: the file in the crop dialog, for the side of
\* the picker, and each file that is being encoded, for the side it was chosen
\* for.  None of them was sent, no file is encoded twice at once, and one that
\* is about to be sent blurred is not being encoded.
Sendable ==
    /\ choosing => framed = NoFile /\ face \in Faces
    /\ framed # NoFile => /\ framed \in 1..chosen /\ face = pickedFor[framed]
                          /\ ~ Sent(framed)
    /\ warned => framed # NoFile /\ \A e \in encodes : e.shot # framed
    /\ \A e \in encodes : /\ e.shot \in 1..chosen /\ e.face = pickedFor[e.shot]
                          /\ ~ Sent(e.shot)
    /\ \A e, d \in encodes : e.shot = d.shot => e = d

\* What was sent was chosen before.
SentWasChosen ==
    /\ posted \in Seq(Files \X Faces)
    /\ \A k \in DOMAIN posted : posted[k][1] \in 1..chosen

\* The type of the picker and the crop dialog, and that of the rest
CropTyped ==
    /\ face \in Faces \cup {"none"} /\ choosing \in BOOLEAN
    /\ framed \in 0..MaxPicks /\ warned \in BOOLEAN /\ chosen \in 0..MaxPicks
    /\ encodes \subseteq [n : 1..MaxEncodes, shot : Files, face : Faces]
    /\ encoded \in 0..MaxEncodes
    /\ pickedFor \in Seq(Faces) /\ Len(pickedFor) = chosen

RestTyped ==
    /\ removals \in 0..MaxRemovals
    /\ savingSide \in Faces \cup {"none"}
    /\ \A p \in posts : p \in Posts
    /\ answers \in BothFaces \cup {<<>>}
    /\ ownership \in [Faces -> {"as loaded", "own", "not own"}]
    /\ loaded \in BothFaces /\ store \in BothFaces
    /\ \A k \in DOMAIN posted : posted[k] \in Files \X Faces
    /\ lost \in BOOLEAN

LEMMA CoinPhotosTypeParts == CoinPhotosTypeOK <=> CropTyped /\ RestTyped
  BY DEF CoinPhotosTypeOK, CropTyped, RestTyped

CoinPhotosInv == CropTyped /\ RestTyped /\ Sendable /\ SentWasChosen /\ SentAsPicked

\* What sending adds to the list.
LEMMA PostedFacts ==
  ASSUME CoinPhotosInv, NEW f \in Faces, NEW shot \in 1..chosen,
         ~ Sent(shot), f = pickedFor[shot], posted' = Append(posted, <<shot, f>>),
         UNCHANGED <<chosen, pickedFor>>
  PROVE  /\ SentWasChosen' /\ SentAsPicked'
         /\ \A k \in DOMAIN posted' : posted'[k] \in Files \X Faces
         /\ \A other : Sent(other)' <=> Sent(other) \/ other = shot
  <1>1. /\ posted \in Seq(Files \X Faces) /\ chosen \in 0..MaxPicks
        /\ MaxPicks \in Nat
    BY CoinPhotosAssumption DEF CoinPhotosInv, SentWasChosen, CropTyped, RestTyped
  <1>2. <<shot, f>> \in Files \X Faces  BY <1>1 DEF Files
  <1>3. /\ posted' \in Seq(Files \X Faces)
        /\ DOMAIN posted' = DOMAIN posted \cup {Len(posted) + 1}
        /\ Len(posted) + 1 \notin DOMAIN posted
        /\ posted'[Len(posted) + 1] = <<shot, f>>
        /\ \A k \in DOMAIN posted : posted'[k] = posted[k]
    BY <1>1, <1>2
  <1>4. SentWasChosen'  BY <1>3 DEF CoinPhotosInv, SentWasChosen
  <1>5. SentAsPicked'
    <2>1. ASSUME NEW k \in DOMAIN posted' PROVE posted'[k][2] = pickedFor[posted'[k][1]]
      BY <1>3, <2>1 DEF CoinPhotosInv, SentAsPicked
    <2>2. ASSUME NEW k \in DOMAIN posted', NEW l \in DOMAIN posted',
                 posted'[l][1] = posted'[k][1]
          PROVE  l = k
      BY <1>3, <2>2 DEF CoinPhotosInv, SentAsPicked, Sent
    <2> QED BY <2>1, <2>2 DEF SentAsPicked
  <1>6. \A k \in DOMAIN posted' : posted'[k] \in Files \X Faces  BY <1>3
  <1>7. \A other : Sent(other)' <=> Sent(other) \/ other = shot  BY <1>3 DEF Sent
  <1> QED BY <1>4, <1>5, <1>6, <1>7

\* Sending a picture keeps everything but the encodings, which lose one that
\* was of no other file, or none.
LEMMA PostFacts ==
  ASSUME CoinPhotosInv, NEW f \in Faces, NEW shot \in 1..chosen,
         ~ Sent(shot), f = pickedFor[shot], PostPhoto(f, shot),
         encodes' \subseteq encodes, \A e \in encodes' : e.shot # shot
  PROVE  CoinPhotosInv'
  <1> USE CoinPhotosAssumption DEF CoinPhotosInv
  <1>1. /\ SentWasChosen' /\ SentAsPicked'
        /\ \A k \in DOMAIN posted' : posted'[k] \in Files \X Faces
        /\ \A other : Sent(other)' <=> Sent(other) \/ other = shot
    BY PostedFacts DEF PostPhoto
  <1>2. shot \in Shots /\ Len(posted) + 1 \in Nat
    <2>1. chosen \in 0..MaxPicks  BY DEF CropTyped
    <2>2. shot \in Files /\ Files \subseteq Shots  BY <2>1 DEF Shots, Files
    <2>3. Len(posted) \in Nat  BY DEF SentWasChosen
    <2> QED BY <2>2, <2>3
  <1>3. [n |-> Len(posted) + 1, what |-> "put", face |-> f, shot |-> shot,
         done |-> FALSE, both |-> store] \in Posts
    BY <1>2 DEF Posts, CropTyped, RestTyped
  <1>4. \A p \in posts' : p \in Posts
    BY <1>3 DEF PostPhoto, CropTyped, RestTyped
  <1>5. CropTyped' /\ RestTyped'
    <2>1. framed' \in 0..MaxPicks /\ savingSide' \in Faces \cup {"none"}
      BY DEF PostPhoto, NoFile
    <2> QED BY <1>1, <1>4, <2>1 DEF PostPhoto, CropTyped, RestTyped
  <1>6. Sendable'
    BY <1>1 DEF PostPhoto, Sendable
  <1> QED BY <1>1, <1>5, <1>6

LEMMA CoinPhotosInvariant == CoinPhotosSpec => []CoinPhotosInv
  <1> USE CoinPhotosAssumption
  <1>1. CoinPhotosInit => CoinPhotosInv
    <2> SUFFICES ASSUME CoinPhotosInit PROVE CoinPhotosInv
      OBVIOUS
    <2>1. loaded \in BothFaces
      BY DEF CoinPhotosInit, BothFaces, Shots
    <2>2. [f \in Faces |-> "as loaded"] \in [Faces -> {"as loaded", "own", "not own"}]
      OBVIOUS
    <2>3. /\ << >> \in Seq(Faces) /\ Len(<< >>) = 0 /\ DOMAIN << >> = {}
          /\ << >> \in Seq(Files \X Faces)
      OBVIOUS
    <2>4. 0 \in 0..MaxPicks /\ 0 \in 0..MaxEncodes /\ 0 \in 0..MaxRemovals
      OBVIOUS
    <2>5. CropTyped /\ RestTyped
      BY <2>1, <2>2, <2>3, <2>4 DEF CoinPhotosInit, CropTyped, RestTyped, NoFile
    <2>6. SentWasChosen /\ SentAsPicked
      BY <2>3 DEF CoinPhotosInit, SentWasChosen, SentAsPicked
    <2>7. Sendable
      BY DEF CoinPhotosInit, Sendable
    <2> QED BY <2>5, <2>6, <2>7 DEF CoinPhotosInv
  <1>2. CoinPhotosInv /\ [CoinPhotosNext]_coinPhotoVars => CoinPhotosInv'
    <2> SUFFICES ASSUME CoinPhotosInv, [CoinPhotosNext]_coinPhotoVars PROVE CoinPhotosInv'
      OBVIOUS
    <2> USE DEF CoinPhotosInv
    <2> DEFINE KeepsSent == UNCHANGED <<posted, chosen, pickedFor>>
    <2>1. CropTyped /\ RestTyped /\ Sendable /\ SentWasChosen /\ SentAsPicked
      OBVIOUS
    <2>2. KeepsSent => /\ SentWasChosen' /\ SentAsPicked'
                       /\ \A shot : Sent(shot)' = Sent(shot)
      BY DEF SentWasChosen, SentAsPicked, Sent
    <2>3. ASSUME NEW f \in Faces, PickFace(f) PROVE CoinPhotosInv'
      <3>1. CropTyped' /\ RestTyped'  BY <2>1, <2>3 DEF PickFace, CropTyped, RestTyped, photoPageVars
      <3>2. Sendable'  BY <2>1, <2>2, <2>3 DEF PickFace, PageFree, Sendable
      <3> QED BY <2>2, <2>3, <3>1, <3>2 DEF PickFace
    <2>4. CASE FileChosen
      <3>1. /\ pickedFor \in Seq(Faces) /\ face \in Faces /\ chosen = Len(pickedFor)
            /\ chosen \in 0..MaxPicks /\ chosen < MaxPicks
        BY <2>1, <2>4 DEF FileChosen, CropTyped, RestTyped, Sendable
      <3>2. /\ pickedFor' \in Seq(Faces) /\ Len(pickedFor') = chosen'
            /\ pickedFor'[chosen + 1] = face
            /\ \A k \in 1..chosen : pickedFor'[k] = pickedFor[k]
            /\ chosen' = chosen + 1 /\ chosen' \in 1..MaxPicks
        BY <3>1, <2>4 DEF FileChosen
      <3>3. CropTyped' /\ RestTyped'
        <4>1. framed' \in 0..MaxPicks /\ chosen' \in 0..MaxPicks  BY <2>4, <3>2 DEF FileChosen
        <4>2. CropTyped'  BY <2>1, <2>4, <3>2, <4>1 DEF FileChosen, CropTyped
        <4> QED BY <2>1, <2>4, <4>2 DEF FileChosen, RestTyped, photoPageVars
      <3>4. \A shot : Sent(shot)' = Sent(shot)  BY <2>4 DEF FileChosen, Sent
      <3>5. ~ Sent(chosen + 1)  BY <3>1, <2>1 DEF Sent, SentWasChosen
      <3>6. Sendable'
        BY <2>1, <2>4, <3>1, <3>2, <3>4, <3>5 DEF FileChosen, Sendable
      <3>7. SentWasChosen' /\ SentAsPicked'
        BY <2>1, <2>4, <3>1, <3>2 DEF FileChosen, SentWasChosen, SentAsPicked
      <3> QED BY <3>3, <3>6, <3>7
    <2>5. CASE NoFileChosen
      <3>1. CropTyped' /\ RestTyped'  BY <2>1, <2>5 DEF NoFileChosen, CropTyped, RestTyped, photoPageVars
      <3>2. Sendable'  BY <2>1, <2>2, <2>5 DEF NoFileChosen, Sendable
      <3> QED BY <2>2, <2>5, <3>1, <3>2 DEF NoFileChosen
    <2>6. CASE CancelFraming
      <3>1. CropTyped' /\ RestTyped'
        <4>1. framed' \in 0..MaxPicks  BY <2>6 DEF CancelFraming, NoFile
        <4>2. CropTyped'  BY <2>1, <2>6, <4>1 DEF CancelFraming, CropTyped
        <4> QED BY <2>1, <2>6, <4>2 DEF CancelFraming, RestTyped, photoPageVars
      <3>2. Sendable'  BY <2>1, <2>2, <2>6 DEF CancelFraming, Sendable
      <3> QED BY <2>2, <2>6, <3>1, <3>2 DEF CancelFraming
    <2>7. CASE SaveFraming
      <3>1. [n |-> encoded + 1, shot |-> framed, face |-> face]
              \in [n : 1..MaxEncodes, shot : Files, face : Faces]
        <4>1. /\ framed \in 1..chosen /\ face = pickedFor[framed] /\ chosen \in 0..MaxPicks
              /\ pickedFor \in Seq(Faces) /\ Len(pickedFor) = chosen
          BY <2>1, <2>7 DEF SaveFraming, CropTyped, Sendable
        <4>2. framed \in Files /\ face \in Faces  BY <4>1 DEF Files
        <4>3. encoded + 1 \in 1..MaxEncodes  BY <2>1, <2>7 DEF SaveFraming, CropTyped
        <4> QED BY <4>2, <4>3
      <3>2. CropTyped' /\ RestTyped'
        <4>1. encoded' \in 0..MaxEncodes  BY <2>1, <2>7 DEF SaveFraming, CropTyped
        <4>2. CropTyped'  BY <2>1, <2>7, <3>1, <4>1 DEF SaveFraming, CropTyped
        <4> QED BY <2>1, <2>7, <4>2 DEF SaveFraming, RestTyped, photoPageVars
      <3>3. Sendable'  BY <2>1, <2>2, <2>7 DEF SaveFraming, Encoding, Sendable
      <3> QED BY <2>2, <2>7, <3>2, <3>3 DEF SaveFraming
    <2>8. ASSUME NEW e \in encodes, EncodedSharp(e) PROVE CoinPhotosInv'
      <3>1. /\ e.face \in Faces /\ e.shot \in 1..chosen /\ ~ Sent(e.shot)
            /\ e.face = pickedFor[e.shot] /\ PostPhoto(e.face, e.shot)
            /\ encodes' = encodes \ {e}
        BY <2>1, <2>8 DEF EncodedSharp, SideOfPost, Sendable, CropTyped, RestTyped
      <3>2. \A d \in encodes' : d.shot # e.shot  BY <2>1, <3>1 DEF Sendable
      <3> QED BY <3>1, <3>2, PostFacts
    <2>9. ASSUME NEW e \in encodes, EncodedInVain(e) PROVE CoinPhotosInv'
      <3>1. CropTyped' /\ RestTyped'
        BY <2>1, <2>9 DEF EncodedInVain, CropTyped, RestTyped, photoPageVars
      <3>2. e.shot # NoFile  BY <2>1 DEF Sendable, NoFile
      <3>3. warned' => framed # NoFile /\ \A d \in encodes' : d.shot # framed
        BY <2>1, <2>9, <3>2 DEF EncodedInVain, Sendable
      <3>4. Sendable'  BY <2>1, <2>2, <2>9, <3>3 DEF EncodedInVain, Sendable
      <3> QED BY <2>2, <2>9, <3>1, <3>4 DEF EncodedInVain
    <2>10. CASE SaveBlurred
      <3>1. /\ framed \in 1..chosen /\ ~ Sent(framed) /\ face = pickedFor[framed]
            /\ PostPhoto(face, framed) /\ encodes' = encodes
            /\ \A d \in encodes : d.shot # framed
        BY <2>1, <2>10 DEF SaveBlurred, Sendable
      <3>2. pickedFor \in Seq(Faces) /\ Len(pickedFor) = chosen  BY <2>1 DEF CropTyped
      <3>3. face \in Faces  BY <3>1, <3>2
      <3> QED BY <3>1, <3>3, PostFacts
    <2>11. CASE DropWarning
      <3>1. CropTyped' /\ RestTyped'  BY <2>1, <2>11 DEF DropWarning, CropTyped, RestTyped, photoPageVars
      <3>2. Sendable'  BY <2>1, <2>2, <2>11 DEF DropWarning, Sendable
      <3> QED BY <2>2, <2>11, <3>1, <3>2 DEF DropWarning
    <2>12. ASSUME NEW f \in Faces, RemoveFace(f) PROVE CoinPhotosInv'
      <3>1. [n |-> removals + 1, what |-> "delete", face |-> f, shot |-> NoFile,
             done |-> FALSE, both |-> store] \in Posts
        <4>1. removals \in 0..MaxRemovals /\ store \in BothFaces  BY <2>1 DEF RestTyped
        <4>2. NoFile \in Shots  BY DEF Shots
        <4> QED BY <4>1, <4>2 DEF Posts
      <3>2. CropTyped' /\ RestTyped'
        <4>1. removals' \in 0..MaxRemovals
          <5>1. removals \in 0..MaxRemovals  BY <2>1 DEF RestTyped
          <5> QED BY <2>12, <5>1 DEF RemoveFace
        <4>2. \A p \in posts' : p \in Posts  BY <2>1, <2>12, <3>1 DEF RemoveFace, RestTyped
        <4>3. RestTyped'  BY <2>1, <2>12, <4>1, <4>2 DEF RemoveFace, RestTyped
        <4> QED BY <2>1, <2>12, <4>3 DEF RemoveFace, CropTyped, cropVars
      <3>3. Sendable'  BY <2>1, <2>2, <2>12 DEF RemoveFace, Sendable, cropVars
      <3> QED BY <2>2, <2>12, <3>2, <3>3 DEF RemoveFace, cropVars
    <2>13. ASSUME NEW p \in posts, StorePhoto(p) \/ PhotoAnswered(p) \/ PhotoRefused(p)
           PROVE  CoinPhotosInv'
      <3>1. p \in Posts  BY <2>1 DEF CropTyped, RestTyped
      <3>2. CropTyped' /\ RestTyped'
        <4>1. CASE StorePhoto(p)
          <5>1. store' \in BothFaces
            BY <2>1, <3>1, <4>1 DEF StorePhoto, CropTyped, RestTyped, BothFaces, Posts
          <5>2. [p EXCEPT !.done = TRUE, !.both = store'] \in Posts
            BY <3>1, <5>1 DEF Posts
          <5> QED BY <2>1, <4>1, <5>1, <5>2
                  DEF StorePhoto, CropTyped, RestTyped, cropVars, photoPageVars
        <4>2. CASE PhotoAnswered(p)
          <5>1. p.both \in BothFaces /\ p.face \in Faces  BY <3>1 DEF Posts
          <5> QED BY <2>1, <4>2, <5>1 DEF PhotoAnswered, CropTyped, RestTyped, cropVars
        <4>3. CASE PhotoRefused(p)
          BY <2>1, <4>3 DEF PhotoRefused, CropTyped, RestTyped, cropVars
        <4> QED BY <2>13, <4>1, <4>2, <4>3
      <3>3. UNCHANGED <<cropVars, posted>>
        BY <2>13 DEF StorePhoto, PhotoAnswered, PhotoRefused
      <3>4. Sendable'  BY <2>1, <2>2, <3>3 DEF Sendable, cropVars
      <3> QED BY <2>2, <3>2, <3>3, <3>4 DEF cropVars
    <2>14. CASE UNCHANGED coinPhotoVars
      <3>1. CropTyped' /\ RestTyped'
        BY <2>1, <2>14 DEF CropTyped, RestTyped, coinPhotoVars, cropVars, photoPageVars
      <3>2. Sendable'  BY <2>1, <2>2, <2>14 DEF Sendable, coinPhotoVars, cropVars
      <3> QED BY <2>2, <2>14, <3>1, <3>2 DEF coinPhotoVars, cropVars
    <2> QED BY <2>3, <2>4, <2>5, <2>6, <2>7, <2>8, <2>9, <2>10, <2>11, <2>12, <2>13, <2>14
            DEF CoinPhotosNext
  <1> QED BY <1>1, <1>2, PTL DEF CoinPhotosSpec

\* For any number of files, encodings and removals, the page keeps its type
\* (useCoinPhotoPicker, CropDialog and the photo mutations of PurchaseFormPage).
THEOREM CoinPhotosTyped == CoinPhotosSpec => []CoinPhotosTypeOK
  <1>1. CoinPhotosInv => CoinPhotosTypeOK  BY CoinPhotosTypeParts DEF CoinPhotosInv
  <1> QED BY <1>1, CoinPhotosInvariant, PTL

\* Each file that is sent goes once, to the side it was chosen for, whatever is
\* cancelled, picked or answered meanwhile (onCropSave, CropDialog's save).
THEOREM FilesSentAsPicked == CoinPhotosSpec => []SentAsPicked
  <1>1. CoinPhotosInv => SentAsPicked  BY DEF CoinPhotosInv
  <1> QED BY <1>1, CoinPhotosInvariant, PTL

-----------------------------------------------------------------------------
(*                               THE LISTINGS                               *)
-----------------------------------------------------------------------------

USE HomeAssumption, TextAssumption, PagesAssumption

Ungrouped == {"catalog", "collection", "expenses"}

FieldsOf == {"q", "countries", "series", "rest", "sort", "page", "view"}

\* What a control may change.
IsChange(c) ==
  /\ DOMAIN c \subseteq FieldsOf
  /\ "q" \in DOMAIN c => c["q"] \in Texts
  /\ "countries" \in DOMAIN c => c["countries"] \in SUBSET Countries
  /\ "series" \in DOMAIN c => c["series"] \in SUBSET Series
  /\ "rest" \in DOMAIN c => c["rest"] \in BOOLEAN
  /\ "sort" \in DOMAIN c => c["sort"] \in BOOLEAN
  /\ "page" \in DOMAIN c => c["page"] \in 1..MaxPages
  /\ "view" \in DOMAIN c => c["view"] \in {"cards", "table"}

\* Every series applied belongs to the one country applied, if there is one.
Fits(f) == \A s \in f.series : Belongs(s, f)

LEMMA DefaultTyped == Default \in Filters /\ DOMAIN Default = FieldsOf /\ Fits(Default)
  BY DEF Default, Filters, FieldsOf, Fits

LEMMA FilterFields ==
  ASSUME NEW f \in Filters
  PROVE  DOMAIN f = FieldsOf /\ f = [x \in FieldsOf |-> f[x]]
  BY DEF Filters, FieldsOf

LEMMA WithTyped ==
  ASSUME NEW f \in Filters, NEW c, IsChange(c)
  PROVE  /\ With(f, c) \in Filters
         /\ \A x \in FieldsOf : With(f, c)[x] = IF x \in DOMAIN c THEN c[x] ELSE f[x]
  <1>1. DOMAIN f = FieldsOf  BY FilterFields
  <1>2. With(f, c) = [x \in FieldsOf |-> IF x \in DOMAIN c THEN c[x] ELSE f[x]]
    BY <1>1 DEF With, IsChange
  <1>3. With(f, c) = [q |-> With(f, c)["q"], countries |-> With(f, c)["countries"],
                      series |-> With(f, c)["series"], rest |-> With(f, c)["rest"],
                      sort |-> With(f, c)["sort"], page |-> With(f, c)["page"],
                      view |-> With(f, c)["view"]]
    BY <1>2 DEF FieldsOf
  <1>4. /\ With(f, c)["q"] \in Texts /\ With(f, c)["countries"] \in SUBSET Countries
        /\ With(f, c)["series"] \in SUBSET Series /\ With(f, c)["rest"] \in BOOLEAN
        /\ With(f, c)["sort"] \in BOOLEAN /\ With(f, c)["page"] \in 1..MaxPages
        /\ With(f, c)["view"] \in {"cards", "table"}
    BY <1>2 DEF FieldsOf, IsChange, Filters
  <1>5. With(f, c) \in Filters  BY <1>3, <1>4 DEF Filters
  <1> QED BY <1>2, <1>5

LEMMA ParseSerialize ==
  ASSUME NEW f \in Filters
  PROVE  Parse(Serialize(f)) = f
  <1>1. DOMAIN f = DOMAIN Default /\ f = [x \in DOMAIN f |-> f[x]]
    BY FilterFields, DefaultTyped
  <1> QED BY <1>1 DEF Parse, Serialize, With

\* What the address says after a change.
LEMMA UpdateIs ==
  ASSUME shown \in Filters, screen \in Screens, NEW c, IsChange(c)
  PROVE  \E h \in Filters :
           /\ Update(c) = Serialize(h)
           /\ \A x \in FieldsOf \ {"page", "series"} : h[x] = IF x \in DOMAIN c THEN c[x] ELSE shown[x]
           /\ h["page"] = IF "page" \in DOMAIN c THEN c["page"]
                          ELSE IF screen \in Ungrouped THEN 1 ELSE shown["page"]
           /\ h["series"] = IF "series" \in DOMAIN c THEN c["series"]
                            ELSE IF screen = "collection" /\ "countries" \in DOMAIN c THEN {}
                            ELSE shown["series"]
  <1> DEFINE base == IF "page" \in DOMAIN c THEN shown ELSE FirstPage(shown)
  <1>1. FirstPage(shown) \in Filters /\ FirstPage(shown)["page"] = 1
        /\ \A x \in FieldsOf \ {"page"} : FirstPage(shown)[x] = shown[x]
    BY FilterFields DEF FirstPage, Filters
  <1>2. /\ With(shown, c) \in Filters
        /\ \A x \in FieldsOf : With(shown, c)[x] = IF x \in DOMAIN c THEN c[x] ELSE shown[x]
    BY WithTyped
  <1>3. base \in Filters  BY <1>1
  <1>4. /\ With(base, c) \in Filters
        /\ \A x \in FieldsOf : With(base, c)[x] = IF x \in DOMAIN c THEN c[x] ELSE base[x]
    <2> HIDE DEF base
    <2> QED BY <1>3, WithTyped
  <1>5. "page" \in FieldsOf /\ "series" \in FieldsOf /\ "countries" \in FieldsOf  BY DEF FieldsOf
  <1>6. CASE screen \in {"completeness", "group"}
    <2>1. Update(c) = Serialize(With(shown, c))
      BY <1>6 DEF Update, CompletenessUpdate, GroupUpdate
    <2>2. screen \notin Ungrouped /\ screen # "collection"  BY <1>6 DEF Ungrouped
    <2> QED BY <1>2, <1>5, <2>1, <2>2
  <1>7. CASE screen \in {"catalog", "expenses"} \/ (screen = "collection" /\ ("countries" \notin DOMAIN c \/ "series" \in DOMAIN c))
    <2>1. Update(c) = Serialize(With(base, c))
      BY <1>7 DEF Update, CatalogUpdate, CollectionUpdate, SetFilter
    <2>2. screen \in Ungrouped  BY <1>7 DEF Ungrouped
    <2> QED BY <1>1, <1>4, <1>5, <1>7, <2>1, <2>2
  <1>8. CASE screen = "collection" /\ "countries" \in DOMAIN c /\ "series" \notin DOMAIN c
    <2> DEFINE d == With([series |-> {}], c)
    <2>1. DOMAIN d = DOMAIN c \union {"series"} /\ d["series"] = {}
          /\ \A x \in DOMAIN c : d[x] = c[x]
      BY <1>8 DEF With
    <2>2. Update(c) = Serialize(With(IF "page" \in DOMAIN d THEN shown ELSE FirstPage(shown), d))
      BY <1>8 DEF Update, CatalogUpdate, CollectionUpdate
    <2> HIDE DEF d
    <2>3. IsChange(d)  BY <1>5, <2>1 DEF IsChange
    <2>4. Update(c) = Serialize(With(base, d))  BY <2>1, <2>2
    <2>5. /\ With(base, d) \in Filters
          /\ \A x \in FieldsOf : With(base, d)[x] = IF x \in DOMAIN d THEN d[x] ELSE base[x]
      <3> HIDE DEF base
      <3> QED BY <1>3, <2>3, WithTyped
    <2>6. screen \in Ungrouped  BY <1>8 DEF Ungrouped
    <2> QED BY <1>1, <1>5, <1>8, <2>1, <2>4, <2>5, <2>6
  <1> QED BY <1>6, <1>7, <1>8 DEF Screens

-----------------------------------------------------------------------------
(* The invariant.                                                           *)

\* A bar has no drawer, and only the catalog and the collection have one.
DrawersHere ==
  /\ device = "desktop" => draft = Closed
  /\ draft # Closed => screen \in Panelled

\* Filters f of the page on show: those without a panel know no series, those of
\* the groups no page.
OfScreen(f) ==
  /\ screen \notin Panelled => f.series = {}
  /\ screen \notin Ungrouped => f.page = 1

\* On a desktop.
BarKept == Fits(shown) /\ Fits(Parse(url)) /\ (Parse(url).page = 1 \/ Same(Parse(url), shown))

ListInv ==
  /\ TypeOK /\ DrawersHere
  /\ OfScreen(shown) /\ OfScreen(Parse(url))
  /\ device = "desktop" => BarKept

LEMMA FiltersEqual ==
  ASSUME NEW f \in Filters, NEW g \in Filters,
         f.q = g.q, f.countries = g.countries, f.series = g.series, f.rest = g.rest, f.sort = g.sort,
         f.page = g.page, f.view = g.view
  PROVE  f = g
  BY DEF Filters

LEMMA Started ==
  ASSUME NEW f \in Filters
  PROVE  LET a == [f EXCEPT !.page = 1, !.view = "cards"] IN
         /\ a \in Filters /\ a.page = 1 /\ a.view = "cards"
         /\ a.q = f.q /\ a.countries = f.countries /\ a.series = f.series /\ a.rest = f.rest
         /\ a.sort = f.sort
  <1> DEFINE first == [f EXCEPT !.page = 1]
             a == [first EXCEPT !.view = "cards"]
  <1>1. [f EXCEPT !.page = 1, !.view = "cards"] = a  OBVIOUS
  <1>2. first \in Filters  BY DEF Filters
  <1>3. /\ first.page = 1 /\ first.q = f.q /\ first.countries = f.countries
        /\ first.series = f.series /\ first.rest = f.rest /\ first.sort = f.sort
    BY DEF Filters
  <1> HIDE DEF first
  <1>4. a \in Filters  BY <1>2 DEF Filters
  <1>5. /\ a.page = first.page /\ a.view = "cards" /\ a.q = first.q /\ a.countries = first.countries
        /\ a.series = first.series /\ a.rest = first.rest /\ a.sort = first.sort
    BY <1>2 DEF Filters
  <1> HIDE DEF a
  <1> QED BY <1>1, <1>3, <1>4, <1>5

LEMMA SameTells ==
  ASSUME NEW f \in Filters, NEW g \in Filters,
         f.q = g.q, f.countries = g.countries, f.series = g.series, f.rest = g.rest, f.sort = g.sort
  PROVE  Same(f, g)
  <1> DEFINE a == [f EXCEPT !.page = 1, !.view = "cards"]
             b == [g EXCEPT !.page = 1, !.view = "cards"]
  <1>1. /\ a \in Filters /\ a.page = 1 /\ a.view = "cards"
        /\ a.q = f.q /\ a.countries = f.countries /\ a.series = f.series /\ a.rest = f.rest
        /\ a.sort = f.sort
    BY Started
  <1>2. /\ b \in Filters /\ b.page = 1 /\ b.view = "cards"
        /\ b.q = g.q /\ b.countries = g.countries /\ b.series = g.series /\ b.rest = g.rest
        /\ b.sort = g.sort
    BY Started
  <1>3. a = b
    <2> HIDE DEF a, b
    <2> QED BY <1>1, <1>2, FiltersEqual
  <1> QED BY <1>3 DEF Same

LEMMA LinksTyped ==
  ASSUME NEW f \in Links
  PROVE  f \in Filters /\ Fits(f) /\ f.page = 1
  <1>1. CASE f = Default  BY <1>1, DefaultTyped DEF Default
  <1>2. ASSUME NEW s \in Series, f = [Default EXCEPT !.series = {s}]
        PROVE  f \in Filters /\ Fits(f) /\ f.page = 1
    <2>1. f = [q |-> NoText, countries |-> {}, series |-> {s}, rest |-> FALSE, sort |-> FALSE,
               page |-> 1, view |-> "cards"]
      BY <1>2 DEF Default
    <2> QED BY <2>1 DEF Filters, Fits, Belongs
  <1>3. ASSUME NEW c \in Countries, f = [Default EXCEPT !.countries = {c}]
        PROVE  f \in Filters /\ Fits(f) /\ f.page = 1
    <2>1. f = [q |-> NoText, countries |-> {c}, series |-> {}, rest |-> FALSE, sort |-> FALSE,
               page |-> 1, view |-> "cards"]
      BY <1>3 DEF Default
    <2> QED BY <2>1 DEF Filters, Fits
  <1> QED BY <1>1, <1>2, <1>3 DEF Links

LEMMA ListBegins ==
  ASSUME Init
  PROVE  ListInv
  <1>1. shown \in Filters /\ Fits(shown) /\ shown.page = 1
    <2>1. shown \in Links  BY DEF Init, Links
    <2> QED BY <2>1, LinksTyped
  <1>2. Parse(url) = shown  BY <1>1, ParseSerialize DEF Init
  <1>3. screen \notin Panelled => shown.series = {}  BY DEF Init, Default
  <1>4. TypeOK
    <2>1. FALSE \in BOOLEAN /\ 1 \in 1..MaxPages  OBVIOUS
    <2>2. Parse(url) \in Filters  BY <1>1, <1>2
    <2> QED BY <1>1, <2>1, <2>2 DEF Init, TypeOK
  <1>5. DrawersHere  BY DEF Init, DrawersHere
  <1>6. BarKept  BY <1>1, <1>2 DEF BarKept
  <1> QED BY <1>1, <1>2, <1>3, <1>4, <1>5, <1>6 DEF ListInv, OfScreen

\* A click that leads to the filters h.
LEMMA ClickLeads ==
  ASSUME ListInv, NEW h \in Filters, url' = Serialize(h), OfScreen(h),
         device = "desktop" => Fits(h) /\ (h.page = 1 \/ Same(h, shown)),
         UNCHANGED <<screen, device, shown>>, DrawersHere',
         typed' \in Texts, timer' \in BOOLEAN, localPage' \in 1..MaxPages,
         draft' \in Filters \union {Closed}, reverted' \in BOOLEAN
  PROVE  ListInv'
  <1>1. Parse(url)' = h
    <2>1. Parse(url') = h  BY ParseSerialize
    <2> QED BY <2>1 DEF Parse
  <1>2. TypeOK'  BY <1>1 DEF ListInv, TypeOK
  <1>3. OfScreen(shown)' /\ OfScreen(Parse(url))'
    BY <1>1 DEF ListInv, OfScreen
  <1>4. device = "desktop" => BarKept'
    BY <1>1 DEF ListInv, BarKept, Fits, Belongs, Same
  <1> QED BY <1>2, <1>3, <1>4 DEF ListInv

\* A step that leaves the address and what is shown alone.
LEMMA ListIdle ==
  ASSUME ListInv, UNCHANGED <<screen, device, shown, url>>, DrawersHere',
         typed' \in Texts, timer' \in BOOLEAN, localPage' \in 1..MaxPages,
         draft' \in Filters \union {Closed}, reverted' \in BOOLEAN
  PROVE  ListInv'
  <1>1. TypeOK'  BY DEF ListInv, TypeOK
  <1>2. OfScreen(shown)' /\ OfScreen(Parse(url))'
    BY DEF ListInv, OfScreen, Parse
  <1>3. device = "desktop" => BarKept'
    BY DEF ListInv, BarKept, Fits, Belongs, Same, Parse
  <1> QED BY <1>1, <1>2, <1>3 DEF ListInv

-----------------------------------------------------------------------------
(* The controls.                                                            *)

\* What becomes of the series: they go with a change of country, and only one that is
\* offered is added.
Careful(c) ==
  /\ "countries" \in DOMAIN c => screen \notin Panelled \/ ("series" \in DOMAIN c /\ c["series"] = {})
  /\ "series" \in DOMAIN c /\ "countries" \notin DOMAIN c => \A s \in c["series"] : Belongs(s, shown)

LEMMA PanelChanges ==
  ASSUME NEW f \in Filters, NEW c \in PanelOf(f) \union ChipsOf(f)
  PROVE  /\ IsChange(c) /\ "page" \notin DOMAIN c
         /\ f = shown /\ Fits(shown) => Careful(c)
  <1>0. /\ f.q \in Texts /\ f.countries \in SUBSET Countries /\ f.series \in SUBSET Series
        /\ Offered \subseteq Series /\ \A s \in Offered : Belongs(s, shown)
        /\ NoText \in Texts /\ TRUE \in BOOLEAN /\ FALSE \in BOOLEAN
    BY DEF Filters, Offered
  <1>1. \A C, O, x : x \in Toggles(C, O) => \A s \in x : s \in C \/ s \in O  BY DEF Toggles
  <1>2. ASSUME NEW cs \in SUBSET Countries, c = [countries |-> cs, series |-> {}]
        PROVE  IsChange(c) /\ "page" \notin DOMAIN c /\ Careful(c)
    <2>1. DOMAIN c = {"countries", "series"} /\ c["countries"] = cs /\ c["series"] = {}  BY <1>2
    <2> QED BY <2>1 DEF IsChange, FieldsOf, Careful
  <1>3. ASSUME NEW ss \in SUBSET Series, c = [series |-> ss], \A s \in ss : s \in f.series \/ s \in Offered
        PROVE  /\ IsChange(c) /\ "page" \notin DOMAIN c
               /\ f = shown /\ Fits(shown) => Careful(c)
    <2>1. DOMAIN c = {"series"} /\ c["series"] = ss  BY <1>3
    <2>2. IsChange(c) /\ "page" \notin DOMAIN c  BY <2>1 DEF IsChange, FieldsOf
    <2>3. f = shown /\ Fits(shown) => \A s \in ss : Belongs(s, shown)  BY <1>0, <1>3 DEF Fits
    <2> QED BY <2>1, <2>2, <2>3 DEF Careful
  <1>4. ASSUME NEW r \in BOOLEAN, c = [rest |-> r]
        PROVE  IsChange(c) /\ "page" \notin DOMAIN c /\ Careful(c)
    <2>1. DOMAIN c = {"rest"} /\ c["rest"] = r  BY <1>4
    <2> QED BY <2>1 DEF IsChange, FieldsOf, Careful
  <1>5. ASSUME c = [q |-> NoText]
        PROVE  IsChange(c) /\ "page" \notin DOMAIN c /\ Careful(c)
    <2>1. DOMAIN c = {"q"} /\ c["q"] = NoText  BY <1>5
    <2> QED BY <1>0, <2>1 DEF IsChange, FieldsOf, Careful
  <1>6. ASSUME c \in CatalogPanel(f)
        PROVE  /\ IsChange(c) /\ "page" \notin DOMAIN c
               /\ f = shown /\ Fits(shown) => Careful(c)
    <2>1. CASE \E cs \in Toggles(f.countries, Countries) : c = [countries |-> cs, series |-> {}]
      <3>1. PICK cs \in Toggles(f.countries, Countries) : c = [countries |-> cs, series |-> {}]
        BY <2>1
      <3>2. cs \in SUBSET Countries  BY <1>0, <1>1
      <3> QED BY <1>2, <3>1, <3>2
    <2>2. CASE \E ss \in Toggles(f.series, Offered) : c = [series |-> ss]
      <3>1. PICK ss \in Toggles(f.series, Offered) : c = [series |-> ss]  BY <2>2
      <3>2. \A s \in ss : s \in f.series \/ s \in Offered  BY <1>1
      <3>3. ss \in SUBSET Series  BY <1>0, <3>2
      <3> QED BY <1>3, <3>1, <3>2, <3>3
    <2>3. CASE \E r \in BOOLEAN : c = [rest |-> r]
      <3>1. PICK r \in BOOLEAN : c = [rest |-> r]  BY <2>3
      <3> QED BY <1>4, <3>1
    <2> QED BY <1>6, <2>1, <2>2, <2>3 DEF CatalogPanel
  <1>7. ASSUME c \in CatalogChips(f)
        PROVE  /\ IsChange(c) /\ "page" \notin DOMAIN c
               /\ f = shown /\ Fits(shown) => Careful(c)
    <2>1. CASE c = [q |-> NoText]  BY <1>5, <2>1
    <2>2. CASE \E x \in f.countries : c = [countries |-> f.countries \ {x}, series |-> {}]
      <3>1. PICK x \in f.countries : c = [countries |-> f.countries \ {x}, series |-> {}]  BY <2>2
      <3>2. f.countries \ {x} \in SUBSET Countries  BY <1>0
      <3> QED BY <1>2, <3>1, <3>2
    <2>3. CASE \E x \in f.series \intersect Offered : c = [series |-> f.series \ {x}]
      <3>1. PICK x \in f.series : c = [series |-> f.series \ {x}]  BY <2>3
      <3>2. f.series \ {x} \in SUBSET Series /\ \A s \in f.series \ {x} : s \in f.series  BY <1>0
      <3> QED BY <1>3, <3>1, <3>2
    <2>4. CASE c = [rest |-> FALSE]  BY <1>0, <1>4, <2>4
    <2> QED BY <1>7, <2>1, <2>2, <2>3, <2>4 DEF CatalogChips
  <1> QED BY <1>6, <1>7 DEF PanelOf, ChipsOf, CollectionPanel, CollectionChips

LEMMA ChangeLeads ==
  ASSUME ListInv, NEW c, IsChange(c), url' = Update(c),
         screen \notin Panelled => "series" \notin DOMAIN c,
         screen \notin Ungrouped => "page" \notin DOMAIN c,
         device = "desktop" => Careful(c) /\ ("page" \in DOMAIN c => DOMAIN c \subseteq {"page", "view"}),
         UNCHANGED <<screen, device, shown>>, DrawersHere',
         typed' \in Texts, timer' \in BOOLEAN, localPage' \in 1..MaxPages,
         draft' \in Filters \union {Closed}, reverted' \in BOOLEAN
  PROVE  ListInv'
  <1>1. shown \in Filters /\ screen \in Screens /\ OfScreen(shown)  BY DEF ListInv, TypeOK
  <1>2. PICK h \in Filters :
           /\ Update(c) = Serialize(h)
           /\ \A x \in FieldsOf \ {"page", "series"} : h[x] = IF x \in DOMAIN c THEN c[x] ELSE shown[x]
           /\ h["page"] = IF "page" \in DOMAIN c THEN c["page"]
                          ELSE IF screen \in Ungrouped THEN 1 ELSE shown["page"]
           /\ h["series"] = IF "series" \in DOMAIN c THEN c["series"]
                            ELSE IF screen = "collection" /\ "countries" \in DOMAIN c THEN {}
                            ELSE shown["series"]
    BY <1>1, UpdateIs
  <1>3. OfScreen(h)
    <2>1. screen \notin Panelled => h.series = {}  BY <1>1, <1>2 DEF OfScreen
    <2>2. screen \notin Ungrouped => h.page = 1  BY <1>1, <1>2 DEF OfScreen
    <2> QED BY <2>1, <2>2 DEF OfScreen
  <1>4. ASSUME device = "desktop"  PROVE Fits(h)
    <2>1. Careful(c) /\ Fits(shown)  BY <1>4 DEF ListInv, BarKept
    <2>2. h.countries = IF "countries" \in DOMAIN c THEN c["countries"] ELSE shown.countries
      BY <1>2 DEF FieldsOf
    <2>3. CASE "countries" \in DOMAIN c
      <3>1. h.series = {}
        <4>1. CASE screen \notin Panelled  BY <1>3, <4>1 DEF OfScreen
        <4>2. CASE screen \in Panelled  BY <1>2, <2>1, <2>3, <4>2 DEF Careful
        <4> QED BY <4>1, <4>2
      <3> QED BY <3>1 DEF Fits
    <2>4. CASE "countries" \notin DOMAIN c
      <3>1. \A s \in h.series : Belongs(s, shown)
        <4>1. CASE "series" \in DOMAIN c  BY <1>2, <2>1, <2>4, <4>1 DEF Careful
        <4>2. CASE "series" \notin DOMAIN c  BY <1>2, <2>1, <2>4, <4>2 DEF Fits
        <4> QED BY <4>1, <4>2
      <3> QED BY <2>2, <2>4, <3>1 DEF Fits, Belongs
    <2> QED BY <2>3, <2>4
  <1>5. ASSUME device = "desktop"  PROVE h.page = 1 \/ Same(h, shown)
    <2>1. CASE "page" \in DOMAIN c
      <3>1. DOMAIN c \subseteq {"page", "view"}  BY <1>5, <2>1
      <3>2. /\ h.q = shown.q /\ h.countries = shown.countries /\ h.series = shown.series
            /\ h.rest = shown.rest /\ h.sort = shown.sort
        BY <1>2, <3>1 DEF FieldsOf
      <3> QED BY <1>1, <3>2, SameTells
    <2>2. CASE "page" \notin DOMAIN c  BY <1>1, <1>2, <2>2 DEF OfScreen
    <2> QED BY <2>1, <2>2
  <1> QED BY <1>2, <1>3, <1>4, <1>5, ClickLeads

LEMMA PagesReached ==
  ASSUME NEW p \in 1..MaxPages
  PROVE  Reachable(p) \subseteq 1..MaxPages
  <1> SUFFICES ASSUME NEW count \in 2..MaxPages, NEW x \in Pager(p, count)
               PROVE  x \in 1..MaxPages
    BY DEF Reachable
  <1>1. CASE x \in PageItems(p, count)  BY <1>1 DEF PageItems
  <1>2. CASE x = p - 1 /\ p > 1  BY <1>2
  <1>3. CASE x = p + 1 /\ p < count  BY <1>3
  <1> QED BY <1>1, <1>2, <1>3 DEF Pager

\* A change of one field.
LEMMA OneChange ==
  /\ \A t \in Texts : IsChange([q |-> t]) /\ DOMAIN [q |-> t] = {"q"}
  /\ \A p \in 1..MaxPages : IsChange([page |-> p]) /\ DOMAIN [page |-> p] = {"page"}
  /\ \A v \in {"cards", "table"}, p \in 1..MaxPages :
        IsChange([view |-> v, page |-> p]) /\ DOMAIN [view |-> v, page |-> p] = {"view", "page"}
  /\ \A b \in BOOLEAN : IsChange([sort |-> b]) /\ DOMAIN [sort |-> b] = {"sort"}
  /\ \A b \in BOOLEAN : IsChange([rest |-> b]) /\ DOMAIN [rest |-> b] = {"rest"}
  /\ \A cs \in SUBSET Countries :
        IsChange([countries |-> cs]) /\ DOMAIN [countries |-> cs] = {"countries"}
  <1>1. \A t \in Texts : IsChange([q |-> t]) /\ DOMAIN [q |-> t] = {"q"}
    BY DEF IsChange, FieldsOf
  <1>2. \A p \in 1..MaxPages : IsChange([page |-> p]) /\ DOMAIN [page |-> p] = {"page"}
    BY DEF IsChange, FieldsOf
  <1>3. \A v \in {"cards", "table"}, p \in 1..MaxPages :
          IsChange([view |-> v, page |-> p]) /\ DOMAIN [view |-> v, page |-> p] = {"view", "page"}
    BY DEF IsChange, FieldsOf
  <1>4. \A b \in BOOLEAN : IsChange([sort |-> b]) /\ DOMAIN [sort |-> b] = {"sort"}
    BY DEF IsChange, FieldsOf
  <1>5. \A b \in BOOLEAN : IsChange([rest |-> b]) /\ DOMAIN [rest |-> b] = {"rest"}
    BY DEF IsChange, FieldsOf
  <1>6. \A cs \in SUBSET Countries :
          IsChange([countries |-> cs]) /\ DOMAIN [countries |-> cs] = {"countries"}
    BY DEF IsChange, FieldsOf
  <1> QED BY <1>1, <1>2, <1>3, <1>4, <1>5, <1>6

LEMMA RevertedTyped ==
  ASSUME reverted \in BOOLEAN, Next
  PROVE  reverted' \in BOOLEAN
  <1>1. ASSUME NEW u, Navigate(u)  PROVE reverted' \in BOOLEAN  BY <1>1 DEF Navigate
  <1>2. CASE UNCHANGED address  BY <1>2 DEF address
  <1>3. CASE reverted' = FALSE  BY <1>3
  <1> QED
    BY <1>1, <1>2, <1>3
    DEF Next, Click, Commit, SearchFires, DraftSearchFires, UseBar, ResetBar, TypeSearch, OpenDrawer,
        EditDraft, ResetDraft, TypeDraft, CloseDrawer, ApplyDraft, GoToPage, GoToGroupPage, SwitchView,
        SortBy, SortExpenses, PickCategory, NarrowGroups, FilterGroup, Reload

LEMMA ListStep ==
  ASSUME ListInv, Next
  PROVE  ListInv'
  <1>0. /\ shown \in Filters /\ screen \in Screens /\ typed \in Texts /\ timer \in BOOLEAN
        /\ localPage \in 1..MaxPages /\ draft \in Filters \union {Closed} /\ DrawersHere
        /\ Parse(url) \in Filters /\ OfScreen(shown) /\ OfScreen(Parse(url)) /\ reverted' \in BOOLEAN
    BY RevertedTyped DEF ListInv, TypeOK
  <1>1. /\ shown.q \in Texts /\ shown.page \in 1..MaxPages
        /\ (~ shown.sort) \in BOOLEAN /\ (~ shown.rest) \in BOOLEAN
        /\ 1 \in 1..MaxPages /\ FALSE \in BOOLEAN
    BY <1>0 DEF Filters
  <1>2. UNCHANGED <<screen, device, draft>> => DrawersHere'  BY <1>0 DEF DrawersHere
  <1>3. "catalog" \in Ungrouped /\ "collection" \in Ungrouped /\ "expenses" \in Ungrouped
        /\ Panelled \subseteq Ungrouped /\ \A x \in {"expenses", "completeness", "group"} : x \notin Panelled
    BY DEF Ungrouped, Panelled
  <1>4. ASSUME NEW c, IsChange(c), url' = Update(c), DOMAIN c \in {{"q"}, {"sort"}, {"rest"}},
               UNCHANGED <<screen, device, shown, draft, localPage>>, typed' = typed, timer' \in BOOLEAN
        PROVE  ListInv'
    <2>1. Careful(c)  BY <1>4 DEF Careful
    <2>2. "series" \notin DOMAIN c /\ "page" \notin DOMAIN c  BY <1>4
    <2> QED BY <1>0, <1>2, <1>4, <2>1, <2>2, ChangeLeads
  <1>5. CASE UseBar
    <2>1. PICK c \in PanelOf(shown) \union ChipsOf(shown) : url' = Update(c)
      BY <1>5 DEF UseBar, Navigate
    <2>2. /\ device = "desktop" /\ screen \in Panelled
          /\ UNCHANGED <<screen, device, shown, typed, timer, draft, localPage>>
      BY <1>5 DEF UseBar, Bar, route, panel
    <2>3. Fits(shown)  BY <2>2 DEF ListInv, BarKept
    <2>4. IsChange(c) /\ "page" \notin DOMAIN c /\ Careful(c)  BY <1>0, <2>3, PanelChanges
    <2> QED BY <1>0, <1>2, <2>1, <2>2, <2>4, ChangeLeads
  <1>6. CASE ResetBar
    <2>1. url' = Serialize(Default) /\ UNCHANGED <<screen, device, shown, typed, timer, draft, localPage>>
      BY <1>6 DEF ResetBar, Navigate, route, panel
    <2>2. Default \in Filters /\ Fits(Default) /\ OfScreen(Default) /\ Default.page = 1
      BY DefaultTyped DEF OfScreen, Default
    <2> QED BY <1>0, <1>2, <2>1, <2>2, ClickLeads
  <1>7. CASE TypeSearch
    <2>1. /\ typed' \in Texts /\ UNCHANGED <<screen, device, url, shown, draft, localPage>>
      BY <1>7 DEF TypeSearch, route
    <2>2. timer' \in BOOLEAN  BY <1>7 DEF TypeSearch
    <2> QED BY <1>0, <1>2, <2>1, <2>2, ListIdle
  <1>8. CASE SearchFires
    <2>1. url' = Update([q |-> typed]) /\ timer' = FALSE
          /\ UNCHANGED <<screen, device, shown, typed, draft, localPage>>
      BY <1>8 DEF SearchFires, Navigate, route
    <2> QED BY <1>0, <1>1, <1>4, <2>1, OneChange
  <1>9. CASE OpenDrawer
    <2>1. /\ device = "phone" /\ screen \in Panelled /\ draft' = shown /\ typed' = shown.q /\ timer' = FALSE
          /\ UNCHANGED <<screen, device, url, shown, localPage>>
      BY <1>9 DEF OpenDrawer, route, address
    <2>2. DrawersHere'  BY <2>1 DEF DrawersHere
    <2> QED BY <1>0, <1>1, <2>1, <2>2, ListIdle
  <1>10. ASSUME NEW f \in Filters, draft # Closed, Redraft(f), url' = url  PROVE ListInv'
    <2>1. /\ draft' = f /\ typed' = (IF f.q # draft.q THEN f.q ELSE typed)
          /\ UNCHANGED <<screen, device, shown, timer, localPage>>
      BY <1>10 DEF Redraft, route
    <2>2. DrawersHere'  BY <1>0, <1>10, <2>1 DEF DrawersHere
    <2>3. f.q \in Texts  BY DEF Filters
    <2> QED BY <1>0, <1>10, <2>1, <2>2, <2>3, ListIdle
  <1>11. CASE EditDraft
    <2>1. draft # Closed /\ url' = url /\ draft \in Filters  BY <1>0, <1>11 DEF EditDraft, address
    <2>2. PICK c \in PanelOf(draft) \union ChipsOf(draft) : Redraft(With(draft, c))
      BY <1>11 DEF EditDraft
    <2>3. With(draft, c) \in Filters  BY <2>1, PanelChanges, WithTyped
    <2> QED BY <1>10, <2>1, <2>2, <2>3
  <1>12. CASE ResetDraft  BY <1>10, <1>12, DefaultTyped DEF ResetDraft, address
  <1>13. CASE TypeDraft
    <2>1. typed' \in Texts /\ UNCHANGED <<screen, device, url, shown, timer, draft, localPage>>
      BY <1>13 DEF TypeDraft, route, address
    <2> QED BY <1>0, <1>2, <2>1, ListIdle
  <1>14. CASE DraftSearchFires
    <2>1. draft # Closed /\ url' = url /\ draft \in Filters /\ Redraft([draft EXCEPT !.q = typed])
      BY <1>0, <1>14 DEF DraftSearchFires, address
    <2>2. [draft EXCEPT !.q = typed] \in Filters  BY <1>0, <2>1 DEF Filters
    <2> QED BY <1>10, <2>1, <2>2
  <1>15. CASE CloseDrawer
    <2>1. draft' = Closed /\ typed' = shown.q /\ UNCHANGED <<screen, device, url, shown, timer, localPage>>
      BY <1>15 DEF CloseDrawer, route, address
    <2>2. DrawersHere'  BY <2>1 DEF DrawersHere
    <2> QED BY <1>0, <1>1, <2>1, <2>2, ListIdle
  <1>16. CASE ApplyDraft
    <2>1. /\ draft # Closed /\ url' = Update(draft) /\ draft' = Closed /\ typed' = shown.q
          /\ UNCHANGED <<screen, device, shown, timer, localPage>>
      BY <1>16 DEF ApplyDraft, Navigate, route
    <2>2. device # "desktop" /\ screen \in Panelled /\ screen \in Ungrouped
      BY <1>0, <1>3, <2>1 DEF DrawersHere
    <2>3. IsChange(draft)
      <3>1. draft \in Filters  BY <1>0, <2>1
      <3> QED BY <3>1, FilterFields DEF IsChange, Filters
    <2>4. DrawersHere'  BY <2>1 DEF DrawersHere
    <2> QED BY <1>0, <1>1, <2>1, <2>2, <2>3, <2>4, ChangeLeads
  <1>17. CASE GoToPage
    <2>1. PICK p \in Reachable(shown.page) : url' = Update([page |-> p])
      BY <1>17 DEF GoToPage, Navigate
    <2>2. UNCHANGED <<screen, device, shown, typed, timer, draft, localPage>> /\ screen \in Ungrouped
      BY <1>17 DEF GoToPage, route, panel, Ungrouped
    <2>3. p \in 1..MaxPages  BY <1>1, PagesReached
    <2> DEFINE c == [page |-> p]
    <2>4. IsChange(c) /\ DOMAIN c = {"page"}  BY <2>3, OneChange
    <2>5. url' = Update(c)  BY <2>1
    <2> HIDE DEF c
    <2>6. Careful(c) /\ "series" \notin DOMAIN c /\ DOMAIN c \subseteq {"page", "view"}
      BY <2>4 DEF Careful
    <2> QED BY <1>0, <1>2, <2>2, <2>4, <2>5, <2>6, ChangeLeads
  <1>18. CASE GoToGroupPage
    <2>1. /\ localPage' \in Reachable(localPage)
          /\ UNCHANGED <<screen, device, url, shown, typed, timer, draft>>
      BY <1>18 DEF GoToGroupPage, route, address, panel
    <2>2. localPage' \in 1..MaxPages  BY <1>0, <2>1, PagesReached
    <2> QED BY <1>0, <1>2, <2>1, <2>2, ListIdle
  <1>19. CASE SwitchView
    <2>1. PICK v \in {"cards", "table"} : url' = Update([view |-> v, page |-> shown.page])
      BY <1>19 DEF SwitchView, Navigate
    <2>2. UNCHANGED <<screen, device, shown, typed, timer, draft, localPage>> /\ screen \in Ungrouped
      BY <1>3, <1>19 DEF SwitchView, route, panel
    <2> DEFINE c == [view |-> v, page |-> shown.page]
    <2>4. IsChange(c) /\ DOMAIN c = {"view", "page"}  BY <1>1, OneChange
    <2>5. url' = Update(c)  BY <2>1
    <2> HIDE DEF c
    <2>6. Careful(c) /\ "series" \notin DOMAIN c /\ DOMAIN c \subseteq {"page", "view"}
      BY <2>4 DEF Careful
    <2> QED BY <1>0, <1>2, <2>2, <2>4, <2>5, <2>6, ChangeLeads
  <1>20. CASE SortBy \/ SortExpenses
    <2>1. url' = Update([sort |-> ~ shown.sort])
          /\ UNCHANGED <<screen, device, shown, typed, timer, draft, localPage>>
      BY <1>20 DEF SortBy, SortExpenses, Navigate, route, panel
    <2> QED BY <1>0, <1>1, <1>4, <2>1, OneChange
  <1>21. CASE PickCategory
    <2>1. url' = Update([rest |-> ~ shown.rest])
          /\ UNCHANGED <<screen, device, shown, typed, timer, draft, localPage>>
      BY <1>21 DEF PickCategory, Navigate, route, panel
    <2> QED BY <1>0, <1>1, <1>4, <2>1, OneChange
  <1>22. ASSUME screen \notin Panelled, NEW cs \in {{}} \union {{c} : c \in Countries},
                url' = Update([countries |-> cs]), localPage' \in 1..MaxPages,
                UNCHANGED <<screen, device, shown, typed, timer, draft>>
         PROVE  ListInv'
    <2> DEFINE c == [countries |-> cs]
    <2>1. cs \in SUBSET Countries  OBVIOUS
    <2>2. IsChange(c) /\ DOMAIN c = {"countries"}  BY <2>1, OneChange
    <2>3. url' = Update(c)  BY <1>22
    <2> HIDE DEF c
    <2>4. Careful(c)  BY <1>22, <2>2 DEF Careful
    <2>5. "series" \notin DOMAIN c /\ "page" \notin DOMAIN c  BY <2>2
    <2> QED BY <1>0, <1>2, <1>22, <2>2, <2>3, <2>4, <2>5, ChangeLeads
  <1>23. ASSUME NEW b \in BOOLEAN,
                url' = Update([rest |-> b]) \/ url' = Update([sort |-> b]), localPage' \in 1..MaxPages,
                UNCHANGED <<screen, device, shown, typed, timer, draft>>
         PROVE  ListInv'
    <2>1. PICK c : IsChange(c) /\ DOMAIN c \in {{"rest"}, {"sort"}} /\ url' = Update(c)
      BY <1>23, OneChange
    <2>2. Careful(c)  BY <2>1 DEF Careful
    <2>3. "series" \notin DOMAIN c /\ "page" \notin DOMAIN c  BY <2>1
    <2> QED BY <1>0, <1>2, <1>23, <2>1, <2>2, <2>3, ChangeLeads
  <1>24. CASE NarrowGroups
    <2>1. screen \notin Panelled /\ UNCHANGED <<screen, device, shown, typed, timer, draft, localPage>>
      BY <1>3, <1>24 DEF NarrowGroups, route, panel
    <2>2. \/ \E cs \in {{}} \union {{c} : c \in Countries} : url' = Update([countries |-> cs])
          \/ url' = Update([rest |-> ~ shown.rest])
          \/ url' = Update([sort |-> ~ shown.sort])
      BY <1>24 DEF NarrowGroups, Navigate
    <2> QED BY <1>0, <1>1, <1>22, <1>23, <2>1, <2>2
  <1>25. CASE FilterGroup
    <2>1. /\ screen \notin Panelled /\ UNCHANGED <<screen, device, shown, typed, timer, draft>>
          /\ localPage' \in 1..MaxPages
      BY <1>1, <1>3, <1>25 DEF FilterGroup, route, panel
    <2>2. \/ \E cs \in {{}} \union {{c} : c \in Countries} : url' = Update([countries |-> cs])
          \/ url' = Update([rest |-> ~ shown.rest])
      BY <1>25 DEF FilterGroup, Navigate
    <2> QED BY <1>1, <1>22, <1>23, <2>1, <2>2
  <1>26. CASE Reload
    <2>1. /\ shown' = Parse(url) /\ typed' = Parse(url).q /\ timer' = FALSE /\ draft' = Closed
          /\ localPage' = 1 /\ UNCHANGED <<screen, device>>
      BY <1>26 DEF Reload, route
    <2>2. PICK g \in Resolved(Parse(url)) : url' = Serialize(g)  BY <1>26 DEF Reload
    <2>3. /\ g \in Filters /\ g.q = shown'.q /\ g.countries = shown'.countries /\ g.series = shown'.series
          /\ g.rest = shown'.rest /\ g.sort = shown'.sort /\ g.page = shown'.page
      BY <1>0, <2>1 DEF Resolved, Filters
    <2>4. Parse(url)' = g
      <3>1. Parse(url') = g  BY <2>2, <2>3, ParseSerialize
      <3> QED BY <3>1 DEF Parse
    <2>5. TypeOK'
      <3>1. Parse(url).q \in Texts  BY <1>0 DEF Filters
      <3> QED BY <1>0, <1>1, <2>1, <2>3, <2>4, <3>1 DEF ListInv, TypeOK
    <2>6. OfScreen(shown)' /\ OfScreen(Parse(url))'
      BY <1>0, <2>1, <2>3, <2>4 DEF OfScreen
    <2>7. ASSUME device = "desktop"  PROVE BarKept'
      <3>1. Fits(Parse(url))  BY <2>7 DEF ListInv, BarKept
      <3>2. Fits(shown)'  BY <2>1, <3>1 DEF Fits, Belongs
      <3>3. Fits(Parse(url))'  BY <2>3, <2>4, <3>2 DEF Fits, Belongs
      <3>4. Same(Parse(url), shown)'
        <4>1. Same(g, shown')  BY <1>0, <2>1, <2>3, SameTells
        <4> QED BY <2>4, <4>1 DEF Same
      <3> QED BY <3>2, <3>3, <3>4 DEF BarKept
    <2>8. DrawersHere'  BY <2>1 DEF DrawersHere
    <2> QED BY <2>1, <2>5, <2>6, <2>7, <2>8 DEF ListInv
  <1>27. CASE Commit
    <2>1. shown' = Parse(url) /\ UNCHANGED <<screen, device, url, draft, localPage>>
      BY <1>27 DEF Commit, route
    <2>2. typed' \in Texts /\ timer' \in BOOLEAN
      <3>1. Parse(url).q \in Texts  BY <1>0 DEF Filters
      <3>2. CASE draft = Closed
        <4>1. SearchAfter(Parse(url))  BY <1>27, <3>2 DEF Commit
        <4>2. typed' \in Texts  BY <1>0, <3>1, <4>1 DEF SearchAfter
        <4>3. timer' \in BOOLEAN  BY <4>1 DEF SearchAfter
        <4> QED BY <4>2, <4>3
      <3>3. CASE draft # Closed  BY <1>0, <1>27, <3>3 DEF Commit
      <3> QED BY <3>2, <3>3
    <2>3. Parse(url)' = Parse(url)  BY <2>1 DEF Parse
    <2>4. TypeOK'  BY <1>0, <2>1, <2>2, <2>3 DEF ListInv, TypeOK
    <2>5. OfScreen(shown)' /\ OfScreen(Parse(url))'
      BY <1>0, <2>1, <2>3 DEF OfScreen
    <2>6. ASSUME device = "desktop"  PROVE BarKept'
      <3>1. Fits(Parse(url))  BY <2>6 DEF ListInv, BarKept
      <3>2. Fits(shown)' /\ Fits(Parse(url))'  BY <2>1, <2>3, <3>1 DEF Fits, Belongs
      <3>3. Same(Parse(url), shown)'  BY <2>1, <2>3 DEF Same
      <3> QED BY <3>2, <3>3 DEF BarKept
    <2> QED BY <1>2, <2>1, <2>4, <2>5, <2>6 DEF ListInv
  <1> QED
    BY <1>5, <1>6, <1>7, <1>8, <1>9, <1>11, <1>12, <1>13, <1>14, <1>15, <1>16, <1>17, <1>18, <1>19,
       <1>20, <1>21, <1>24, <1>25, <1>26, <1>27
    DEF Next, Click

\* Every page that lists has its type; on a desktop every series applied belongs to the country
\* applied, and a page other than the first is asked for of the filters on show.
THEOREM ListInvariant == Spec => []ListInv
  <1>1. ASSUME ListInv, [Next]_vars  PROVE ListInv'
    <2>1. CASE Next  BY <1>1, <2>1, ListStep
    <2>2. CASE UNCHANGED vars
      <3>1. UNCHANGED <<screen, device, url, reverted, shown, typed, timer, localPage, draft>>
        BY <2>2 DEF vars, route, address, panel
      <3>2. DrawersHere'  BY <1>1, <3>1 DEF ListInv, DrawersHere
      <3> QED BY <1>1, <3>1, <3>2, ListIdle DEF ListInv, TypeOK
    <2> QED BY <1>1, <2>1, <2>2
  <1> QED BY <1>1, ListBegins, PTL DEF Spec

\* No order of clicks, timer and router opens the middle of other filters' results.
THEOREM PagesAreOfShown == Spec => []PagesOfShown
  <1>1. ListInv => PagesOfShown  BY DEF ListInv, BarKept, PagesOfShown
  <1> QED BY <1>1, ListInvariant, PTL

\* No series goes on narrowing the list without a chip to remove it by.
THEOREM SeriesAreSeen == Spec => []NoHiddenSeries
  <1>1. ListInv => NoHiddenSeries  BY DEF ListInv, BarKept, Fits, NoHiddenSeries
  <1> QED BY <1>1, ListInvariant, PTL

\* An open drawer reaches the listing by Apply alone, and by it as a whole.
THEOREM ApplyReaches == Spec => OnlyApplyReachesListing
  <1> DEFINE Whole == draft # Closed /\ ~Reload => url' = url \/ (draft' = Closed /\ Parse(url') = draft)
  <1>1. ASSUME ListInv, [Next]_vars  PROVE Whole
    <2> SUFFICES ASSUME draft # Closed, ~ Reload
                 PROVE  url' = url \/ (draft' = Closed /\ Parse(url') = draft)
      OBVIOUS
    <2>1. /\ device # "desktop" /\ screen \in Panelled /\ draft \in Filters
          /\ shown \in Filters /\ screen \in Screens
      BY <1>1 DEF ListInv, DrawersHere, TypeOK
    <2>2. CASE ApplyDraft
      <3>1. url' = Update(draft) /\ draft' = Closed  BY <2>2 DEF ApplyDraft, Navigate
      <3>2. IsChange(draft) /\ DOMAIN draft = FieldsOf
        BY <2>1, FilterFields DEF IsChange, Filters
      <3>3. PICK h \in Filters :
              /\ Update(draft) = Serialize(h)
              /\ \A x \in FieldsOf \ {"page", "series"} : h[x] = draft[x]
              /\ h["page"] = draft["page"] /\ h["series"] = draft["series"]
        <4>1. "page" \in FieldsOf /\ "series" \in FieldsOf  BY DEF FieldsOf
        <4> QED BY <2>1, <3>2, <4>1, UpdateIs
      <3>4. h = draft
        <4>1. \A x \in FieldsOf : h[x] = draft[x]  BY <3>3
        <4> QED BY <2>1, <4>1, FiltersEqual DEF FieldsOf
      <3>5. Parse(url') = draft  BY <3>1, <3>3, <3>4, ParseSerialize
      <3> QED BY <3>1, <3>5
    <2>3. CASE UNCHANGED vars  BY <2>3 DEF vars, address
    <2>4. CASE Commit \/ TypeSearch \/ OpenDrawer \/ EditDraft \/ ResetDraft \/ TypeDraft
               \/ CloseDrawer \/ DraftSearchFires \/ GoToGroupPage
      BY <2>4
      DEF Commit, TypeSearch, OpenDrawer, EditDraft, ResetDraft, TypeDraft, CloseDrawer,
          DraftSearchFires, GoToGroupPage, address
    <2>5. ~ (UseBar \/ ResetBar \/ SearchFires)  BY <2>1 DEF UseBar, ResetBar, SearchFires, Bar
    <2>6. ~ (GoToPage \/ SwitchView \/ SortBy)  BY DEF GoToPage, SwitchView, SortBy
    <2>7. ~ (SortExpenses \/ PickCategory \/ NarrowGroups \/ FilterGroup)
      BY <2>1 DEF SortExpenses, PickCategory, NarrowGroups, FilterGroup, Panelled
    <2> QED BY <1>1, <2>2, <2>3, <2>4, <2>5, <2>6, <2>7 DEF Next, Click
  <1>2. ListInv /\ [Next]_vars => [Whole]_vars  BY <1>1
  <1> QED BY <1>2, ListInvariant, PTL DEF Spec, OnlyApplyReachesListing

-----------------------------------------------------------------------------
(*                          MONEY ON A COIN'S CARD                          *)
-----------------------------------------------------------------------------
(* Sums.  SUM is a fold over a set, which takes its elements out in an order *)
(* of its own; nothing below depends on it.                                  *)

\* What holds of a set whenever it holds of the set without any one element holds
\* of every subset of a finite set.
LEMMA SubsetInduction ==
  ASSUME NEW C, IsFiniteSet(C), NEW Good,
         \A X \in SUBSET C : (\A x \in X : X \ {x} \in Good) => X \in Good
  PROVE  SUBSET C \subseteq Good
  <1> DEFINE Bad == (SUBSET C) \ Good
  <1>1. SUFFICES ASSUME Bad # {} PROVE FALSE
    OBVIOUS
  <1>2. IsWellFoundedOn(StrictSubsetOrdering(C), SUBSET C)
    <2>1. FiniteSubsetsOf(C) = SUBSET C  BY FS_FiniteSubsetsOfFinite
    <2>2. IsWellFoundedOn(StrictSubsetOrdering(C), FiniteSubsetsOf(C))
      BY FS_StrictSubsetOrderingWellFounded
    <2> QED BY <2>1, <2>2
  <1>3. PICK X \in Bad : \A Y \in Bad : ~ (<<Y, X>> \in StrictSubsetOrdering(C))
    <2>1. Bad \subseteq SUBSET C  OBVIOUS
    <2> HIDE DEF Bad
    <2> QED BY <1>1, <1>2, <2>1, WFMin
  <1>4. ASSUME NEW x \in X PROVE X \ {x} \in Good
    <2>1. X \ {x} \in SUBSET C /\ <<X \ {x}, X>> \in StrictSubsetOrdering(C)
      BY DEF StrictSubsetOrdering
    <2> QED BY <1>3, <2>1
  <1> QED BY <1>3, <1>4

\* The element the fold takes out of a set.
Picked(s) == CHOOSE x \in s : TRUE

\* The function g adds up f over each subset of X.
Adds(g, f, X) ==
  g = [s \in SUBSET X |-> IF s = {} THEN 0 ELSE f[Picked(s)] + g[s \ {Picked(s)}]]

\* A sum is what such a function makes of the whole set.
LEMMA SumIs ==
  ASSUME NEW f, NEW S
  PROVE  SumFunctionOnSet(f, S) = (CHOOSE g : Adds(g, f, S))[S]
  BY DEF SumFunctionOnSet, FoldFunctionOnSet, MapThenFoldSet, Adds, Picked

LEMMA PickedIn == \A s : s # {} => Picked(s) \in s
  BY DEF Picked

\* Two such functions agree where both are defined.
LEMMA AddsAgree ==
  ASSUME NEW f, NEW S, IsFiniteSet(S), NEW T, NEW g, NEW h, Adds(g, f, S), Adds(h, f, T)
  PROVE  \A s \in SUBSET (S \cap T) : g[s] = h[s]
  <1> DEFINE Good == {s \in SUBSET S : s \in SUBSET T => g[s] = h[s]}
  <1>1. \A s \in SUBSET S : g[s] = IF s = {} THEN 0 ELSE f[Picked(s)] + g[s \ {Picked(s)}]
    BY DEF Adds
  <1>2. \A s \in SUBSET T : h[s] = IF s = {} THEN 0 ELSE f[Picked(s)] + h[s \ {Picked(s)}]
    BY DEF Adds
  <1>3. {} \in Good
    BY <1>1, <1>2
  <1>4. ASSUME NEW X \in SUBSET S, \A x \in X : X \ {x} \in Good
        PROVE  X \in Good
    <2>1. CASE X = {}
      BY <1>3, <2>1
    <2>2. CASE X # {} /\ X \in SUBSET T
      <3>1. X \ {Picked(X)} \in Good  BY <1>4, <2>2, PickedIn
      <3>2. g[X \ {Picked(X)}] = h[X \ {Picked(X)}]  BY <2>2, <3>1
      <3> QED BY <1>1, <1>2, <2>2, <3>2
    <2> QED BY <2>1, <2>2
  <1>5. SUBSET S \subseteq Good
    <2> HIDE DEF Good
    <2> QED BY <1>3, <1>4, SubsetInduction
  <1> QED BY <1>5

\* There is one for every finite set.
LEMMA AddsExists ==
  ASSUME NEW f, NEW S, IsFiniteSet(S)
  PROVE  \E g : Adds(g, f, S)
  <1> DEFINE Good == {X \in SUBSET S : \E g : Adds(g, f, X)}
             H(X) == CHOOSE g : Adds(g, f, X)
  <1>1. ASSUME NEW X \in SUBSET S, \A x \in X : X \ {x} \in Good
        PROVE  X \in Good
    <2>0. \A x \in X : Adds(H(X \ {x}), f, X \ {x})
      BY <1>1
    <2> DEFINE rest == X \ {Picked(X)}
               g == [s \in SUBSET X |->
                      IF s = {} THEN 0
                      ELSE IF s = X THEN f[Picked(X)] + H(rest)[rest]
                      ELSE H(X \ {CHOOSE x \in X : x \notin s})[s]]
    <2>1. ASSUME NEW s \in SUBSET X, s # {}, NEW x \in X, s \subseteq X \ {x}, NEW y \in X, s \subseteq X \ {y}
          PROVE  H(X \ {x})[s] = H(X \ {y})[s]
      <3>1. Adds(H(X \ {x}), f, X \ {x}) /\ Adds(H(X \ {y}), f, X \ {y})
        BY <2>0
      <3>2. IsFiniteSet(X \ {x})  BY FS_Subset
      <3>3. s \in SUBSET ((X \ {x}) \cap (X \ {y}))  BY <2>1
      <3> HIDE DEF H
      <3> QED BY <3>1, <3>2, <3>3, AddsAgree
    <2>2. ASSUME NEW s \in SUBSET X, s # {}, s # X, NEW x \in X, s \subseteq X \ {x}
          PROVE  g[s] = H(X \ {x})[s]
      <3>1. (CHOOSE z \in X : z \notin s) \in X /\ (CHOOSE z \in X : z \notin s) \notin s
        BY <2>2
      <3>2. g[s] = H(X \ {CHOOSE z \in X : z \notin s})[s]
        BY <2>2
      <3> DEFINE w == CHOOSE z \in X : z \notin s
      <3> HIDE DEF g, H, w
      <3>3. w \in X /\ w \notin s  BY <3>1 DEF w
      <3>4. g[s] = H(X \ {w})[s]  BY <3>2 DEF w
      <3> QED BY <2>1, <2>2, <3>3, <3>4
    <2>3. \A x \in X : \A s \in SUBSET (X \ {x}) :
            H(X \ {x})[s] = IF s = {} THEN 0 ELSE f[Picked(s)] + H(X \ {x})[s \ {Picked(s)}]
      <3> HIDE DEF H
      <3> QED BY <2>0 DEF Adds
    <2>4. g[{}] = 0 /\ \A x \in X : \A s \in SUBSET (X \ {x}) : g[s] = H(X \ {x})[s]
      <3>1. g[{}] = 0  OBVIOUS
      <3>2. \A x \in X : H(X \ {x})[{}] = 0  BY <2>3
      <3> HIDE DEF g, H
      <3> QED BY <2>2, <3>1, <3>2
    <2>5. ASSUME NEW s \in SUBSET X
          PROVE  g[s] = IF s = {} THEN 0 ELSE f[Picked(s)] + g[s \ {Picked(s)}]
      <3>1. CASE s = {}
        BY <3>1
      <3>2. CASE s = X /\ X # {}
        <4>1. Picked(X) \in X  BY <3>2, PickedIn
        <4>2. g[X] = f[Picked(X)] + H(rest)[rest]  BY <3>2
        <4>3. g[rest] = H(rest)[rest]
          <5> HIDE DEF g, H
          <5> QED BY <2>4, <4>1
        <4> HIDE DEF g, H
        <4> QED BY <3>2, <4>2, <4>3
      <3>3. CASE s # {} /\ s # X
        <4>1. PICK x \in X : x \notin s  BY <3>3
        <4>2. s \in SUBSET (X \ {x}) /\ s \ {Picked(s)} \in SUBSET (X \ {x})
          BY <4>1
        <4> HIDE DEF g, H
        <4> QED BY <2>3, <2>4, <3>3, <4>2
      <3> QED BY <3>1, <3>2, <3>3
    <2>6. Adds(g, f, X)
      <3>1. g = [s \in SUBSET X |-> g[s]]  OBVIOUS
      <3> HIDE DEF g
      <3> QED BY <2>5, <3>1 DEF Adds
    <2> HIDE DEF g
    <2> QED BY <2>6
  <1>2. {} \in Good
    BY <1>1
  <1>3. SUBSET S \subseteq Good
    <2> HIDE DEF Good
    <2> QED BY <1>1, <1>2, SubsetInduction
  <1> QED BY <1>3

\* What the sum is built from.
LEMMA SumBuilt ==
  ASSUME NEW f, NEW S, IsFiniteSet(S)
  PROVE  /\ SumFunctionOnSet(f, {}) = 0
         /\ S # {} => SumFunctionOnSet(f, S)
                        = f[Picked(S)] + SumFunctionOnSet(f, S \ {Picked(S)})
  <1> DEFINE H(X) == CHOOSE g : Adds(g, f, X)
  <1>1. \A X : IsFiniteSet(X) => Adds(H(X), f, X)
    BY AddsExists
  <1>2. \A X : SumFunctionOnSet(f, X) = H(X)[X]
    BY SumIs
  <1> HIDE DEF H
  <1>3. \A X : IsFiniteSet(X) => H(X)[X] = IF X = {} THEN 0 ELSE f[Picked(X)] + H(X)[X \ {Picked(X)}]
    BY <1>1 DEF Adds
  <1>4. IsFiniteSet({}) /\ IsFiniteSet(S \ {Picked(S)})
    BY FS_EmptySet, FS_Subset
  <1>5. H(S)[S \ {Picked(S)}] = H(S \ {Picked(S)})[S \ {Picked(S)}]
    <2> DEFINE rest == S \ {Picked(S)}
    <2>1. IsFiniteSet(rest) /\ rest \in SUBSET (S \cap rest)  BY <1>4
    <2> HIDE DEF rest
    <2>2. Adds(H(S), f, S) /\ Adds(H(rest), f, rest)  BY <1>1, <2>1
    <2>3. \A r \in SUBSET (S \cap rest) : H(S)[r] = H(rest)[r]
      <3> DEFINE g == H(S)
                 h == H(rest)
      <3>1. Adds(g, f, S) /\ Adds(h, f, rest)  BY <2>2
      <3> HIDE DEF g, h
      <3>2. \A r \in SUBSET (S \cap rest) : g[r] = h[r]  BY <3>1, AddsAgree
      <3> QED BY <3>2 DEF g, h
    <2> QED BY <2>1, <2>3 DEF rest
  <1> QED BY <1>2, <1>3, <1>4, <1>5

Sum(f, S) == SumFunctionOnSet(f, S)

LEMMA SumTyped ==
  ASSUME NEW f, NEW S, IsFiniteSet(S), \A x \in S : f[x] \in Int
  PROVE  Sum(f, S) \in Int
  <1> DEFINE Good == {X \in SUBSET S : Sum(f, X) \in Int}
  <1>1. {} \in Good
    <2>1. Sum(f, {}) = 0  BY SumBuilt DEF Sum
    <2> QED BY <2>1
  <1>2. ASSUME NEW X \in SUBSET S, \A x \in X : X \ {x} \in Good
        PROVE  X \in Good
    <2>1. CASE X = {}  BY <1>1, <2>1
    <2>2. CASE X # {}
      <3>1. X \ {Picked(X)} \in Good /\ Picked(X) \in X  BY <1>2, <2>2, PickedIn
      <3>2. Sum(f, X) = f[Picked(X)] + Sum(f, X \ {Picked(X)})
        BY <2>2, SumBuilt, FS_Subset DEF Sum
      <3> QED BY <3>1, <3>2
    <2> QED BY <2>1, <2>2
  <1>3. SUBSET S \subseteq Good
    <2> HIDE DEF Good
    <2> QED BY <1>1, <1>2, SubsetInduction
  <1> QED BY <1>3

\* Any element may be taken out first.
LEMMA SumPicks ==
  ASSUME NEW f, NEW S, IsFiniteSet(S), \A x \in S : f[x] \in Int, NEW a \in S
  PROVE  Sum(f, S) = f[a] + Sum(f, S \ {a})
  <1> DEFINE Good == {X \in SUBSET S : \A x \in X : Sum(f, X) = f[x] + Sum(f, X \ {x})}
  <1>1. {} \in Good  OBVIOUS
  <1>2. ASSUME NEW X \in SUBSET S, \A x \in X : X \ {x} \in Good
        PROVE  X \in Good
    <2>1. SUFFICES ASSUME NEW x \in X PROVE Sum(f, X) = f[x] + Sum(f, X \ {x})
      OBVIOUS
    <2> DEFINE p == Picked(X)
    <2>2. p \in X /\ IsFiniteSet(X) /\ IsFiniteSet(X \ {x}) /\ IsFiniteSet(X \ {p}) /\ IsFiniteSet((X \ {x}) \ {p})
      BY PickedIn, FS_Subset
    <2>3. Sum(f, X) = f[p] + Sum(f, X \ {p})
      BY <2>2, SumBuilt DEF Sum
    <2> HIDE DEF p
    <2>4. CASE x = p  BY <2>3, <2>4
    <2>5. CASE x # p
      <3>1. X \ {p} \in Good /\ X \ {x} \in Good  BY <1>2, <2>2
      <3>2. Sum(f, X \ {p}) = f[x] + Sum(f, (X \ {p}) \ {x})
        BY <2>2, <2>5, <3>1
      <3>3. Sum(f, X \ {x}) = f[p] + Sum(f, (X \ {x}) \ {p})
        BY <2>2, <2>5, <3>1
      <3>4. Sum(f, X \ {p}) = f[x] + Sum(f, (X \ {x}) \ {p})
        <4>1. (X \ {p}) \ {x} = (X \ {x}) \ {p}  OBVIOUS
        <4> QED BY <3>2, <4>1
      <3>5. Sum(f, (X \ {x}) \ {p}) \in Int /\ f[x] \in Int /\ f[p] \in Int
        BY <2>2, SumTyped
      <3> QED BY <2>3, <3>3, <3>4, <3>5
    <2> QED BY <2>4, <2>5
  <1>3. SUBSET S \subseteq Good
    <2> HIDE DEF Good
    <2> QED BY <1>1, <1>2, SubsetInduction
  <1> QED BY <1>3

\* The sum of sums, and of multiples; with k = 0, of functions that agree.
LEMMA SumLinear ==
  ASSUME NEW S, IsFiniteSet(S), NEW f, NEW g, NEW h, NEW k \in Int,
         \A x \in S : f[x] \in Int /\ g[x] \in Int /\ h[x] = f[x] + k * g[x]
  PROVE  Sum(h, S) = Sum(f, S) + k * Sum(g, S)
  <1> DEFINE Good == {X \in SUBSET S : Sum(h, X) = Sum(f, X) + k * Sum(g, X)}
  <1>1. ASSUME NEW X \in SUBSET S, \A x \in X : X \ {x} \in Good
        PROVE  X \in Good
    <2>1. IsFiniteSet(X) /\ \A x \in X : h[x] \in Int  BY FS_Subset
    <2>2. CASE X = {}
      <3>1. Sum(f, {}) = 0 /\ Sum(g, {}) = 0 /\ Sum(h, {}) = 0  BY SumBuilt DEF Sum
      <3> QED BY <2>2, <3>1
    <2>3. CASE X # {}
      <3>1. PICK x \in X : TRUE  BY <2>3
      <3> DEFINE Y == X \ {x}
      <3>2. Sum(f, Y) \in Int /\ Sum(g, Y) \in Int
        BY <2>1, FS_Subset, SumTyped
      <3>3. /\ Sum(f, X) = f[x] + Sum(f, Y) /\ Sum(g, X) = g[x] + Sum(g, Y)
            /\ Sum(h, X) = h[x] + Sum(h, Y)
        BY <2>1, <3>1, SumPicks
      <3>4. Sum(h, Y) = Sum(f, Y) + k * Sum(g, Y)  BY <1>1, <3>1
      <3> HIDE DEF Y
      <3>5. k * (g[x] + Sum(g, Y)) = k * g[x] + k * Sum(g, Y)
        BY <3>1, <3>2
      <3> QED BY <3>1, <3>2, <3>3, <3>4, <3>5
    <2> QED BY <2>2, <2>3
  <1>2. SUBSET S \subseteq Good
    <2> HIDE DEF Good
    <2> QED BY <1>1, SubsetInduction
  <1> QED BY <1>2

\* Only the values on the set matter.
LEMMA SumAgrees ==
  ASSUME NEW S, IsFiniteSet(S), NEW f, NEW h, \A x \in S : f[x] \in Int /\ h[x] = f[x]
  PROVE  Sum(h, S) = Sum(f, S)
  <1>1. \A x \in S : h[x] = f[x] + 0 * f[x]  OBVIOUS
  <1>2. Sum(h, S) = Sum(f, S) + 0 * Sum(f, S)  BY <1>1, SumLinear
  <1> QED BY <1>2, SumTyped

\* Two sets with nothing in common are summed apart.
LEMMA SumDisjoint ==
  ASSUME NEW S, NEW T, IsFiniteSet(S), IsFiniteSet(T), S \cap T = {},
         NEW f, \A x \in S \cup T : f[x] \in Int
  PROVE  Sum(f, S \cup T) = Sum(f, S) + Sum(f, T)
  <1> DEFINE Good == {X \in SUBSET S : Sum(f, X \cup T) = Sum(f, X) + Sum(f, T)}
  <1>0. Sum(f, T) \in Int  BY SumTyped
  <1>1. ASSUME NEW X \in SUBSET S, \A x \in X : X \ {x} \in Good
        PROVE  X \in Good
    <2>1. IsFiniteSet(X) /\ IsFiniteSet(X \cup T)  BY FS_Subset, FS_Union
    <2>2. CASE X = {}
      <3>1. Sum(f, {}) = 0  BY SumBuilt DEF Sum
      <3>2. X \cup T = T  BY <2>2
      <3> QED BY <1>0, <2>2, <3>1, <3>2
    <2>3. CASE X # {}
      <3>1. PICK x \in X : TRUE  BY <2>3
      <3> DEFINE Y == X \ {x}
      <3>2. Sum(f, Y) \in Int  BY <2>1, FS_Subset, SumTyped
      <3>3. Sum(f, X) = f[x] + Sum(f, Y)  BY <2>1, <3>1, SumPicks
      <3>4. Sum(f, X \cup T) = f[x] + Sum(f, Y \cup T)
        <4>1. (X \cup T) \ {x} = Y \cup T  BY <3>1
        <4>2. Sum(f, X \cup T) = f[x] + Sum(f, (X \cup T) \ {x})
          BY <2>1, <3>1, SumPicks
        <4> QED BY <4>1, <4>2
      <3>5. Sum(f, Y \cup T) = Sum(f, Y) + Sum(f, T)  BY <1>1, <3>1
      <3> HIDE DEF Y
      <3> QED BY <1>0, <3>1, <3>2, <3>3, <3>4, <3>5
    <2> QED BY <2>2, <2>3
  <1>2. SUBSET S \subseteq Good
    <2> HIDE DEF Good
    <2> QED BY <1>1, SubsetInduction
  <1> QED BY <1>2

\* What is added up by the group it belongs to is added up once.
LEMMA SumByGroup ==
  ASSUME NEW E, IsFiniteSet(E), NEW C, IsFiniteSet(C), NEW of, \A e \in E : of[e] \in C,
         NEW f, \A e \in E : f[e] \in Int
  PROVE  Sum(f, E) = Sum([c \in C |-> Sum(f, {e \in E : of[e] = c})], C)
  <1> DEFINE In(D) == {e \in E : of[e] \in D}
             group == [c \in C |-> Sum(f, {e \in E : of[e] = c})]
             Good == {D \in SUBSET C : Sum(f, In(D)) = Sum(group, D)}
  <1>0. \A D : IsFiniteSet(In(D))  BY FS_Subset
  <1>1. \A c \in C : group[c] = Sum(f, {e \in E : of[e] = c}) /\ group[c] \in Int
    <2>1. \A c \in C : IsFiniteSet({e \in E : of[e] = c})  BY FS_Subset
    <2>2. \A c \in C : Sum(f, {e \in E : of[e] = c}) \in Int  BY <2>1, SumTyped
    <2> QED BY <2>2
  <1>2. ASSUME NEW D \in SUBSET C, \A c \in D : D \ {c} \in Good
        PROVE  D \in Good
    <2>1. IsFiniteSet(D)  BY FS_Subset
    <2>2. CASE D = {}
      <3>1. Sum(f, {}) = 0 /\ Sum(group, {}) = 0  BY SumBuilt DEF Sum
      <3>2. In(D) = {}  BY <2>2
      <3> HIDE DEF group, In
      <3> QED BY <2>2, <3>1, <3>2
    <2>3. CASE D # {}
      <3>1. PICK c \in D : TRUE  BY <2>3
      <3> DEFINE own == {e \in E : of[e] = c}
                 rest == In(D \ {c})
      <3>2. In(D) = own \cup rest /\ own \cap rest = {}  BY <3>1
      <3>3. IsFiniteSet(own) /\ IsFiniteSet(rest)  BY <1>0, FS_Subset
      <3>4. \A e \in own \cup rest : f[e] \in Int  OBVIOUS
      <3>5. Sum(f, rest) = Sum(group, D \ {c})  BY <1>2, <3>1
      <3>6. Sum(f, own) = group[c] /\ group[c] \in Int  BY <1>1, <3>1
      <3> HIDE DEF own, rest, group, In
      <3>7. Sum(f, In(D)) = Sum(f, own) + Sum(f, rest)
        BY <3>2, <3>3, <3>4, SumDisjoint
      <3>8. Sum(group, D) = group[c] + Sum(group, D \ {c})
        <4>1. \A d \in D : group[d] \in Int  BY <1>1
        <4> QED BY <2>1, <3>1, <4>1, SumPicks
      <3> QED BY <3>5, <3>6, <3>7, <3>8
    <2> QED BY <2>2, <2>3
  <1>3. SUBSET C \subseteq Good
    <2> HIDE DEF Good
    <2> QED BY <1>2, SubsetInduction
  <1>4. In(C) = E  OBVIOUS
  <1>5. C \in Good  BY <1>3
  <1> QED BY <1>4, <1>5

LEMMA SumScaled ==
  ASSUME NEW S, IsFiniteSet(S), NEW g, NEW h, NEW k \in Int,
         \A x \in S : g[x] \in Int /\ h[x] = k * g[x]
  PROVE  Sum(h, S) = k * Sum(g, S)
  <1> DEFINE z == [x \in S |-> 0]
  <1>1. \A x \in S : z[x] = g[x] + (-1) * g[x]  OBVIOUS
  <1>2. Sum(z, S) = Sum(g, S) + (-1) * Sum(g, S)  BY <1>1, SumLinear
  <1>3. Sum(g, S) \in Int  BY SumTyped
  <1>4. Sum(z, S) = 0  BY <1>2, <1>3
  <1>5. \A x \in S : z[x] \in Int /\ h[x] = z[x] + k * g[x]
    <2>1. \A x \in S : k * g[x] \in Int  OBVIOUS
    <2> QED BY <2>1
  <1>6. Sum(h, S) = Sum(z, S) + k * Sum(g, S)
    <2> HIDE DEF z
    <2> QED BY <1>5, SumLinear
  <1>7. k * Sum(g, S) \in Int  BY <1>3
  <1> QED BY <1>4, <1>6, <1>7

LEMMA SumNatural ==
  ASSUME NEW f, NEW S, IsFiniteSet(S), \A x \in S : f[x] \in Nat
  PROVE  Sum(f, S) \in Nat
  <1> DEFINE Good == {X \in SUBSET S : Sum(f, X) \in Nat}
  <1>1. ASSUME NEW X \in SUBSET S, \A x \in X : X \ {x} \in Good
        PROVE  X \in Good
    <2>1. CASE X = {}
      <3>1. Sum(f, {}) = 0  BY SumBuilt DEF Sum
      <3> QED BY <2>1, <3>1
    <2>2. CASE X # {}
      <3>1. PICK x \in X : TRUE  BY <2>2
      <3>2. Sum(f, X) = f[x] + Sum(f, X \ {x})  BY <3>1, SumPicks, FS_Subset
      <3> QED BY <1>1, <3>1, <3>2
    <2> QED BY <2>1, <2>2
  <1>2. SUBSET S \subseteq Good
    <2> HIDE DEF Good
    <2> QED BY <1>1, SubsetInduction
  <1> QED BY <1>2

LEMMA Divides ==
  ASSUME NEW r \in Nat \ {0}, NEW k \in Nat
  PROVE  (r * k) \div r = k
  OBVIOUS

LEMMA Divided ==
  ASSUME NEW r \in Nat \ {0}, NEW a \in Nat, a % r = 0
  PROVE  a \div r \in Nat /\ a = r * (a \div r)
  OBVIOUS

-----------------------------------------------------------------------------
(* What the two queries add up.                                             *)

\* What SUM makes of a column without a NULL.
LEMMA SummedIs ==
  ASSUME NEW column, IsFiniteSet(DOMAIN column), \A x \in DOMAIN column : column[x] \in Nat
  PROVE  /\ Summed(column) = IF DOMAIN column = {} THEN Null ELSE Sum(column, DOMAIN column)
         /\ OrZero(Summed(column)) = Sum(column, DOMAIN column)
         /\ Sum(column, DOMAIN column) \in Nat
  <1>1. {x \in DOMAIN column : column[x] # Null} = DOMAIN column  BY MoneyAssumption
  <1>2. Summed(column) = IF DOMAIN column = {} THEN Null ELSE Sum(column, DOMAIN column)
    BY <1>1 DEF Summed, Sum
  <1>3. Sum(column, DOMAIN column) \in Nat  BY SumNatural
  <1>4. DOMAIN column = {} => Sum(column, DOMAIN column) = 0  BY SumBuilt DEF Sum
  <1> QED BY <1>2, <1>3, <1>4, MoneyAssumption DEF OrZero

Detached == {e \in Booked : spent[e].of = Null}
Of(c) == {e \in Booked : spent[e].of = c}
Uah == [e \in Extras |-> spent[e].uah]

LEMMA MoneyFacts ==
  ASSUME MoneyTypeOK
  PROVE  /\ IsFiniteSet(HeldCopies) /\ IsFiniteSet(Booked) /\ IsFiniteSet(Detached)
         /\ \A c : IsFiniteSet(Of(c))
         /\ \A c \in HeldCopies : held[c].quantity \in Nat /\ held[c].paid \in Paid
                                  /\ held[c].day \in PurchaseDays /\ TotalUah(c) \in Nat
         /\ \A e \in Booked : spent[e].uah \in Spent /\ Uah[e] = spent[e].uah /\ Uah[e] \in Nat
  <1>1. IsFiniteSet(HeldCopies) /\ IsFiniteSet(Booked)
    BY MoneyAssumption, FS_Subset DEF HeldCopies, Booked
  <1>2. \A X \in SUBSET Booked : IsFiniteSet(X)  BY <1>1, FS_Subset
  <1>3. ASSUME NEW c \in HeldCopies
        PROVE  held[c].quantity \in Nat /\ held[c].paid \in Paid
               /\ held[c].day \in PurchaseDays /\ TotalUah(c) \in Nat
    <2>1. held[c] \in [quantity : Pieces, paid : Paid, day : PurchaseDays]
      BY DEF MoneyTypeOK, HeldCopies
    <2>2. held[c].quantity \in Nat /\ held[c].paid \in Nat
      BY <2>1, MoneyAssumption
    <2> QED BY <2>1, <2>2 DEF TotalUah
  <1>4. ASSUME NEW e \in Booked
        PROVE  spent[e].uah \in Spent /\ Uah[e] = spent[e].uah /\ Uah[e] \in Nat
    <2>1. e \in Extras /\ spent[e] \in [uah : Spent, of : CardCopies \cup {Null}]
      BY DEF MoneyTypeOK, Booked
    <2> QED BY <2>1, MoneyAssumption DEF Uah
  <1>5. Detached \in SUBSET Booked /\ \A c : Of(c) \in SUBSET Booked
    BY DEF Detached, Of
  <1> QED BY <1>1, <1>2, <1>3, <1>4, <1>5

\* What is spent on the coin is what is spent on its purchases, and on none.
LEMMA SpentSplit ==
  ASSUME MoneyTypeOK, NEW f, \A e \in Booked : f[e] \in Int
  PROVE  Sum(f, Booked) = Sum(f, Detached) + Sum([c \in HeldCopies |-> Sum(f, Of(c))], HeldCopies)
  <1> DEFINE attached == Booked \ Detached
             of == [e \in attached |-> spent[e].of]
  <1>1. /\ Booked = Detached \cup attached /\ Detached \cap attached = {}
        /\ IsFiniteSet(Detached) /\ IsFiniteSet(attached) /\ IsFiniteSet(HeldCopies)
    BY MoneyFacts, FS_Subset DEF Detached
  <1>2. \A e \in attached : of[e] \in HeldCopies  BY DEF MoneyTypeOK, Detached
  <1>3. \A c \in HeldCopies : {e \in attached : of[e] = c} = Of(c)
    BY MoneyAssumption DEF Of, Detached, HeldCopies
  <1>4. Sum(f, Booked) = Sum(f, Detached) + Sum(f, attached)
    <2> HIDE DEF attached
    <2>1. \A e \in Detached \cup attached : f[e] \in Int  BY <1>1
    <2> QED BY <1>1, <2>1, SumDisjoint
  <1>5. Sum(f, attached) = Sum([c \in HeldCopies |-> Sum(f, {e \in attached : of[e] = c})], HeldCopies)
    <2>1. \A e \in attached : f[e] \in Int  OBVIOUS
    <2> HIDE DEF attached, of
    <2> QED BY <1>1, <1>2, <2>1, SumByGroup
  <1>6. [c \in HeldCopies |-> Sum(f, {e \in attached : of[e] = c})]
          = [c \in HeldCopies |-> Sum(f, Of(c))]
    BY <1>3
  <1> QED BY <1>4, <1>5, <1>6

PiecesOf(c) == held[c].quantity
Extra(c) == Sum(Uah, Of(c))

\* The sums of the card's own query, and those of a purchase.
LEMMA CardSums ==
  ASSUME MoneyTypeOK
  PROVE  /\ QuantityOwned = Sum([c \in HeldCopies |-> PiecesOf(c)], HeldCopies)
         /\ PurchaseTotalUah = Sum([c \in HeldCopies |-> TotalUah(c)], HeldCopies)
         /\ OrZero(SupportingUah) = Sum(Uah, Booked)
         /\ SupportingUah = IF Booked = {} THEN Null ELSE Sum(Uah, Booked)
         /\ OrZero(Summed([e \in Detached |-> spent[e].uah])) = Sum(Uah, Detached)
         /\ \A c : /\ OrZero(ExtrasOf(c)) = Extra(c)
                   /\ ExtrasOf(c) = IF Of(c) = {} THEN Null ELSE Extra(c)
                   /\ Extra(c) \in Nat
         /\ Sum(Uah, Booked) \in Nat /\ Sum(Uah, Detached) \in Nat
  <1>1. QuantityOwned = Sum([c \in HeldCopies |-> PiecesOf(c)], HeldCopies)
    <2> DEFINE col == [c \in HeldCopies |-> PiecesOf(c)]
    <2>1. DOMAIN col = HeldCopies /\ \A c \in HeldCopies : col[c] \in Nat
      BY MoneyFacts DEF PiecesOf
    <2>2. QuantityOwned = OrZero(Summed(col))  BY DEF QuantityOwned, PiecesOf
    <2> HIDE DEF col
    <2>3. OrZero(Summed(col)) = Sum(col, HeldCopies)
      BY <2>1, MoneyFacts, SummedIs
    <2> QED BY <2>2, <2>3 DEF col
  <1>2. PurchaseTotalUah = Sum([c \in HeldCopies |-> TotalUah(c)], HeldCopies)
    <2> DEFINE col == [c \in HeldCopies |-> TotalUah(c)]
    <2>1. DOMAIN col = HeldCopies /\ \A c \in HeldCopies : col[c] \in Nat
      BY MoneyFacts
    <2>2. PurchaseTotalUah = OrZero(Summed(col))  BY DEF PurchaseTotalUah
    <2> HIDE DEF col
    <2>3. OrZero(Summed(col)) = Sum(col, HeldCopies)
      BY <2>1, MoneyFacts, SummedIs
    <2> QED BY <2>2, <2>3 DEF col
  <1>3. ASSUME NEW X \in SUBSET Booked
        PROVE  /\ OrZero(Summed([e \in X |-> spent[e].uah])) = Sum(Uah, X)
               /\ Summed([e \in X |-> spent[e].uah]) = IF X = {} THEN Null ELSE Sum(Uah, X)
               /\ Sum(Uah, X) \in Nat
    <2> DEFINE col == [e \in X |-> spent[e].uah]
    <2>1. DOMAIN col = X /\ \A e \in X : col[e] = Uah[e] /\ col[e] \in Nat /\ Uah[e] \in Nat
      BY MoneyFacts
    <2>2. IsFiniteSet(X)  BY MoneyFacts, FS_Subset
    <2> HIDE DEF col
    <2>3. Sum(col, X) = Sum(Uah, X)  BY <2>1, <2>2, SumAgrees
    <2>4. /\ Summed(col) = IF X = {} THEN Null ELSE Sum(col, X)
          /\ OrZero(Summed(col)) = Sum(col, X) /\ Sum(col, X) \in Nat
      BY <2>1, <2>2, SummedIs
    <2> QED BY <2>3, <2>4 DEF col
  <1>4. /\ SupportingUah = Summed([e \in Booked |-> spent[e].uah])
        /\ \A c : ExtrasOf(c) = Summed([e \in Of(c) |-> spent[e].uah])
    BY DEF SupportingUah, ExtrasOf, Of
  <1>5. Detached \in SUBSET Booked /\ \A c : Of(c) \in SUBSET Booked
    BY DEF Detached, Of
  <1> QED BY <1>1, <1>2, <1>3, <1>4, <1>5 DEF Extra

\* In hryvnias, the change of the coin is that of its rows and what was spent on
\* none of them.
LEMMA ChangesOfRows ==
  ASSUME MoneyTypeOK, marketPrice # Null
  PROVE  Strip.change = SumFunction([c \in HeldCopies |-> CopyRow(c).change])
                          - (IF counting THEN Sum(Uah, Detached) ELSE 0)
  <1> DEFINE H == HeldCopies
             k == IF counting THEN 1 ELSE 0
             q == [c \in H |-> PiecesOf(c)]
             t == [c \in H |-> TotalUah(c)]
             x == [c \in H |-> Extra(c)]
             v == [c \in H |-> marketPrice * q[c]]
             w == [c \in H |-> v[c] + (-1) * t[c]]
             ch == [c \in H |-> CopyRow(c).change]
  <1>1. marketPrice \in Nat /\ k \in Int /\ counting \in BOOLEAN
    BY MoneyAssumption DEF MoneyTypeOK
  <1>2. \A c \in H : q[c] \in Nat /\ t[c] \in Nat /\ x[c] \in Nat
    BY MoneyFacts, CardSums DEF PiecesOf
  <1>3. \A c \in H : v[c] \in Int /\ w[c] \in Int
    <2>1. \A c \in H : marketPrice * q[c] \in Int  BY <1>1, <1>2
    <2> QED BY <1>2, <2>1
  <1>4. ASSUME NEW c \in H PROVE ch[c] = w[c] + (- k) * x[c]
    <2>1. ch[c] = Minus(marketPrice * PiecesOf(c),
                        IF counting THEN TotalUah(c) + OrZero(ExtrasOf(c)) ELSE TotalUah(c))
      BY <1>4 DEF CopyRow, PiecesOf
    <2>2. OrZero(ExtrasOf(c)) = x[c] /\ TotalUah(c) = t[c] /\ PiecesOf(c) = q[c]
      BY CardSums
    <2>3. \A a, b \in Nat : Minus(a, b) = a - b
      BY MoneyAssumption DEF Minus
    <2>4. marketPrice * q[c] \in Nat /\ q[c] \in Nat /\ t[c] \in Nat /\ x[c] \in Nat  BY <1>1, <1>2
    <2>5. ch[c] = v[c] - (IF counting THEN t[c] + x[c] ELSE t[c])
      <3> HIDE DEF q, t, x, ch
      <3> QED BY <1>1, <2>1, <2>2, <2>3, <2>4
    <2>6. v[c] \in Int /\ w[c] = v[c] + (-1) * t[c]  BY <1>3
    <2> HIDE DEF q, t, x, ch, v, w
    <2> QED BY <1>1, <2>4, <2>5, <2>6
  <1>5. IsFiniteSet(H)  BY MoneyFacts
  <1>6. Sum(v, H) = marketPrice * Sum(q, H)
    <2>1. \A c \in H : q[c] \in Int /\ v[c] = marketPrice * q[c]  BY <1>2
    <2> HIDE DEF q, v
    <2> QED BY <1>1, <1>5, <2>1, SumScaled
  <1>7. Sum(w, H) = Sum(v, H) + (-1) * Sum(t, H)
    <2>1. \A c \in H : v[c] \in Int /\ t[c] \in Int /\ w[c] = v[c] + (-1) * t[c]  BY <1>2, <1>3
    <2> HIDE DEF w, v, t
    <2> QED BY <1>5, <2>1, SumLinear
  <1>8. Sum(ch, H) = Sum(w, H) + (- k) * Sum(x, H)
    <2>1. \A c \in H : w[c] \in Int /\ x[c] \in Int /\ ch[c] = w[c] + (- k) * x[c]
      BY <1>2, <1>3, <1>4
    <2>2. - k \in Int  BY <1>1
    <2> HIDE DEF w, x, ch, k
    <2> QED BY <1>5, <2>1, <2>2, SumLinear
  <1>9. Sum(q, H) \in Int /\ Sum(t, H) \in Int /\ Sum(x, H) \in Int
    <2> HIDE DEF q, t, x
    <2> QED BY <1>2, <1>5, SumTyped
  <1>10. SumFunction(ch) = Sum(ch, H)  BY DEF SumFunction, Sum
  <1>11. Sum(Uah, Booked) = Sum(Uah, Detached) + Sum(x, H)
    BY MoneyFacts, SpentSplit DEF Extra
  <1>12. Strip.change = marketPrice * Sum(q, H) - (Sum(t, H) + k * Sum(Uah, Booked))
    <2>1. Strip.change = Minus(marketPrice * QuantityOwned,
             PurchaseTotalUah + IF counting /\ SupportingUah # Null THEN SupportingUah ELSE 0)
      BY DEF Strip, StripOf
    <2>2. (IF counting /\ SupportingUah # Null THEN SupportingUah ELSE 0) = k * Sum(Uah, Booked)
      BY <1>1, CardSums, MoneyAssumption DEF OrZero
    <2>3. QuantityOwned = Sum(q, H) /\ PurchaseTotalUah = Sum(t, H)  BY CardSums
    <2>4. Sum(q, H) \in Nat /\ Sum(t, H) \in Nat /\ Sum(Uah, Booked) \in Nat
      <3>1. Sum(Uah, Booked) \in Nat  BY CardSums
      <3> HIDE DEF q, t
      <3> QED BY <1>2, <1>5, <3>1, SumNatural
    <2>5. \A a, b \in Nat : Minus(a, b) = a - b
      BY MoneyAssumption DEF Minus
    <2> HIDE DEF q, t
    <2>6. marketPrice * Sum(q, H) \in Nat /\ Sum(t, H) + k * Sum(Uah, Booked) \in Nat
      BY <1>1, <2>4
    <2> HIDE DEF k
    <2> QED BY <2>1, <2>2, <2>3, <2>5, <2>6
  <1>13. Sum(Uah, Detached) \in Nat  BY CardSums
  <1>14. marketPrice * Sum(q, H) \in Int  BY <1>1, <1>9
  <1>15. Strip.change = SumFunction(ch) - (IF counting THEN Sum(Uah, Detached) ELSE 0)
    <2> HIDE DEF q, t, x, v, w, ch
    <2> DEFINE m == marketPrice * Sum(q, H)
    <2>1. m \in Int /\ Sum(v, H) = m  BY <1>6, <1>14
    <2>2. Strip.change = m - (Sum(t, H) + k * Sum(Uah, Booked))  BY <1>12
    <2>3. Sum(Uah, Booked) \in Int  BY CardSums
    <2> HIDE DEF m
    <2>4. CASE counting
      <3>1. k = 1  BY <2>4
      <3> HIDE DEF k
      <3> QED BY <1>7, <1>8, <1>9, <1>10, <1>11, <1>13, <2>1, <2>2, <2>3, <2>4, <3>1
    <2>5. CASE ~ counting
      <3>1. k = 0  BY <2>5
      <3> HIDE DEF k
      <3> QED BY <1>7, <1>8, <1>9, <1>10, <2>1, <2>2, <2>3, <2>5, <3>1
    <2> QED BY <2>4, <2>5
  <1> QED BY <1>15

\* Expenses divide evenly, alone and summed.
LEMMA ExpensesDivide ==
  ASSUME MoneyTypeOK, LiveRate # Null, NEW X \in SUBSET Booked
  PROVE  /\ Sum([e \in Extras |-> Uah[e] \div LiveRate], X) \in Nat
         /\ Sum(Uah, X) \div LiveRate = Sum([e \in Extras |-> Uah[e] \div LiveRate], X)
  <1> DEFINE L == LiveRate
             g == [e \in Extras |-> Uah[e] \div L]
  <1>1. L \in LiveRates /\ L \in Nat \ {0}
    BY MoneyAssumption DEF MoneyTypeOK, LiveRate
  <1>2. ASSUME NEW e \in X PROVE g[e] \in Nat /\ Uah[e] = L * g[e] /\ Uah[e] \in Nat
    <2>1. e \in Extras /\ Uah[e] \in Nat /\ Uah[e] % L = 0
      BY <1>1, MoneyFacts, MoneyAssumption DEF Booked
    <2> HIDE DEF L
    <2>2. g[e] = Uah[e] \div L  BY <2>1
    <2> QED BY <1>1, <2>1, <2>2, Divided
  <1>3. IsFiniteSet(X)  BY MoneyFacts, FS_Subset
  <1> HIDE DEF L, g
  <1>4. Sum(Uah, X) = L * Sum(g, X)  BY <1>1, <1>2, <1>3, SumScaled
  <1>5. Sum(g, X) \in Nat  BY <1>2, <1>3, SumNatural
  <1>6. Sum(Uah, X) \div L = Sum(g, X)  BY <1>1, <1>4, <1>5, Divides
  <1> QED BY <1>5, <1>6 DEF L, g

\* In the second currency, where every purchase has a rate of its own day.
LEMMA ApproxChangesOfRows ==
  ASSUME MoneyTypeOK, marketPrice # Null, LiveRate # Null, HeldCopies # {},
         \A c \in HeldCopies : TotalIn(c, shownIn) # Null
  PROVE  Strip.changeApprox
           = SumFunction([c \in HeldCopies |-> CopyRow(c).changeApprox])
               - Converted(IF counting THEN Sum(Uah, Detached) ELSE 0, LiveRate)
  <1> DEFINE H == HeldCopies
             L == LiveRate
             k == IF counting THEN 1 ELSE 0
             price == marketPrice \div L
             g == [e \in Extras |-> Uah[e] \div L]
             q == [c \in H |-> PiecesOf(c)]
             t == [c \in H |-> TotalIn(c, shownIn)]
             x == [c \in H |-> Sum(g, Of(c))]
             v == [c \in H |-> price * q[c]]
             w == [c \in H |-> v[c] + (-1) * t[c]]
             ch == [c \in H |-> CopyRow(c).changeApprox]
  <1>1. /\ L \in LiveRates /\ L \in Nat \ {0} /\ marketPrice \in Prices /\ marketPrice \in Nat
        /\ counting \in BOOLEAN /\ k \in Int /\ shownIn \in Currencies /\ L # Null
    <2>1. counting \in BOOLEAN /\ shownIn \in Currencies /\ marketPrice \in Prices
          /\ L \in LiveRates /\ L # Null
      BY DEF MoneyTypeOK, LiveRate
    <2>2. marketPrice \in Nat /\ L \in Nat \ {0}  BY <2>1, MoneyAssumption
    <2> QED BY <2>1, <2>2
  <1>2. price \in Nat /\ marketPrice = L * price
    <2>1. marketPrice % L = 0  BY <1>1, MoneyAssumption
    <2> HIDE DEF L
    <2> QED BY <1>1, <2>1, Divided
  <1>3. \A n \in Nat : Converted(marketPrice * n, L) = price * n /\ price * n \in Nat
    <2>1. ASSUME NEW n \in Nat PROVE (marketPrice * n) \div L = price * n /\ price * n \in Nat
      <3> HIDE DEF L, price
      <3>1. marketPrice * n = L * (price * n) /\ price * n \in Nat  BY <1>1, <1>2
      <3> QED BY <1>1, <3>1, Divides
    <2>2. ASSUME NEW n \in Nat PROVE marketPrice * n \in Nat  BY <1>1
    <2> HIDE DEF L, price
    <2> QED BY <1>1, <2>1, <2>2, MoneyAssumption DEF Converted
  <1>4. ASSUME NEW c \in H PROVE q[c] \in Nat /\ t[c] \in Nat /\ t[c] = TotalIn(c, shownIn)
    <2> DEFINE r == RateOn[held[c].day][shownIn]
    <2>1. /\ TotalUah(c) \in Nat /\ q[c] \in Nat /\ held[c].paid \in Paid /\ held[c].day \in PurchaseDays
      BY <1>4, MoneyFacts DEF PiecesOf
    <2>2. r \in Nat \ {0}
      <3>1. r # Null  BY <1>4 DEF TotalIn, Converted, OwnRate
      <3> QED BY <1>1, <2>1, <3>1, MoneyAssumption
    <2>3. t[c] = TotalUah(c) \div r
      BY <1>4 DEF TotalIn, Converted, OwnRate
    <2>4. TotalUah(c) \div r \in Nat
      <3> HIDE DEF r
      <3> QED BY <2>1, <2>2
    <2> QED BY <2>1, <2>3, <2>4
  <1>5. ASSUME NEW X \in SUBSET Booked
        PROVE  Converted(Sum(Uah, X), L) = Sum(g, X) /\ Sum(g, X) \in Nat /\ Sum(Uah, X) \in Nat
    <2>1. IsFiniteSet(X) /\ \A e \in X : Uah[e] \in Nat  BY MoneyFacts, FS_Subset
    <2>2. Sum(Uah, X) \in Nat  BY <2>1, SumNatural
    <2>3. Sum(g, X) \in Nat /\ Sum(Uah, X) \div L = Sum(g, X)  BY ExpensesDivide
    <2> HIDE DEF g, L
    <2> QED BY <1>1, <2>2, <2>3, MoneyAssumption DEF Converted
  <1>6. /\ Detached \in SUBSET Booked /\ Booked \in SUBSET Booked /\ \A c : Of(c) \in SUBSET Booked
    BY DEF Detached, Of
  <1>7. \A c \in H : v[c] \in Int /\ w[c] \in Int /\ x[c] \in Nat /\ v[c] \in Nat
    <2>1. \A c \in H : price * q[c] \in Nat  BY <1>3, <1>4
    <2>2. \A c \in H : v[c] \in Nat  BY <2>1
    <2>3. \A c \in H : x[c] = Sum(g, Of(c))  OBVIOUS
    <2> HIDE DEF v, g, x
    <2> QED BY <1>4, <1>5, <1>6, <2>2, <2>3
  <1>8. \A a, b \in Nat : Minus(a, b) = a - b /\ Plus(a, b) = a + b
    BY MoneyAssumption DEF Minus, Plus
  <1>9. ASSUME NEW c \in H PROVE ch[c] = w[c] + (- k) * x[c]
    <2>1. ch[c] = Minus(Converted(marketPrice * PiecesOf(c), L),
                        IF counting
                        THEN IF ExtrasOf(c) = Null THEN t[c]
                             ELSE Plus(t[c], Converted(ExtrasOf(c), L))
                        ELSE t[c])
      BY <1>9 DEF CopyRow, PiecesOf
    <2>2. ExtrasOf(c) = IF Of(c) = {} THEN Null ELSE Sum(Uah, Of(c))
      BY CardSums DEF Extra
    <2>3. Converted(Sum(Uah, Of(c)), L) = x[c] /\ Sum(Uah, Of(c)) \in Nat
      BY <1>5, <1>6
    <2>4. Of(c) = {} => x[c] = 0
      <3>1. Sum(g, {}) = 0  BY SumBuilt, FS_EmptySet DEF Sum
      <3>2. x[c] = Sum(g, Of(c))  OBVIOUS
      <3> HIDE DEF g, x
      <3> QED BY <3>1, <3>2
    <2>5. Converted(marketPrice * PiecesOf(c), L) = v[c] /\ w[c] = v[c] + (-1) * t[c]
      <3>1. PiecesOf(c) = q[c] /\ v[c] = price * q[c]  OBVIOUS
      <3> HIDE DEF L, price, q, v
      <3> QED BY <1>3, <1>4, <3>1
    <2>6. t[c] \in Nat /\ x[c] \in Nat /\ v[c] \in Nat  BY <1>4, <1>7
    <2> HIDE DEF L, q, t, x, v, w, ch
    <2>7. ch[c] = v[c] - (IF counting THEN t[c] + x[c] ELSE t[c])
      <3>1. CASE counting /\ Of(c) # {}
        <4>1. ExtrasOf(c) = Sum(Uah, Of(c)) /\ ExtrasOf(c) # Null
          BY <2>2, <2>3, <3>1, MoneyAssumption
        <4>2. Converted(ExtrasOf(c), L) = x[c]  BY <2>3, <4>1
        <4>3. ch[c] = Minus(v[c], Plus(t[c], x[c]))
          BY <2>1, <2>5, <3>1, <4>1, <4>2
        <4> QED BY <1>8, <2>6, <3>1, <4>3
      <3>2. CASE counting /\ Of(c) = {}
        <4>1. ExtrasOf(c) = Null  BY <2>2, <3>2
        <4>2. ch[c] = Minus(v[c], t[c])  BY <2>1, <2>5, <3>2, <4>1
        <4>3. x[c] = 0  BY <2>4, <3>2
        <4> QED BY <1>8, <2>6, <3>2, <4>2, <4>3
      <3>3. CASE ~ counting
        <4>1. ch[c] = Minus(v[c], t[c])  BY <2>1, <2>5, <3>3
        <4> QED BY <1>8, <2>6, <3>3, <4>1
      <3> QED BY <3>1, <3>2, <3>3
    <2> QED BY <2>5, <2>6, <2>7
  <1>10. IsFiniteSet(H)  BY MoneyFacts
  <1>11. Sum(v, H) = price * Sum(q, H)
    <2>1. \A c \in H : q[c] \in Int /\ v[c] = price * q[c]  BY <1>4
    <2> HIDE DEF q, v, price
    <2> QED BY <1>2, <1>10, <2>1, SumScaled
  <1>12. Sum(w, H) = Sum(v, H) + (-1) * Sum(t, H)
    <2>1. \A c \in H : w[c] = v[c] + (-1) * t[c]  OBVIOUS
    <2>2. \A c \in H : v[c] \in Int /\ t[c] \in Int
      <3>1. \A c \in H : v[c] \in Int  BY <1>7
      <3>2. \A c \in H : t[c] \in Int
        <4> HIDE DEF t
        <4> QED BY <1>4
      <3> QED BY <3>1, <3>2
    <2> HIDE DEF w, v, t
    <2> QED BY <1>10, <2>1, <2>2, SumLinear
  <1>13. Sum(ch, H) = Sum(w, H) + (- k) * Sum(x, H)
    <2>1. \A c \in H : w[c] \in Int /\ x[c] \in Int /\ ch[c] = w[c] + (- k) * x[c]
      BY <1>7, <1>9
    <2>2. - k \in Int  BY <1>1
    <2> HIDE DEF w, x, ch, k
    <2> QED BY <1>10, <2>1, <2>2, SumLinear
  <1>14. Sum(q, H) \in Nat /\ Sum(t, H) \in Nat /\ Sum(x, H) \in Nat /\ Sum(v, H) \in Nat
    <2> HIDE DEF q, t, x, v
    <2> QED BY <1>4, <1>7, <1>10, SumNatural
  <1>15. SumFunction(ch) = Sum(ch, H)  BY DEF SumFunction, Sum
  <1>16. Sum(g, Booked) = Sum(g, Detached) + Sum(x, H)
    <2>1. \A e \in Booked : g[e] \in Int
      <3>1. \A e \in Booked : e \in Extras /\ Uah[e] \in Nat  BY MoneyFacts DEF Booked
      <3>2. \A a \in Nat : a \div L \in Int  BY <1>1
      <3> HIDE DEF L
      <3> QED BY <3>1, <3>2
    <2> HIDE DEF g
    <2> QED BY <2>1, SpentSplit
  <1>17. Strip.changeApprox = Sum(v, H) - (Sum(t, H) + k * Sum(g, Booked))
    <2>1. Strip.changeApprox =
            Minus(Converted(marketPrice * QuantityOwned, L),
                  IF counting /\ SupportingUah # Null
                  THEN Plus(PurchaseTotalIn(shownIn), Converted(SupportingUah, L))
                  ELSE PurchaseTotalIn(shownIn))
      BY DEF Strip, StripOf
    <2>2. PurchaseTotalIn(shownIn) = Sum(t, H)
      <3>1. PurchaseTotalIn(shownIn) = Summed(t)  BY DEF PurchaseTotalIn
      <3>2. DOMAIN t = H  OBVIOUS
      <3> HIDE DEF t
      <3> QED BY <1>4, <1>10, <3>1, <3>2, SummedIs
    <2>3. Converted(marketPrice * QuantityOwned, L) = Sum(v, H)
      <3>1. QuantityOwned = Sum(q, H)  BY CardSums
      <3> HIDE DEF L, q, v, price
      <3> QED BY <1>3, <1>11, <1>14, <3>1
    <2>4. SupportingUah = IF Booked = {} THEN Null ELSE Sum(Uah, Booked)  BY CardSums
    <2>5. Converted(Sum(Uah, Booked), L) = Sum(g, Booked) /\ Sum(g, Booked) \in Nat /\ Sum(Uah, Booked) \in Nat
      BY <1>5, <1>6
    <2>6. Booked = {} => Sum(g, Booked) = 0
      <3>1. Sum(g, {}) = 0  BY SumBuilt, FS_EmptySet DEF Sum
      <3> HIDE DEF g
      <3> QED BY <3>1
    <2> HIDE DEF L, v, t, g
    <2>7. CASE counting /\ Booked # {}
      <3>1. SupportingUah = Sum(Uah, Booked) /\ SupportingUah # Null
        BY <2>4, <2>5, <2>7, MoneyAssumption
      <3>2. Strip.changeApprox = Minus(Sum(v, H), Plus(Sum(t, H), Sum(g, Booked)))
        BY <2>1, <2>2, <2>3, <2>5, <2>7, <3>1
      <3> QED BY <1>8, <1>14, <2>5, <2>7, <3>2
    <2>8. CASE counting /\ Booked = {}
      BY <1>8, <1>14, <2>1, <2>2, <2>3, <2>4, <2>6, <2>8
    <2>9. CASE ~ counting
      BY <1>8, <1>14, <2>1, <2>2, <2>3, <2>5, <2>9
    <2> QED BY <2>7, <2>8, <2>9
  <1>18. Converted(IF counting THEN Sum(Uah, Detached) ELSE 0, L) = k * Sum(g, Detached)
    <2>1. Converted(Sum(Uah, Detached), L) = Sum(g, Detached) /\ Sum(g, Detached) \in Nat
      BY <1>5, <1>6
    <2>2. Converted(0, L) = 0
      <3> HIDE DEF L
      <3> QED BY <1>1, MoneyAssumption DEF Converted
    <2> HIDE DEF L, g
    <2> QED BY <1>1, <2>1, <2>2
  <1>19. Sum(g, Detached) \in Nat /\ Sum(g, Booked) \in Nat
    BY <1>5, <1>6
  <1>20. Strip.changeApprox = SumFunction(ch)
           - Converted(IF counting THEN Sum(Uah, Detached) ELSE 0, L)
    <2> HIDE DEF L, g, q, t, x, v, w, ch
    <2>4. CASE counting
      <3>1. k = 1  BY <2>4
      <3> HIDE DEF k
      <3> QED BY <1>12, <1>13, <1>14, <1>15, <1>16, <1>17, <1>18, <1>19, <3>1
    <2>5. CASE ~ counting
      <3>1. k = 0  BY <2>5
      <3> HIDE DEF k
      <3> QED BY <1>12, <1>13, <1>14, <1>15, <1>16, <1>17, <1>18, <1>19, <3>1
    <2> QED BY <2>4, <2>5
  <1> QED BY <1>20

-----------------------------------------------------------------------------
(* Every state of the card.                                                 *)

LEMMA MoneyBegins == MoneyInit => MoneyTypeOK
  BY DEF MoneyInit, MoneyTypeOK, NoCopy, NoExtra, Booked, Currencies

LEMMA MoneyStep ==
  ASSUME MoneyTypeOK, [MoneyNext]_moneyVars
  PROVE  MoneyTypeOK'
  <1> USE DEF MoneyTypeOK
  <1>1. ASSUME NEW c \in CardCopies, NEW n \in Pieces, NEW paid \in Paid, NEW day \in PurchaseDays,
               NEW es \in SUBSET Extras, NEW uah \in Spent, Buy(c, Copy(n, paid, day), es, uah)
        PROVE  MoneyTypeOK'
    <2>1. held' \in [CardCopies -> {NoCopy} \cup [quantity : Pieces, paid : Paid, day : PurchaseDays]]
      BY <1>1 DEF Buy, Copy
    <2>2. spent' \in [Extras -> {NoExtra} \cup [uah : Spent, of : CardCopies \cup {Null}]]
      BY <1>1 DEF Buy
    <2>3. HeldCopies \subseteq HeldCopies' /\ c \in HeldCopies'
      BY <1>1 DEF Buy, Copy, NoCopy, HeldCopies
    <2>4. \A e \in Booked' : spent'[e].of = Null \/ spent'[e].of \in HeldCopies'
      <3>1. ASSUME NEW e \in Booked' PROVE spent'[e].of = Null \/ spent'[e].of \in HeldCopies'
        <4>1. e \in Extras /\ spent'[e] # NoExtra  BY DEF Booked
        <4>2. CASE e \in es
          BY <1>1, <2>3, <4>1, <4>2 DEF Buy
        <4>3. CASE e \notin es
          <5>1. spent'[e] = spent[e]  BY <1>1, <4>1, <4>3 DEF Buy
          <5> QED BY <2>3, <4>1, <5>1 DEF Booked
        <4> QED BY <4>2, <4>3
      <3> QED BY <3>1
    <2> QED BY <1>1, <2>1, <2>2, <2>4 DEF Buy
  <1>2. ASSUME NEW c \in CardCopies, NEW n \in Pieces, NEW paid \in Paid, NEW day \in PurchaseDays,
               EditCopy(c, Copy(n, paid, day))
        PROVE  MoneyTypeOK'
    <2>1. held' \in [CardCopies -> {NoCopy} \cup [quantity : Pieces, paid : Paid, day : PurchaseDays]]
      BY <1>2 DEF EditCopy, Copy
    <2>2. HeldCopies \subseteq HeldCopies'
      BY <1>2 DEF EditCopy, Copy, NoCopy, HeldCopies
    <2> QED BY <1>2, <2>1, <2>2 DEF EditCopy, Booked
  <1>3. ASSUME NEW c \in CardCopies, DeleteCopy(c)
        PROVE  MoneyTypeOK'
    <2>1. held' \in [CardCopies -> {NoCopy} \cup [quantity : Pieces, paid : Paid, day : PurchaseDays]]
      BY <1>3 DEF DeleteCopy
    <2>2. ASSUME NEW e \in Extras
          PROVE  /\ spent'[e] \in {NoExtra} \cup [uah : Spent, of : CardCopies \cup {Null}]
                 /\ e \in Booked' => /\ e \in Booked
                                     /\ (spent'[e].of = Null) \/ (spent'[e].of = spent[e].of /\ spent[e].of # c)
      <3>1. spent'[e] = IF spent[e].of = c THEN [spent[e] EXCEPT !.of = Null] ELSE spent[e]
        BY <1>3 DEF DeleteCopy
      <3>2. CASE spent[e] = NoExtra
        <4>1. NoExtra.of # c  BY MoneyAssumption DEF NoExtra
        <4>2. spent'[e] = NoExtra  BY <3>1, <3>2, <4>1
        <4> QED BY <4>2 DEF Booked
      <3>3. CASE spent[e] # NoExtra
        <4>1. e \in Booked /\ spent[e] \in [uah : Spent, of : CardCopies \cup {Null}]  BY <3>3 DEF Booked
        <4>2. CASE spent[e].of = c
          BY <3>1, <4>1, <4>2
        <4>3. CASE spent[e].of # c
          BY <3>1, <4>1, <4>3
        <4> QED BY <4>2, <4>3
      <3> QED BY <3>2, <3>3
    <2>3. spent' \in [Extras -> {NoExtra} \cup [uah : Spent, of : CardCopies \cup {Null}]]
      BY <1>3, <2>2 DEF DeleteCopy
    <2>4. HeldCopies \ {c} \subseteq HeldCopies'
      BY <1>3 DEF DeleteCopy, HeldCopies
    <2>5. \A e \in Booked' : spent'[e].of = Null \/ spent'[e].of \in HeldCopies'
      <3>1. \A e \in Booked' : e \in Extras  BY DEF Booked
      <3> QED BY <2>2, <2>4, <3>1
    <2> QED BY <1>3, <2>1, <2>3, <2>5 DEF DeleteCopy
  <1>4. ASSUME NEW e \in Extras, NEW uah \in Spent, AddExtra(e, uah)
        PROVE  MoneyTypeOK'
    <2>1. spent' \in [Extras -> {NoExtra} \cup [uah : Spent, of : CardCopies \cup {Null}]]
      BY <1>4 DEF AddExtra
    <2>2. \A d \in Booked' : spent'[d].of = Null \/ (d \in Booked /\ spent'[d] = spent[d])
      <3>1. ASSUME NEW d \in Booked' PROVE spent'[d].of = Null \/ (d \in Booked /\ spent'[d] = spent[d])
        <4>1. d \in Extras /\ spent'[d] # NoExtra  BY DEF Booked
        <4>2. CASE d = e  BY <1>4, <4>1, <4>2 DEF AddExtra
        <4>3. CASE d # e  BY <1>4, <4>1, <4>3 DEF AddExtra, Booked
        <4> QED BY <4>2, <4>3
      <3> QED BY <3>1
    <2> QED BY <1>4, <2>1, <2>2 DEF AddExtra, HeldCopies
  <1>5. ASSUME NEW e \in Extras, NEW uah \in Spent, EditExtra(e, uah)
        PROVE  MoneyTypeOK'
    <2>1. spent' \in [Extras -> {NoExtra} \cup [uah : Spent, of : CardCopies \cup {Null}]]
      BY <1>5 DEF EditExtra
    <2>2. \A d \in Booked' : d \in Booked /\ spent'[d].of = spent[d].of
      BY <1>5 DEF EditExtra, Booked
    <2> QED BY <1>5, <2>1, <2>2 DEF EditExtra, HeldCopies
  <1>6. ASSUME NEW e \in Extras, DeleteExtra(e)
        PROVE  MoneyTypeOK'
    <2>1. spent' \in [Extras -> {NoExtra} \cup [uah : Spent, of : CardCopies \cup {Null}]]
      BY <1>6 DEF DeleteExtra
    <2>2. \A d \in Booked' : d \in Booked /\ spent'[d] = spent[d]
      BY <1>6 DEF DeleteExtra, Booked
    <2> QED BY <1>6, <2>1, <2>2 DEF DeleteExtra, HeldCopies
  <1>7. ASSUME UNCHANGED <<held, spent>>, 
               /\ marketPrice' \in Prices \cup {Null}
               /\ lastRate' \in [Currencies -> LiveRates \cup {Null}]
               /\ counting' \in BOOLEAN /\ shownIn' \in Currencies
        PROVE  MoneyTypeOK'
    BY <1>7 DEF HeldCopies, Booked
  <1>8. ASSUME NEW p \in Prices, Reprice(p) PROVE MoneyTypeOK'
    BY <1>7, <1>8 DEF Reprice
  <1>9. ASSUME NEW k \in Currencies, NEW r \in LiveRates, PublishRate(k, r) PROVE MoneyTypeOK'
    BY <1>7, <1>9 DEF PublishRate
  <1>10. CASE ToggleCounting
    BY <1>7, <1>10 DEF ToggleCounting
  <1>11. ASSUME NEW k \in Currencies, SwitchCurrency(k) PROVE MoneyTypeOK'
    BY <1>7, <1>11 DEF SwitchCurrency
  <1>12. CASE UNCHANGED moneyVars
    BY <1>7, <1>12 DEF moneyVars
  <1> QED BY <1>1, <1>2, <1>3, <1>4, <1>5, <1>6, <1>8, <1>9, <1>10, <1>11, <1>12 DEF MoneyNext

\* What the card adds up is always well formed: a purchase, an expense, a price and a
\* rate keep to what the schemas and the feed allow, and an expense that names a
\* purchase names one that is still there (collection_item_id's ON DELETE SET NULL).
THEOREM MoneyTyped == MoneySpec => []MoneyTypeOK
<1>1. MoneyTypeOK /\ [MoneyNext]_moneyVars => MoneyTypeOK'
  BY MoneyStep
<1>2. QED
  BY <1>1, MoneyBegins, PTL DEF MoneySpec

\* The card does not contradict itself, whatever is bought, edited and deleted: the
\* change in its strip of sums (ValueSummary) is the changes in the rows of its table
\* (InstancesList) taken together, less what was spent on the coin and on no purchase
\* that is left, each expense counted once.  The two come from different queries and
\* different components.
THEOREM ChangesAgree == MoneySpec => []ChangesAddUp
<1>1. ASSUME MoneyTypeOK PROVE ChangesAddUp
  <2> DEFINE loose == OrZero(Summed([e \in {e \in Booked : spent[e].of = Null} |-> spent[e].uah]))
  <2>1. loose = Sum(Uah, Detached)
    BY <1>1, CardSums DEF Detached
  <2>2. Sidebar.quantity = SumFunction([c \in HeldCopies |-> CopyRow(c).quantity])
    <3>1. [c \in HeldCopies |-> CopyRow(c).quantity] = [c \in HeldCopies |-> PiecesOf(c)]
      BY DEF CopyRow, PiecesOf
    <3>2. SumFunction([c \in HeldCopies |-> PiecesOf(c)]) = Sum([c \in HeldCopies |-> PiecesOf(c)], HeldCopies)
      BY DEF SumFunction, Sum
    <3>3. Sidebar.quantity = QuantityOwned  BY DEF Sidebar
    <3> QED BY <1>1, <3>1, <3>2, <3>3, CardSums
  <2>3. marketPrice # Null => Strip.value = Sidebar.price * Sidebar.quantity
    BY DEF Strip, StripOf, Sidebar
  <2>4. marketPrice # Null => Strip.change = SumFunction([c \in HeldCopies |-> CopyRow(c).change])
                                               - (IF counting THEN loose ELSE 0)
    BY <1>1, <2>1, ChangesOfRows
  <2>5. ASSUME marketPrice # Null, LiveRate # Null, HeldCopies # {},
               \A c \in HeldCopies : CopyRow(c).ownApprox # Null
        PROVE  Strip.changeApprox = SumFunction([c \in HeldCopies |-> CopyRow(c).changeApprox])
                 - Converted(IF counting THEN loose ELSE 0, LiveRate)
    <3>1. \A c \in HeldCopies : TotalIn(c, shownIn) # Null
      BY <2>5 DEF CopyRow
    <3> QED BY <1>1, <2>1, <2>5, <3>1, ApproxChangesOfRows
  <2> HIDE DEF loose
  <2> QED BY <2>2, <2>3, <2>4, <2>5 DEF ChangesAddUp, StripIsShown, loose
<1>2. QED
  BY <1>1, MoneyTyped, PTL
=============================================================================
