----------------------------- MODULE Proposals -----------------------------
(***************************************************************************)
(* One proposed coin, and an administrator at its card: the bar with       *)
(* publish, reject and edit (ProposalActions), the editor with the crop    *)
(* dialog over it (ProposalEditor, CropDialog), the enlarged photo         *)
(* (Lightbox), what all of these do to the scrolling of the page behind    *)
(* them (Modal, useDismissable, pageScroll), and the requests the server   *)
(* answers (api/v1/admin.py, services/catalog.py).                         *)
(*                                                                         *)
(* A rival administrator decides and edits through the same handlers.  A   *)
(* handler reads the record and later updates the columns that change: the *)
(* two are separate steps, and nothing locks the row in between.           *)
(***************************************************************************)
EXTENDS Integers, FiniteSets, Sequences

CONSTANTS Contents,        \* contents of the fields
          Pictures,     \* pictures to upload
          CoinSides,        \* of a coin that have photos
          MaxDecisions  \* how many requests the administrators make in all

NoPicture == "no picture"
Keep == "keep"

ASSUME ProposalsAssumption ==
    /\ Contents # {} /\ CoinSides # {}
    /\ {NoPicture, Keep} \cap Pictures = {}
    /\ MaxDecisions \in Nat

Photos == [CoinSides -> Pictures \cup {NoPicture}]
Statuses == {"draft", "active", "rejected"}
Items == [status : Statuses, archived : BOOLEAN, fields : Contents, photos : Photos]

\* What may lie over the page, in the order of the component tree.
Overlays == <<"editor", "crop", "confirm", "lightbox">>
Order(o) == CHOOSE n \in DOMAIN Overlays : Overlays[n] = o
AnyOverlay == {"editor", "crop", "confirm", "lightbox"}

VARIABLES item,         \* the record, as committed
          decisions,    \* the decisions the server accepted, in order
          txn,          \* what each administrator's handler has read, if it is running
          place,        \* "card" or "list"
          overlays,     \* the overlays that are open
          found,        \* what each lock of the scrolling found
          overflow,     \* of the page: "" or "hidden"
          fields, photoEdits,   \* the editor: its fields, the changes of the photos
          raw, side,            \* the picture in the crop dialog, the side it is for
          encoding,             \* what is being encoded: nothing, or a picture for a side
          blurred,              \* the picture warned about
          underWay,     \* the request of the page: its kind, or "none"
          sent,         \* what an edit saves
          step, left,   \* its request under way; the photos it still has to send
          answer,       \* of the last request: "none", "ok", "refused" or "lost"
          decisionsAsked, rivalSaves,   \* how many requests were made
          rivalActed    \* the rival had a hand in it since the page's edit began

server == <<item, decisions, txn>>
dialogs == <<overlays, found, overflow>>
editor == <<fields, photoEdits>>
crop == <<raw, side, encoding, blurred>>
request == <<underWay, sent, step, left, answer, decisionsAsked>>
rival == <<rivalSaves, rivalActed>>
proposalVars == <<server, place, dialogs, editor, crop, request, rival>>

FirstSide == CHOOSE s \in CoinSides : TRUE
NoEdits == [s \in CoinSides |-> Keep]
NewEditor == [fields |-> CHOOSE t \in Contents : TRUE, edits |-> NoEdits]

ProposalInit ==
    /\ item \in {i \in Items : i.status = "draft" /\ ~i.archived
                               /\ i.photos = [s \in CoinSides |-> NoPicture]}
    /\ decisions = <<>>
    /\ txn = [a \in {"page", "rival"} |-> "none"]
    /\ place = "card"
    /\ overlays = {} /\ found = [o \in AnyOverlay |-> ""] /\ overflow = ""
    /\ fields = NewEditor.fields /\ photoEdits = NoEdits
    /\ raw = NoPicture /\ side = FirstSide /\ encoding = {} /\ blurred = NoPicture
    /\ underWay = "none" /\ sent = NewEditor
    /\ step = "none" /\ left = {} /\ answer = "none" /\ decisionsAsked = 0
    /\ rivalSaves = 0 /\ rivalActed = FALSE

-----------------------------------------------------------------------------
(* Overlays and the scrolling of the page.                                  *)

\* lockPageScroll: each lock remembers what it found.
Lock(o) ==
    /\ overlays' = overlays \cup {o}
    /\ found' = [found EXCEPT ![o] = overflow]
    /\ overflow' = "hidden"

\* The undo of each, in the order in which React runs the effects of what
\* leaves the tree; the last one has the last word.
Unlock(gone) ==
    /\ overlays' = overlays \ gone
    /\ found' = [o \in AnyOverlay |-> IF o \in gone THEN "" ELSE found[o]]
    /\ overflow' = IF gone \cap overlays = {} THEN overflow
                   ELSE LET last == CHOOSE o \in gone \cap overlays :
                                        \A p \in gone \cap overlays : Order(p) <= Order(o)
                        IN found[last]

\* A press reaches what lies on top.
OnTop(o) == o \in overlays /\ \A p \in overlays : Order(p) <= Order(o)
Bare == place = "card" /\ overlays = {}
Busy == underWay # "none"

Enlarge ==
    /\ Bare
    /\ Lock("lightbox")
    /\ UNCHANGED <<server, place, editor, crop, request, rival>>

AskToReject ==
    /\ Bare /\ ~Busy
    /\ Lock("confirm")
    /\ UNCHANGED <<server, place, editor, crop, request, rival>>

\* The editor is mounted afresh, with the card as last read.
EditProposal(text) ==
    /\ Bare /\ ~Busy
    /\ Lock("editor")
    /\ fields' = text /\ photoEdits' = NoEdits
    /\ UNCHANGED <<server, place, crop, request, rival>>

\* The cross, the backdrop and Cancel close what lies on top.  The crop
\* dialog stays mounted under the editor: an encoding goes on, and a warning
\* outlives the picture it was for.
CloseCrop ==
    /\ OnTop("crop")
    /\ Unlock({"crop"})
    /\ raw' = NoPicture
    /\ UNCHANGED <<server, place, editor, side, encoding, blurred, request, rival>>

\* What leaves the tree leaves its state: the editor's and the crop dialog's.
EditorGone ==
    /\ fields' = NewEditor.fields /\ photoEdits' = NoEdits
    /\ raw' = NoPicture /\ side' = FirstSide /\ encoding' = {} /\ blurred' = NoPicture

Close(o) ==
    /\ OnTop(o) /\ o # "crop"
    /\ Unlock({o})
    /\ EditorGone
    /\ UNCHANGED <<server, place, request, rival>>

\* Every open overlay hears Escape, busy or not; the editor takes the crop
\* dialog with it.
EscapeOverlay ==
    /\ overlays # {}
    /\ Unlock(overlays)
    /\ EditorGone
    /\ UNCHANGED <<server, place, request, rival>>

-----------------------------------------------------------------------------
(* The editor and the crop dialog.                                          *)

EditField(text) ==
    /\ OnTop("editor") /\ text # fields
    /\ fields' = text
    /\ UNCHANGED <<server, place, dialogs, photoEdits, crop, request, rival>>

RemovePhoto(s) ==
    /\ OnTop("editor") /\ photoEdits[s] # NoPicture
    /\ photoEdits' = [photoEdits EXCEPT ![s] = NoPicture]
    /\ UNCHANGED <<server, place, dialogs, fields, crop, request, rival>>

\* A picked file opens the crop dialog, the lock of the editor still on.
PickSidePhoto(s, p) ==
    /\ OnTop("editor")
    /\ raw' = p /\ side' = s
    /\ Lock("crop")
    /\ UNCHANGED <<server, place, editor, encoding, blurred, request, rival>>

\* save: the picture is encoded, and looked at for blur, in the background.
SaveCrop ==
    /\ OnTop("crop") /\ encoding = {} /\ blurred = NoPicture
    /\ encoding' = {[picture |-> raw, side |-> side]}
    /\ UNCHANGED <<server, place, dialogs, editor, raw, side, blurred, request, rival>>

\* onCropSave: the photo is taken, and whatever the dialog shows is released.
Taken(p, s) ==
    /\ photoEdits' = [photoEdits EXCEPT ![s] = p]
    /\ raw' = NoPicture
    /\ Unlock({"crop"})

\* The encoding ends: with a failure, a warning, or the photo, which is
\* taken even when the dialog was closed meanwhile.
Encoded(outcome) ==
    \E e \in encoding :
       /\ encoding' = {}
       /\ blurred' = IF outcome = "blurred" THEN e.picture ELSE blurred
       /\ IF outcome = "sharp" THEN Taken(e.picture, e.side) ELSE UNCHANGED <<photoEdits,
                                                                              raw, dialogs>>
       /\ UNCHANGED <<server, place, fields, side, request, rival>>

DropBlurred ==
    /\ OnTop("crop") /\ blurred # NoPicture
    /\ blurred' = NoPicture
    /\ UNCHANGED <<server, place, dialogs, editor, raw, side, encoding, request, rival>>

SaveAnyway ==
    /\ OnTop("crop") /\ blurred # NoPicture
    /\ blurred' = NoPicture
    /\ Taken(blurred, side)
    /\ UNCHANGED <<server, place, fields, side, encoding, request, rival>>

-----------------------------------------------------------------------------
(* Requests of the page.                                                    *)

Send(kind, first) ==
    /\ decisionsAsked + rivalSaves < MaxDecisions
    /\ decisionsAsked' = decisionsAsked + 1
    /\ underWay' = kind /\ step' = first /\ answer' = "none"

Approve ==
    /\ Bare /\ ~Busy
    /\ Send("approve", "approve")
    /\ UNCHANGED <<server, place, dialogs, editor, crop, sent, left, rival>>

ConfirmReject ==
    /\ OnTop("confirm") /\ ~Busy
    /\ Send("reject", "reject")
    /\ UNCHANGED <<server, place, dialogs, editor, crop, sent, left, rival>>

\* Save and publish: the fields and the photos as they are now.
Submit ==
    /\ OnTop("editor") /\ ~Busy
    /\ Send("edit", "fields")
    /\ sent' = [fields |-> fields, edits |-> photoEdits]
    /\ left' = {s \in CoinSides : photoEdits[s] # Keep}
    /\ rivalActed' = (txn["rival"] # "none")
    /\ UNCHANGED <<server, place, dialogs, editor, crop, rivalSaves>>

\* Fields, then photos, then approval: each awaited before the next.
NextStep ==
    /\ underWay = "edit" /\ answer = "ok" /\ step # "approve"
    /\ step' = IF left = {} THEN "approve" ELSE "photo"
    /\ answer' = "none"
    /\ UNCHANGED <<server, place, dialogs, editor, crop, underWay, sent, left,
                   decisionsAsked, rival>>

\* finish: the page leads to the list; the card goes, with everything that
\* lay over it.
FinishEdit ==
    /\ Busy /\ answer = "ok" /\ (underWay = "edit" => step = "approve")
    /\ underWay' = "none" /\ step' = "none" /\ answer' = "none"
    /\ place' = "list"
    /\ Unlock(overlays)
    /\ EditorGone
    /\ sent' = NewEditor /\ left' = {}
    /\ UNCHANGED <<server, decisionsAsked, rival>>

\* An error is told, whatever it was, and the page stays as it is.
RequestFailed ==
    /\ Busy /\ answer \in {"refused", "lost"}
    /\ underWay' = "none" /\ step' = "none" /\ answer' = "none"
    /\ sent' = NewEditor /\ left' = {}
    /\ UNCHANGED <<server, place, dialogs, editor, crop, decisionsAsked, rival>>

\* The visitor leaves the card (a route change closes what is open) and comes
\* back; the bar is shown as it was, for the proposal read before is kept.
\* Leaving while a request is under way is left out.
LeaveCard ==
    /\ place = "card" /\ ~Busy
    /\ place' = "list"
    /\ Unlock(overlays)
    /\ EditorGone
    /\ UNCHANGED <<server, request, rival>>

ComeBack ==
    /\ place = "list"
    /\ place' = "card"
    /\ UNCHANGED <<server, dialogs, editor, crop, request, rival>>

-----------------------------------------------------------------------------
(* The server.  Every handler reads the record, and updates it later.       *)

\* What the page has asked and not been answered.
PendingStep == IF answer = "none" THEN step ELSE "none"
IsDraft == item.status = "draft" /\ ~item.archived

\* The handlers of the proposals ask for a draft; the one of the fields,
\* PATCH /catalog/{id}, does not.
Begin(a, op) ==
    /\ txn[a] = "none"
    /\ op = "fields" \/ IsDraft
    /\ txn' = [txn EXCEPT ![a] = op]
    /\ IF a = "page" THEN op = PendingStep /\ UNCHANGED rival
       ELSE /\ decisionsAsked + rivalSaves < MaxDecisions
            /\ rivalSaves' = rivalSaves + 1
            /\ rivalActed' = TRUE
    /\ UNCHANGED <<item, decisions, place, dialogs, editor, crop, request>>

\* Refused: no longer a draft (404, 409), or a file that is not an image.
Refuse ==
    /\ txn["page"] = "none"
    /\ PendingStep # "none"
    /\ PendingStep \notin {"fields", "photo"} => ~IsDraft
    /\ answer' = "refused"
    /\ UNCHANGED <<server, place, dialogs, editor, crop, underWay, sent, step, left,
                   decisionsAsked, rival>>

Decide(a, op) ==
    /\ decisions' = Append(decisions, [by |-> a, what |-> op])
    /\ item' = IF op = "approve" THEN [item EXCEPT !.status = "active"]
               ELSE [item EXCEPT !.status = "rejected", !.archived = TRUE]

\* The columns that the handler changes, and the commit; the answer may be
\* lost on its way.
CommitDecision(reply) ==
    /\ txn["page"] # "none"
    /\ \/ /\ txn["page"] \in {"approve", "reject"}
          /\ Decide("page", txn["page"])
          /\ UNCHANGED left
       \/ /\ txn["page"] = "fields"
          /\ item' = [item EXCEPT !.fields = sent.fields]
          /\ UNCHANGED <<decisions, left>>
       \/ /\ txn["page"] = "photo"
          /\ \E s \in left : /\ item' = [item EXCEPT !.photos[s] = sent.edits[s]]
                             /\ left' = left \ {s}
          /\ UNCHANGED decisions
    /\ txn' = [txn EXCEPT !["page"] = "none"]
    /\ answer' = reply
    /\ UNCHANGED <<place, dialogs, editor, crop, underWay, sent, step, decisionsAsked,
                   rival>>

RivalCommits(text) ==
    /\ txn["rival"] # "none"
    /\ IF txn["rival"] = "fields"
       THEN item' = [item EXCEPT !.fields = text] /\ UNCHANGED decisions
       ELSE Decide("rival", txn["rival"])
    /\ txn' = [txn EXCEPT !["rival"] = "none"]
    /\ UNCHANGED <<place, dialogs, editor, crop, request, rival>>

ProposalNext ==
    \/ Enlarge \/ AskToReject \/ LeaveCard \/ ComeBack
    \/ \E t \in Contents : EditProposal(t) \/ EditField(t) \/ RivalCommits(t)
    \/ \E o \in AnyOverlay : Close(o)
    \/ CloseCrop \/ EscapeOverlay
    \/ \E s \in CoinSides : RemovePhoto(s) \/ \E p \in Pictures : PickSidePhoto(s, p)
    \/ SaveCrop \/ DropBlurred \/ SaveAnyway
    \/ \E o \in {"failed", "blurred", "sharp"} : Encoded(o)
    \/ Approve \/ ConfirmReject \/ Submit \/ NextStep \/ FinishEdit \/ RequestFailed
    \/ \E op \in {"approve", "reject", "fields", "photo"} : Begin("page", op)
    \/ \E op \in {"approve", "reject", "fields"} : Begin("rival", op)
    \/ Refuse
    \/ \E reply \in {"ok", "lost"} : CommitDecision(reply)

ProposalSpec == ProposalInit /\ [][ProposalNext]_proposalVars

-----------------------------------------------------------------------------
(* Properties.                                                              *)

Changes == [CoinSides -> Pictures \cup {NoPicture, Keep}]

\* The type of the state.
ProposalTypeOK ==
    /\ item \in Items
    /\ \A n \in DOMAIN decisions : decisions[n].by \in {"page", "rival"}
    /\ txn \in [{"page", "rival"} -> {"none", "approve", "reject", "fields", "photo"}]
    /\ place \in {"card", "list"}
    /\ overlays \subseteq AnyOverlay /\ overflow \in {"", "hidden"}
    /\ found \in [AnyOverlay -> {"", "hidden"}]
    /\ fields \in Contents /\ photoEdits \in Changes
    /\ raw \in Pictures \cup {NoPicture} /\ blurred \in Pictures \cup {NoPicture}
    /\ side \in CoinSides
    /\ encoding \subseteq [picture : Pictures, side : CoinSides]
    /\ underWay \in {"none", "approve", "reject", "edit"}
    /\ sent \in [fields : Contents, edits : Changes]
    /\ step \in {"none", "approve", "reject", "fields", "photo"} /\ left \subseteq CoinSides
    /\ answer \in {"none", "ok", "refused", "lost"}
    /\ decisionsAsked \in 0..MaxDecisions /\ rivalSaves \in 0..MaxDecisions
    /\ rivalActed \in BOOLEAN

\* The page behind an open overlay does not scroll, however overlays are
\* opened over each other and closed.
PageFrozen == overlays # {} => overflow = "hidden"

\* Save and publish updates the fields, then the photos, then publishes: when
\* an edit publishes and no one else interferes, all it changed is in the
\* record by then.
PublishedWhole ==
    [][ underWay = "edit" /\ ~rivalActed /\ Len(decisions') > Len(decisions) =>
          /\ item'.fields = sent.fields
          /\ \A s \in CoinSides : sent.edits[s] # Keep => item'.photos[s] = sent.edits[s]
      ]_proposalVars

\* As long as one administrator works alone, a proposal is decided once,
\* however often an answer is lost and the button pressed again.
OneDecision == rivalSaves = 0 => Len(decisions) <= 1

\* docs/api.md: approving or rejecting what is no longer a draft (another
\* administrator) is refused; so a proposal is decided once.
DecidedOnce == Len(decisions) <= 1

\* The comment of lockPageScroll: nesting is safe.  With nothing open the page
\* scrolls.
ScrollRestored == overlays = {} => overflow = ""

=============================================================================
