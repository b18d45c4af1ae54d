------------------------------ MODULE Profile ------------------------------
(***************************************************************************)
(* The rest of the settings page: the display name, the interface          *)
(* language, the avatar, the password, the theme and the switches, each    *)
(* saved by a request of its own the moment it is changed.                 *)
(*                                                                         *)
(* A profile request answers with the whole profile as it was when the     *)
(* server applied it, and the page takes the answer for the user.  A       *)
(* settings request answers with nothing the page keeps: it makes the page *)
(* read the settings again.  Requests overtake each other on the way to    *)
(* the server and on the way back; the controls that are disabled while    *)
(* their own request is under way, and the fields that are not, are those  *)
(* of the code.  One switch stands for the five of its kind.               *)
(***************************************************************************)
EXTENDS Integers, FiniteSets

CONSTANTS DisplayNames,        \* display names
          Avatars,     \* pictures the user may pick
          MaxSaves      \* how many requests the user makes

NoAvatar == "none"
Locales == {"uk", "en"}
Themes == {"light", "dark"}
Profiles == [name : DisplayNames, locale : Locales, avatar : Avatars \cup {NoAvatar}]
Switch == {"on", "off"}
Settings == [theme : Themes, flag : Switch]

ASSUME ProfileAssumption ==
    /\ DisplayNames # {}
    /\ NoAvatar \notin Avatars
    /\ MaxSaves \in Nat

VARIABLES profile, settings,    \* what the server keeps
          user,                 \* the profile as the page last got it
          nameText,             \* displayName of the form
          nameFocused,
          language,             \* of the interface
          preference,           \* the theme shown
          knownSettings,                \* the settings as last read: none yet, or one
          asked, read,          \* a question for them is under way; what it has read
          themeApplied,         \* ThemeSettingsSync has run
          picked,               \* the picture in the crop dialog
          password,             \* what the password form holds
          profileSaves, savesMade,          \* the requests under way, how many were made
          amiss         \* what an overtaken save, a lost answer or a question that
                        \* failed may have left wrong on the page (not code)

profileVars == <<profile, settings, user, nameText, nameFocused, language, preference,
                 knownSettings, asked, read, themeApplied, picked, password, profileSaves,
                 savesMade, amiss>>

SavePending(op) == \E s \in profileSaves : s.op = op

Save(op, v) ==
    /\ savesMade < MaxSaves
    /\ savesMade' = savesMade + 1
    /\ profileSaves' = profileSaves \cup {[id |-> savesMade, op |-> op, value |-> v,
                                          stage |-> "sent", answer |-> user]}

\* A question for the settings; one under way is asked anew.
AskSettings(anew) ==
    /\ asked' = (asked \/ anew)
    /\ read' = IF anew THEN {} ELSE read

ProfileInit ==
    /\ profile \in {p \in Profiles : p.locale = "uk"}
    /\ settings \in Settings
    /\ user = profile
    /\ nameText = profile.name
    /\ nameFocused = FALSE
    /\ language = "uk"
    /\ preference \in Themes
    /\ knownSettings = {} /\ asked = TRUE /\ read = {}
    /\ themeApplied = FALSE
    /\ picked = NoAvatar
    /\ password = "empty"
    /\ profileSaves = {} /\ savesMade = 0
    /\ amiss = {}

-----------------------------------------------------------------------------
(* The display name.                                                        *)

EditName(t) ==
    /\ t # nameText
    /\ nameText' = t
    /\ nameFocused' = TRUE
    /\ UNCHANGED <<profile, settings, user, language, preference, knownSettings, asked,
                   read, themeApplied, picked, password, profileSaves, savesMade,
                   amiss>>

\* Enter, or leaving the field: a name equal to the user's sends nothing.
SaveName(focused) ==
    /\ nameFocused
    /\ nameFocused' = focused
    /\ IF nameText = user.name THEN UNCHANGED <<profileSaves, savesMade>>
       ELSE Save("name", nameText)
    /\ UNCHANGED <<profile, settings, user, nameText, language, preference, knownSettings,
                   asked, read, themeApplied, picked, password, amiss>>

-----------------------------------------------------------------------------
(* Language, theme and switches.                                            *)

\* The select is disabled while its request is under way; the language it shows
\* may be picked again, and so may the theme.
PickLocale(l) ==
    /\ ~SavePending("locale")
    /\ Save("locale", l)
    /\ UNCHANGED <<profile, settings, user, nameText, nameFocused, language, preference,
                   knownSettings, asked, read, themeApplied, picked, password,
                   amiss>>

\* The theme's tabs are never disabled; the header's buttons change the
\* theme here and nowhere else.
PickTheme(t) ==
    /\ preference' = t
    /\ Save("theme", t)
    /\ UNCHANGED <<profile, settings, user, nameText, nameFocused, language,
                   knownSettings, asked, read, themeApplied, picked, password,
                   amiss>>

PickThemeInHeader(t) ==
    /\ t # preference
    /\ preference' = t
    /\ UNCHANGED <<profile, settings, user, nameText, nameFocused, language,
                   knownSettings, asked, read, themeApplied, picked, password,
                   profileSaves, savesMade, amiss>>

\* A switch shows what was last read and sends its opposite; it is disabled
\* until the settings are there and while its request is under way.
Flip ==
    /\ ~SavePending("flag")
    /\ \E k \in knownSettings, v \in Switch : v # k.flag /\ Save("flag", v)
    /\ UNCHANGED <<profile, settings, user, nameText, nameFocused, language, preference,
                   knownSettings, asked, read, themeApplied, picked, password,
                   amiss>>

-----------------------------------------------------------------------------
(* The avatar.                                                              *)

\* Picking a file opens the crop dialog on it.
PickFile(p) ==
    /\ picked = NoAvatar
    /\ picked' = p
    /\ UNCHANGED <<profile, settings, user, nameText, nameFocused, language, preference,
                   knownSettings, asked, read, themeApplied, password, profileSaves,
                   savesMade, amiss>>

\* Escape, the backdrop and the cross close it even while it uploads.
ReleasePicked ==
    /\ picked # NoAvatar
    /\ picked' = NoAvatar
    /\ UNCHANGED <<profile, settings, user, nameText, nameFocused, language, preference,
                   knownSettings, asked, read, themeApplied, password, profileSaves,
                   savesMade, amiss>>

UploadAvatar ==
    /\ picked # NoAvatar
    /\ ~SavePending("upload")
    /\ Save("upload", picked)
    /\ UNCHANGED <<profile, settings, user, nameText, nameFocused, language, preference,
                   knownSettings, asked, read, themeApplied, picked, password,
                   amiss>>

DeleteAvatar ==
    /\ user.avatar # NoAvatar
    /\ picked = NoAvatar
    /\ ~SavePending("delete")
    /\ Save("delete", NoAvatar)
    /\ UNCHANGED <<profile, settings, user, nameText, nameFocused, language, preference,
                   knownSettings, asked, read, themeApplied, picked, password,
                   amiss>>

-----------------------------------------------------------------------------
(* The password form.                                                       *)

EnterPassword(entry) ==
    /\ entry # password
    /\ password' = entry
    /\ UNCHANGED <<profile, settings, user, nameText, nameFocused, language, preference,
                   knownSettings, asked, read, themeApplied, picked, profileSaves,
                   savesMade, amiss>>

\* A short password or a repeat that differs is refused by the form.
SubmitPassword ==
    /\ password = "entered"
    /\ ~SavePending("password")
    /\ Save("password", password)
    /\ UNCHANGED <<profile, settings, user, nameText, nameFocused, language, preference,
                   knownSettings, asked, read, themeApplied, picked, password,
                   amiss>>

-----------------------------------------------------------------------------
(* The server and its answers.                                              *)

IsProfile(s) == s.op \in {"name", "locale", "upload", "delete", "password"}

\* An earlier request for the profile has come as far as this one, and no further.
Overtakes(s) ==
    IsProfile(s) /\ \E r \in profileSaves : IsProfile(r) /\ r.stage = s.stage /\ r.id < s.id

After(s) ==
    CASE s.op = "name" -> [profile EXCEPT !.name = s.value]
      [] s.op = "locale" -> [profile EXCEPT !.locale = s.value]
      [] s.op = "upload" -> [profile EXCEPT !.avatar = s.value]
      [] s.op = "delete" -> [profile EXCEPT !.avatar = NoAvatar]
      [] OTHER -> profile

ApplySave(s) ==
    /\ s \in profileSaves /\ s.stage = "sent"
    /\ profile' = After(s)
    /\ settings' = CASE s.op = "theme" -> [settings EXCEPT !.theme = s.value]
                     [] s.op = "flag" -> [settings EXCEPT !.flag = s.value]
                     [] OTHER -> settings
    /\ profileSaves' = (profileSaves \ {s})
                         \cup {[s EXCEPT !.stage = "done", !.answer = profile']}
    /\ amiss' = amiss \cup {part \in {"profile"} : Overtakes(s)}
    /\ UNCHANGED <<user, nameText, nameFocused, language, preference, knownSettings,
                   asked, read, themeApplied, picked, password, savesMade>>

\* Mutant of ProfileAnswered: the user is left as it was.
ProfileAnsweredUnseen(s) ==
    /\ s \in profileSaves /\ s.stage = "done" /\ IsProfile(s)
    /\ profileSaves' = profileSaves \ {s}
    /\ user' = IF s.op = "name" THEN user ELSE s.answer
    /\ language' = IF s.op = "locale" THEN s.answer.locale ELSE language
    /\ knownSettings' = IF s.op = "locale" THEN {} ELSE knownSettings
    /\ AskSettings(s.op = "locale")
    /\ picked' = IF s.op = "upload" THEN NoAvatar ELSE picked
    /\ password' = IF s.op = "password" THEN "empty" ELSE password
    /\ amiss' = (IF s.op = "locale" THEN amiss \ {"settings"} ELSE amiss)
                  \cup {part \in {"profile"} : Overtakes(s)}
    /\ UNCHANGED <<profile, settings, nameText, nameFocused, preference, themeApplied,
                   savesMade>>

\* updateUser and what goes with it: a new language empties the cache, an
\* upload closes the dialog whatever it shows by now, an accepted password
\* empties the form.
ProfileAnswered(s) ==
    /\ s \in profileSaves /\ s.stage = "done" /\ IsProfile(s)
    /\ profileSaves' = profileSaves \ {s}
    /\ user' = s.answer
    /\ language' = IF s.op = "locale" THEN s.answer.locale ELSE language
    /\ knownSettings' = IF s.op = "locale" THEN {} ELSE knownSettings
    /\ AskSettings(s.op = "locale")
    /\ picked' = IF s.op = "upload" THEN NoAvatar ELSE picked
    /\ password' = IF s.op = "password" THEN "empty" ELSE password
    /\ amiss' = (IF s.op = "locale" THEN amiss \ {"settings"} ELSE amiss)
                  \cup {part \in {"profile"} : Overtakes(s)}
    /\ UNCHANGED <<profile, settings, nameText, nameFocused, preference, themeApplied,
                   savesMade>>

\* invalidateQueries(['bootstrap']): a question under way is asked anew.
SettingsSaved(s) ==
    /\ s \in profileSaves /\ s.stage = "done" /\ ~IsProfile(s)
    /\ profileSaves' = profileSaves \ {s}
    /\ AskSettings(TRUE)
    /\ UNCHANGED <<profile, settings, user, nameText, nameFocused, language, preference,
                   knownSettings, themeApplied, picked, password, savesMade>>
    /\ amiss' = amiss \ {"settings"}

\* A refusal.  The profile's are told, a settings one is not; an upload's
\* closes the dialog all the same.
SaveRefused(s) ==
    /\ s \in profileSaves /\ s.stage = "sent"
    /\ profileSaves' = profileSaves \ {s}
    /\ picked' = IF s.op = "upload" THEN NoAvatar ELSE picked
    /\ UNCHANGED <<profile, settings, user, nameText, nameFocused, language, preference,
                   knownSettings, asked, read, themeApplied, password, savesMade,
                   amiss>>

\* The request was applied, and its answer lost.
SaveLost(s) ==
    /\ s \in profileSaves /\ s.stage = "done"
    /\ profileSaves' = profileSaves \ {s}
    /\ picked' = IF s.op = "upload" THEN NoAvatar ELSE picked
    /\ amiss' = amiss \cup {IF IsProfile(s) THEN "profile" ELSE "settings"}
    /\ UNCHANGED <<profile, settings, user, nameText, nameFocused, language, preference,
                   knownSettings, asked, read, themeApplied, password, savesMade>>

ReadBootstrap ==
    /\ asked /\ read = {}
    /\ read' = {settings}
    /\ UNCHANGED <<profile, settings, user, nameText, nameFocused, language, preference,
                   knownSettings, asked, themeApplied, picked, password, profileSaves,
                   savesMade, amiss>>

\* The first answer of a sign-in sets the theme, over whatever was picked
\* while it was under way.
BootstrapAnswered ==
    /\ read # {}
    /\ knownSettings' = read
    /\ asked' = FALSE /\ read' = {}
    /\ \E r \in read : preference' = IF themeApplied THEN preference ELSE r.theme
    /\ themeApplied' = TRUE
    /\ UNCHANGED <<profile, settings, user, nameText, nameFocused, language, picked,
                   password, profileSaves, savesMade, amiss>>

\* The question fails; the page keeps what it had.
BootstrapFailed ==
    /\ asked
    /\ asked' = FALSE /\ read' = {}
    /\ amiss' = amiss \cup {"settings"}
    /\ UNCHANGED <<profile, settings, user, nameText, nameFocused, language, preference,
                   knownSettings, themeApplied, picked, password, profileSaves, savesMade>>

ProfileNext ==
    \/ \E t \in DisplayNames : EditName(t)
    \/ \E focused \in BOOLEAN : SaveName(focused)
    \/ \E l \in Locales : PickLocale(l)
    \/ \E t \in Themes : PickTheme(t) \/ PickThemeInHeader(t)
    \/ Flip
    \/ \E p \in Avatars : PickFile(p)
    \/ ReleasePicked \/ UploadAvatar \/ DeleteAvatar
    \/ \E e \in {"refused by the form", "entered"} : EnterPassword(e)
    \/ SubmitPassword
    \/ \E s \in profileSaves :
           \/ ApplySave(s) \/ ProfileAnswered(s) \/ SettingsSaved(s)
           \/ SaveRefused(s) \/ SaveLost(s)
    \/ ReadBootstrap \/ BootstrapAnswered \/ BootstrapFailed

ProfileSpec == ProfileInit /\ [][ProfileNext]_profileVars

-----------------------------------------------------------------------------
(* Properties.                                                              *)

\* The type of the page's state.
ProfileTypeOK ==
    /\ profile \in Profiles /\ user \in Profiles
    /\ settings \in Settings
    /\ nameText \in DisplayNames
    /\ {nameFocused, themeApplied} \subseteq BOOLEAN /\ amiss \subseteq {"profile", "settings"}
    /\ language \in Locales /\ preference \in Themes
    /\ knownSettings \subseteq Settings /\ Cardinality(knownSettings) <= 1
    /\ read \subseteq Settings /\ Cardinality(read) <= 1
    /\ asked \in BOOLEAN
    /\ picked \in Avatars \cup {NoAvatar}
    /\ password \in {"empty", "refused by the form", "entered"}
    /\ savesMade \in 0..MaxSaves

\* When the answers to all saves have come, the page shows the profile the server
\* keeps and speaks its language, in whatever order settings were saved; and once
\* no question is open it shows the settings the server keeps, in whatever order
\* anything was saved.  The exceptions are what the code does not mend: after a
\* profile request that overtook an earlier one, or lost its answer, nothing is
\* promised of the profile, and after a settings answer that was lost, or a
\* question that failed, nothing of the settings until they are asked for again.
PageSettles ==
    profileSaves = {} =>
        /\ "profile" \notin amiss => user = profile /\ language = user.locale
        /\ "settings" \notin amiss /\ ~asked => knownSettings = {settings}

=============================================================================
