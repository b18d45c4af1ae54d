------------------------------ MODULE MCParts ------------------------------
(***************************************************************************)
(* Eleven parts of the system that share no state, in one instance: a      *)
(* behaviour moves one of them, chosen at the start, and the others stay   *)
(* as they were.  The reachable states are those of the eleven, side by    *)
(* side.                                                                   *)
(***************************************************************************)
EXTENDS AddForm, Menus, PeriodPicker, StorageField, Profile, Proposals, Photos,
        ExpensesJournal, CoinPhotos, ChartPeriod, CoinMoney

CONSTANTS ua, pl, t1, t2, e1, e2, p1, w1, w2

MCSymmetry == Permutations({ua, pl}) \cup Permutations({w1, w2})

MCFound(needle) == CASE needle = "a" -> {2, 3} [] needle = "ab" -> {3} [] OTHER -> {}
MCMinYear == <<1, 1>>
MCMaxYear == <<1, 3>>
MCStarts(name, text) == name = text
MCContents == {t1, t2}
MCDays ==
    {[y |-> 2024, m |-> 2, d |-> 29], [y |-> 2023, m |-> 3, d |-> 31],
     [y |-> 2024, m |-> 5, d |-> 31]}
MCRateOn ==
    "d0" :> [USD |-> Null, EUR |-> Null] @@ "d1" :> [USD |-> 2, EUR |-> 4]

VARIABLE part

\* A part that stays has one of its initial states.  The names, the themes
\* and the switch of the profile are alike: it starts from one of each.
PartsInit ==
    /\ part \in {"form", "menus", "period", "storage", "profile", "proposal", "photos",
                 "journal", "coin", "chart", "money"}
    /\ Init /\ (part # "form" => kind = "other" /\ coin = None)
    /\ MenuInit /\ (part # "menus" => menuKind = "select" /\ searchable /\ value = 0)
    /\ PeriodInit /\ (part # "period" => ~phone)
    /\ StorageInit /\ (part # "storage" => stored = NoText /\ places = {Preset})
    /\ ProfileInit
    /\ profile.name = "a" /\ settings = [theme |-> "light", flag |-> "on"]
    /\ (part # "profile" => profile.avatar = NoAvatar /\ preference = "light")
    /\ ProposalInit /\ (part # "proposal" => item.fields = t1)
    /\ PhotosInit /\ (part # "photos" => service = "avatar")
    /\ JournalInit /\ (part # "journal" => journal = [x \in Entries |-> w1])
    /\ CoinPhotosInit /\ (part # "coin" => loaded = [f \in Faces |-> NoFile])
    /\ ChartInit /\ (part # "chart" => today.m = 3)
    /\ MoneyInit

Still(p, v) == IF part = p THEN TRUE ELSE UNCHANGED v

PartsNext ==
    /\ UNCHANGED part
    /\ Still("form", vars) /\ Still("menus", menuVars) /\ Still("period", periodVars)
    /\ Still("storage", storageVars) /\ Still("profile", profileVars)
    /\ Still("proposal", proposalVars) /\ Still("photos", photoVars)
    /\ Still("journal", journalVars) /\ Still("coin", coinPhotoVars)
    /\ Still("chart", chartVars) /\ Still("money", moneyVars)
    /\ \/ part = "form" /\ Next
       \/ part = "menus" /\ MenuNext
       \/ part = "period" /\ PeriodNext
       \/ part = "storage" /\ StorageNext
       \/ part = "profile" /\ ProfileNext
       \/ part = "proposal" /\ ProposalNext
       \/ part = "photos" /\ PhotosNext
       \/ part = "journal" /\ JournalNext
       \/ part = "coin" /\ CoinPhotosNext
       \/ part = "chart" /\ ChartNext
       \/ part = "money" /\ MoneyNext

partsVars ==
    <<part, vars, menuVars, periodVars, storageVars, profileVars, proposalVars, photoVars,
      journalVars, coinPhotoVars, chartVars, moneyVars>>

PartsSpec == PartsInit /\ [][PartsNext]_partsVars

\* Every variable of the part that moves keeps its type.
PartsTypeOK ==
    CASE part = "form"     -> TypeOK
      [] part = "menus"    -> MenuTypeOK
      [] part = "period"   -> PeriodTypeOK
      [] part = "storage"  -> StorageTypeOK
      [] part = "profile"  -> ProfileTypeOK
      [] part = "proposal" -> ProposalTypeOK
      [] part = "photos"   -> PhotosTypeOK
      [] part = "journal"  -> JournalTypeOK
      [] part = "coin"     -> CoinPhotosTypeOK
      [] part = "chart"    -> ChartTypeOK
      [] part = "money"    -> MoneyTypeOK
=============================================================================
