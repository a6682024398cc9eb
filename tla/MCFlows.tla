-------------------------------- MODULE MCFlows --------------------------------
(***************************************************************************)
(* What stands around the controller's license: the add-ons, the update    *)
(* screen, the updates that were skipped, the device's identity, the       *)
(* overlay that shows it all and the news that reach the plugin, side by   *)
(* side.  What they share, the license, changes in each of them at any     *)
(* time, so a behaviour moves one of them, or looks at the pure rules they *)
(* rest on: which version is newer, what a license covers, what a response *)
(* means, what a launch makes of a token.                                  *)
(***************************************************************************)
EXTENDS AddOns, UpdateFlow, Versions, LaunchRules, DeviceIds, Dismissals,
        Overlay, LicenseNews, Views, LinkCopy, AddOnRows, Countdowns, UpdateOffers

CONSTANTS online, offline

VARIABLE flow

shownVars == <<overlayVars, viewVars, linkVars, rowVars, countdownVars>>

flowVars ==
    <<flow, addOnVars, updateVars, deviceVars, dismissalVars, newsVars, shownVars>>

\* What stands still stands in one of its states.
AddOnsRest     == license = online
UpdateRests    == release = NoRelease /\ ignored = {}
DevicesRest    == machine = "whole" /\ legacy = "id"
DismissalsRest == saved = {} /\ readable
OverlayRests   == shown.screen = "Loading" /\ ~shown.held /\ ~overlay.visible /\ ~overlay.still
RowRests       == forSale /\ included /\ truth = [owned |-> FALSE, seat |-> "free",
                    revoked |-> FALSE, trial |-> "none", ends |-> Never]
PanelRests     == ~tell /\ ~panel.still
CountRests     == ends = Endless

Init ==
    /\ flow \in {"addOns", "update", "device", "skips", "overlay", "views", "link",
                 "row", "countdown", "news", "rules"}
    /\ AddOnsInit      /\ (flow # "addOns" => AddOnsRest)
    /\ UpdateInit      /\ (flow # "update" => UpdateRests)
    /\ DevicesInit     /\ (flow # "device" => DevicesRest)
    /\ DismissalsInit  /\ (flow # "skips" => DismissalsRest)
    /\ OverlayInit     /\ (flow # "overlay" => OverlayRests)
    /\ AddOnRowsInit   /\ (flow # "row" => RowRests)
    /\ CountdownsInit  /\ (flow # "countdown" => CountRests)
    /\ ViewsInit       /\ (flow # "views" => PanelRests)
    /\ LinkCopyInit /\ NewsInit

ShownNext ==
    \/ flow = "overlay" /\ OverlayNext /\ UNCHANGED <<viewVars, linkVars, rowVars, countdownVars>>
    \/ flow = "views" /\ ViewsNext /\ UNCHANGED <<overlayVars, linkVars, rowVars, countdownVars>>
    \/ flow = "link" /\ LinkCopyNext /\ UNCHANGED <<overlayVars, viewVars, rowVars, countdownVars>>
    \/ flow = "row" /\ AddOnRowsNext /\ UNCHANGED <<overlayVars, viewVars, linkVars, countdownVars>>
    \/ flow = "countdown" /\ CountdownsNext /\ UNCHANGED <<overlayVars, viewVars, linkVars, rowVars>>

Next ==
    \/ /\ flow = "addOns" /\ AddOnsNext
       /\ UNCHANGED <<flow, updateVars, deviceVars, dismissalVars, newsVars, shownVars>>
    \/ /\ flow = "update" /\ UpdateNext
       /\ UNCHANGED <<flow, addOnVars, deviceVars, dismissalVars, newsVars, shownVars>>
    \/ /\ flow = "device" /\ DevicesNext
       /\ UNCHANGED <<flow, addOnVars, updateVars, dismissalVars, newsVars, shownVars>>
    \/ /\ flow = "skips" /\ DismissalsNext
       /\ UNCHANGED <<flow, addOnVars, updateVars, deviceVars, newsVars, shownVars>>
    \/ /\ flow = "news" /\ NewsNext
       /\ UNCHANGED <<flow, addOnVars, updateVars, deviceVars, dismissalVars, shownVars>>
    \/ /\ ShownNext
       /\ UNCHANGED <<flow, addOnVars, updateVars, deviceVars, dismissalVars, newsVars>>

\* The fairness of each part, in the behaviours that move it.
Fairness ==
    /\ WF_addOnVars(flow = "addOns" /\ Unprompted)
    /\ WF_updateVars(flow = "update" /\ UpdateStep)
    /\ WF_viewVars(flow = "views" /\ PanelRunsOn)
    /\ WF_linkVars(flow = "link" /\ NoteFades)

LeftAlone ==
    \/ flow = "addOns" /\ Unprompted
    \/ flow = "update" /\ UpdateStep
    \/ flow = "views" /\ PanelStep
    \/ flow = "link" /\ NoteStep

Spec == Init /\ [][Next]_flowVars /\ Fairness

\* Every spinner has an answer on its way that ends it (listAddOns, refreshAndListAddOns,
\* fetchUpdateInfo, startUpdateDownload).
WaitingHasAnEnd == SpinnersEnd /\ ProgressHasSource

\* Left alone, the add-ons and the update screen come to rest, a slide under way lands
\* although the window was minimised, and the note on a copied link goes.
FlowsSettle ==
    <>[][LeftAlone]_flowVars
        => <>[](AddOnsAtRest /\ UpdatesAtRest /\ PanelAtRest /\ NoteGone)

\* The panel shows the view of the controller's screen and nothing of another, nothing
\* turns where it isn't seen, and "link copied" is said of the link that was
\* (ActivationComponent.cpp, syncViews, updateTicking, copyBrowserLink).
PanelIsTrue ==
    /\ flow = "views" => OnlyTheScreensView /\ HiddenCostsNothing
    /\ flow = "link" => NoteIsTrue

\* A row of the add-ons, and a count of days, say what is so and what may be done about
\* it, also while what they are made of is of different ages (describe, checkCountdowns).
OffersHold ==
    /\ flow = "row" => RowsStrandNothing /\ FreshRowsTellTheTruth
    /\ flow = "countdown" => CountsKeepUp

\* Nothing the user did is forgotten: an update that was skipped stays skipped unless two
\* saves overlap, a purchase in the browser is looked for, and a copied link is noted for its
\* whole moment (ignoreUpdate, checkPurchaseReturn, copyBrowserLink).
NothingIsForgotten == OnlyOverlapLosesDismissals /\ PurchaseFollowedUp /\ NoteStands

\* Versions are in one order, whichever are compared (version.hpp, compare), and a
\* license that covers a version covers the ones before it, and did so at every earlier
\* time (release_access.hpp, covers_version).  What did not come from Moonbase is no
\* verdict, a refused add-on leaves the license as good as it was, and an activation
\* request is over when Moonbase says so (client.hpp, throw_for_problem,
\* throw_for_sub_product_problem, get_requested_activation).  What the update screen
\* offers leads on (inventory.hpp, can_download and download_needs_full_license).
RulesHold ==
    flow = "rules" =>
        Ordered /\ CoverageLasts /\ ForeignLaw /\ AddOnLaw /\ PollLaw /\ OffersLeadOn

\* A launch unlocks a good license only, whatever the server and a proxy say and
\* other instances stored; it deletes a dead one only; and while a good one is in its
\* grace period nothing but Moonbase locks it (validate_token_internal,
\* validate_token_online, start).
UnlockedLawfully == flow = "rules" => LaunchLaw

MCIdentifiers == [digits : BOOLEAN, value : {1, 2}]
MCPres ==
    {<< >>} \cup {<<i>> : i \in MCIdentifiers}
            \cup {<<i, j>> : i, j \in [digits : BOOLEAN, value : {1}]}
MCTexts ==
    [parts : {<<1>>, <<1, 0>>, <<1, 1>>, <<1, 0, 2>>, <<2, 0>>}, pre : MCPres]
    \cup [parts : {<<0, 2>>, <<1, 3>>, <<NotANumber, 1>>, <<2, 0, 1>>, <<1, 0, 1, 9>>,
                   <<1, 0, 0, 0, 0>>}, pre : {<< >>}]
MCAccesses ==
    [until : {-1, 0, 1}, upToMajor : {-1, 0, 1},
     upToVersion : {Unreadable} \cup [parts : {<<1>>, <<1, 0>>}, pre : {<< >>}]]
=============================================================================
