------------------------------- MODULE ThemeStudio -------------------------------
(***************************************************************************)
(* The store layout studio: a draft of the store's layout, edited, tried   *)
(* out in this browser only ("Preview in browser", kept in its storage),   *)
(* undone, and saved for every visitor.  The studio and the store's pages  *)
(* each resolve what they show from the store read, the layout it carries, *)
(* and the preview: a colour equal to the platform's base colour gives way *)
(* to the theme's own, and an empty footer text to the next source.        *)
(*                                                                         *)
(* A layout is a theme, a colour and a footer text (None when empty).      *)
(*                                                                         *)
(* Sources: client/src/features/theme/hooks/useThemeCustomizer.ts,         *)
(* theme/resolveTheme.ts, resolveThemeColors.ts, themeStorage.ts,          *)
(* theme/tenants/ThemeProvider.tsx, features/tenant/TenantLoader.tsx,      *)
(* pages/ThemeCustomizer; server app/services/storefront_layout.py.        *)
(***************************************************************************)
EXTENDS Naturals

CONSTANTS
  Themes, Default,  \* themes, and the default one
  Base,             \* the platform's base colour, the default theme's own; another
                    \* theme's own colour has the theme's name
  Footers, OwnName, \* footer texts, and the one of a store that wrote none
  MaxMoves,         \* bound: edits and saves of other sessions
  None

VARIABLES
  storeLayout, \* server: the layout saved
  query,    \* TenantLoader's answer: the layout as it was read
  tenant,   \* the store in Redux: [api, footer], the layout carried and its own footer
  studio,   \* [open, draft, base, touched]: touched when draft is not base itself
  live,     \* the draft shown by every page of this tab, or None
  preview,  \* the draft kept in the browser's storage, or None
  publishing, \* a save on its way, or None
  moves,    \* moves made (bounded)
  mixed,    \* base was resolved with a preview in it
  behind,   \* the store in Redux is no longer the server's
  reverted  \* "Reverted to last loaded layout from API." is shown

studioVars == <<storeLayout, query, tenant, studio, live, preview, publishing, moves, mixed,
                behind, reverted>>

Initial == [theme |-> Default, colour |-> Base, footer |-> None]

-----------------------------------------------------------------------------
\* build_storefront_layout: an empty footer text becomes the store's name.
Built(layout) == [layout EXCEPT !.footer = IF @ = None THEN OwnName ELSE @]
Loaded(layout) == [api |-> Built(layout), footer |-> layout.footer]

\* resolveThemeColors, over the presets of the themes
Own(theme) == IF theme = Default THEN Base ELSE theme
ColourShown(theme, colour) == IF colour = Base THEN Own(theme) ELSE colour

\* resolveThemeDraft: the preview first, then the store's own, then the carried one.
FooterShown(t, p) ==
  IF p # None /\ p.footer # None THEN p.footer
  ELSE IF t.footer # None THEN t.footer ELSE t.api.footer
Resolved(t, p) ==
  LET from == IF p = None THEN t.api ELSE p
  IN [theme |-> from.theme, colour |-> ColourShown(from.theme, from.colour),
      footer |-> FooterShown(t, p)]

\* What every visitor sees, and what the pages of this tab show.
Visitors == Resolved(Loaded(storeLayout), None)
Page == Resolved(tenant, IF live # None THEN live ELSE preview)

-----------------------------------------------------------------------------
Closed == [open |-> FALSE, draft |-> Initial, base |-> Initial, touched |-> FALSE]

Init ==
  /\ storeLayout = Initial
  /\ query = storeLayout /\ tenant = Loaded(storeLayout)
  /\ studio = Closed /\ live = None /\ preview = None /\ publishing = None
  /\ moves = 0 /\ mixed = FALSE /\ behind = FALSE /\ reverted = FALSE

\* baseDraft is resolved when the studio opens and when the store in Redux changes,
\* and replaces the draft then.
Rebased(t) ==
  /\ studio' = [open |-> TRUE, draft |-> Resolved(t, preview), base |-> Resolved(t, preview),
                touched |-> FALSE]
  /\ mixed' = (preview # None)

OpenStudio ==
  /\ ~studio.open
  /\ Rebased(tenant)
  /\ live' = studio'.draft
  /\ UNCHANGED <<storeLayout, query, tenant, preview, publishing, moves, behind, reverted>>

BackToStore ==
  /\ studio.open
  /\ studio' = Closed /\ live' = None /\ reverted' = FALSE /\ mixed' = FALSE
  /\ UNCHANGED <<storeLayout, query, tenant, preview, publishing, moves, behind>>

Edit(draft) ==
  /\ studio.open /\ moves < MaxMoves
  /\ draft # studio.draft
  /\ studio' = [studio EXCEPT !.draft = draft, !.touched = TRUE]
  /\ live' = draft /\ reverted' = FALSE /\ moves' = moves + 1
  /\ UNCHANGED <<storeLayout, query, tenant, preview, publishing, mixed, behind>>

ApplyPreset(theme) == Edit([studio.draft EXCEPT !.theme = theme, !.colour = Own(theme)])
UpdateColor(colour) == Edit([studio.draft EXCEPT !.colour = colour])
UpdateFooterContent(footer) == Edit([studio.draft EXCEPT !.footer = footer])
ResetToDefaultLayout == Edit([theme |-> Default, colour |-> Base, footer |-> OwnName])

ApplyBrowserPreview ==
  /\ studio.open /\ preview # studio.draft
  /\ preview' = studio.draft /\ live' = None /\ reverted' = FALSE
  /\ UNCHANGED <<storeLayout, query, tenant, studio, publishing, moves, mixed, behind>>

\* "Undo changes" empties the preview's storage and takes base again.
ResetDraft ==
  /\ studio.open
  /\ preview' = None
  /\ studio' = [studio EXCEPT !.draft = studio.base, !.touched = FALSE]
  /\ live' = IF studio.touched THEN studio.base ELSE None
  /\ reverted' = TRUE
  /\ UNCHANGED <<storeLayout, query, tenant, publishing, moves, mixed, behind>>

-----------------------------------------------------------------------------
\* saveForStore: the draft is sent, the layout read again, the store in Redux replaced
\* and, only then, the preview's storage emptied.
SaveForStore ==
  /\ studio.open /\ publishing = None
  /\ publishing' = [sent |-> studio.draft, step |-> "put", got |-> None]
  /\ reverted' = FALSE
  /\ UNCHANGED <<storeLayout, query, tenant, studio, live, preview, moves, mixed, behind>>
ServerSavesTheme ==
  /\ publishing # None /\ publishing.step = "put"
  /\ storeLayout' = publishing.sent
  /\ publishing' = [publishing EXCEPT !.step = "get"]
  /\ behind' = TRUE
  /\ UNCHANGED <<query, tenant, studio, live, preview, moves, mixed, reverted>>
GetStorefrontLayout ==
  /\ publishing # None /\ publishing.step = "get"
  /\ publishing' = [publishing EXCEPT !.step = "got", !.got = storeLayout]
  /\ UNCHANGED <<storeLayout, query, tenant, studio, live, preview, moves, mixed, behind, reverted>>

\* Mutant: the loaded store keeps the footer it had.
TenantKeepsFooter(save) == [api |-> Built(save.got), footer |-> tenant.footer]

\* The store as the answer makes it: what was read for the save, with the footer sent.
TenantSaved(save) == [api |-> Built(save.got), footer |-> save.sent.footer]
SaveSucceeds ==
  /\ publishing # None /\ publishing.step = "got"
  /\ tenant' = TenantSaved(publishing)
  /\ IF studio.open
     THEN /\ Rebased(tenant')
          /\ live' \in {None, studio'.draft}
     ELSE UNCHANGED <<studio, live, mixed>>
  /\ preview' = None /\ publishing' = None
  /\ behind' = ~(publishing.got = storeLayout /\ publishing.sent = storeLayout)
  /\ reverted' = FALSE
  /\ UNCHANGED <<storeLayout, query, moves>>
SaveFails ==
  /\ publishing # None
  /\ publishing' = None /\ reverted' = FALSE
  /\ UNCHANGED <<storeLayout, query, tenant, studio, live, preview, moves, mixed, behind>>

\* Another session saves the store's layout (bound: a footer text with the base colours).
SavedElsewhere(footer) ==
  /\ moves < MaxMoves
  /\ storeLayout' = [theme |-> Default, colour |-> Base, footer |-> footer]
  /\ moves' = moves + 1 /\ behind' = TRUE
  /\ UNCHANGED <<query, tenant, studio, live, preview, publishing, mixed, reverted>>

-----------------------------------------------------------------------------
\* TenantLoader: its answer, when it differs from the one before, replaces the store
\* in Redux; coming back from the admin pages puts the last answer there again.
Replace ==
  /\ tenant' = Loaded(query')
  /\ IF studio.open THEN Rebased(tenant') /\ live' = studio'.draft
     ELSE UNCHANGED <<studio, live, mixed>>
  /\ behind' = (query' # storeLayout)
  /\ reverted' = FALSE
TenantArrives ==
  /\ query # storeLayout
  /\ query' = storeLayout
  /\ Replace
  /\ UNCHANGED <<storeLayout, preview, publishing, moves>>
ComeBack ==
  /\ ~studio.open /\ tenant # Loaded(query)
  /\ query' = query
  /\ Replace
  /\ UNCHANGED <<storeLayout, preview, publishing, moves>>

Next ==
  \/ OpenStudio \/ BackToStore \/ ResetToDefaultLayout \/ ApplyBrowserPreview \/ ResetDraft
  \/ \E t \in Themes : ApplyPreset(t)
  \/ \E t \in Themes : UpdateColor(Own(t))
  \/ \E f \in Footers \union {None} : UpdateFooterContent(f)
  \/ SaveForStore \/ ServerSavesTheme \/ GetStorefrontLayout \/ SaveSucceeds \/ SaveFails
  \/ \E f \in Footers : SavedElsewhere(f)
  \/ TenantArrives \/ ComeBack

Spec == Init /\ [][Next]_studioVars

-----------------------------------------------------------------------------
\* A studio whose draft was not touched, and the pages of its tab, show what every
\* visitor sees, whatever was edited and saved before, when the store in Redux is the
\* server's and no preview was resolved into the draft.
StudioShowsStore ==
  studio.open /\ ~studio.touched /\ ~mixed /\ ~behind /\ publishing = None =>
    /\ studio.draft = Visitors
    /\ preview = None => Page = Visitors

\* "Reverted to last loaded layout from API."
RevertedIsLoaded == reverted => studio.draft = Resolved(tenant, None)
=============================================================================
