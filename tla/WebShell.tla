------------------------------ MODULE WebShell -------------------------------
(***************************************************************************)
(* The frame around every screen of the staff console and what it          *)
(* remembers: the columns a table hides (ui/ColumnVisibility.tsx), the     *)
(* theme (app/ThemeProvider.tsx) and the rail of the sidebar               *)
(* (app/AppShell.tsx, ui/shadcn/sidebar.tsx), in the tabs of one browser.  *)
(*                                                                         *)
(* Every tab reads the stored preferences when it is opened and when it    *)
(* mounts a table, and writes them when they are changed in it; no tab     *)
(* hears of another's changes.  The operating system changes its colour    *)
(* scheme and windows change their width between a render and its effects. *)
(***************************************************************************)
EXTENDS Integers, FiniteSets

CONSTANTS Tabs,
          Tables,      \* the screens with a table, one table each
          Columns,     \* the columns of a table
          Requires,    \* the permission a screen's link requires, or None
          Nested,      \* the screens whose link stands in a section of its own
          Held,        \* the permissions of this person
          MaxChanges

None == "none"
Schemes == {"light", "dark"}
Themes == Schemes \cup {"system"}
Other(scheme) == CHOOSE s \in Schemes : s # scheme

ASSUME ShellAssumption ==
    /\ IsFiniteSet(Columns) /\ Columns # {} /\ Tables # {}
    /\ None \notin Tabs \cup Held
    /\ Nested \subseteq Tables
    /\ MaxChanges \in Nat

VARIABLES stored,    \* localStorage: the hidden columns of each table, the theme
          writable,  \* whether localStorage takes a write
          cookie,    \* "true" when the rail was left open, "false", or None
          os,        \* the colour scheme of the operating system
          narrow,    \* the windows below the breakpoint
          tab,       \* the tabs
          author,    \* the tab that changed a preference last
          changes

vars == <<stored, writable, cookie, os, narrow, tab, author, changes>>

Preferences == Tables \cup {"theme", "rail"}
ASSUME PreferenceAssumption == Tables \cap {"theme", "rail", None} = {}

Closed == [open |-> FALSE]
Open == {t \in Tabs : tab[t].open}
Change == changes < MaxChanges /\ changes' = changes + 1
-----------------------------------------------------------------------------
(* Opening a tab, or reloading it.                                          *)

load(table) == stored.columns[table]
readStoredTheme == IF stored.theme \in Themes THEN stored.theme ELSE "system"
storedSidebarOpen == cookie # "false"
resolve(theme) == IF theme = "system" THEN os ELSE theme

(* The first render, before its effects.                                    *)
Mounted(table) ==
    [open |-> TRUE, table |-> table, hidden |-> load(table),
     theme |-> readStoredTheme, resolved |-> resolve(readStoredTheme), listening |-> FALSE,
     rail |-> storedSidebarOpen, mobile |-> FALSE, drawer |-> FALSE, section |-> TRUE,
     settled |-> FALSE]

(* Leaves out the links that require a permission this person lacks.        *)
visibleItem(table) == Requires[table] \in Held \cup {None}

(* A wide window has the rail, whose icons stay when it is collapsed but    *)
(* not the links of a section; a narrow one has a drawer over the screen.   *)
Covered(t) == tab[t].mobile /\ tab[t].drawer
Sidebar(t, table) ==
    /\ tab[t].mobile => tab[t].drawer
    /\ table \in Nested => tab[t].section /\ (tab[t].mobile \/ tab[t].rail)

OpenTab(t, table) ==
    /\ Change
    /\ tab' = [tab EXCEPT ![t] = Mounted(table)]
    /\ UNCHANGED <<stored, writable, cookie, os, narrow, author>>

(* A section is unfolded whenever it is mounted: in a drawer that opens, or *)
(* in the other kind of sidebar.                                            *)
UnfoldedBy(t, mounting) == mounting \/ tab[t].section
widthIsNews(t) == tab[t].mobile # (t \in narrow)

(* The effects after a render: the theme is resolved again, its changes     *)
(* are listened to, and the width is looked at.                             *)
(* Mutant: only listens.                                                    *)
EffectsListen(t) ==
    /\ t \in Open /\ ~tab[t].settled
    /\ tab' = [tab EXCEPT ![t] = [@ EXCEPT !.listening = tab[t].theme = "system",
                                           !.mobile = t \in narrow,
                                           !.section = UnfoldedBy(t, widthIsNews(t)),
                                           !.settled = TRUE]]
    /\ UNCHANGED <<stored, writable, cookie, os, narrow, author, changes>>
Effects(t) ==
    /\ t \in Open /\ ~tab[t].settled
    /\ tab' = [tab EXCEPT ![t] = [@ EXCEPT !.resolved = resolve(tab[t].theme),
                                           !.listening = tab[t].theme = "system",
                                           !.mobile = t \in narrow,
                                           !.section = UnfoldedBy(t, widthIsNews(t)),
                                           !.settled = TRUE]]
    /\ UNCHANGED <<stored, writable, cookie, os, narrow, author, changes>>
-----------------------------------------------------------------------------
(* Following a link of the sidebar mounts that screen's table; the drawer   *)
(* of a narrow window closes.                                               *)
FollowLink(t, table) ==
    /\ t \in Open /\ visibleItem(table) /\ Sidebar(t, table) /\ table # tab[t].table
    /\ Change
    /\ tab' = [tab EXCEPT ![t] = [@ EXCEPT !.table = table, !.hidden = load(table),
                                           !.drawer = FALSE,
                                           !.section = UnfoldedBy(t, tab[t].mobile)]]
    /\ UNCHANGED <<stored, writable, cookie, os, narrow, author>>

(* A section of the sidebar is folded, or unfolded.                         *)
FoldSection(t) ==
    /\ t \in Open /\ \E table \in Nested : visibleItem(table)
    /\ tab[t].mobile => tab[t].drawer
    /\ Change
    /\ tab' = [tab EXCEPT ![t].section = ~@]
    /\ UNCHANGED <<stored, writable, cookie, os, narrow, author>>

visibleCount(t) == Cardinality(Columns) - Cardinality(tab[t].hidden)

(* The last column that is visible cannot be hidden.                        *)
Toggled(t, key) == IF key \in tab[t].hidden THEN tab[t].hidden \ {key} ELSE tab[t].hidden \cup {key}
(* Mutant: writes what was hidden before.                                   *)
savePrevious(table, hidden) == stored' = stored
save(table, hidden) ==
    stored' = IF writable THEN [stored EXCEPT !.columns[table] = hidden] ELSE stored

ToggleColumn(t, key) ==
    /\ t \in Open /\ ~Covered(t)
    /\ key \notin tab[t].hidden => visibleCount(t) > 1
    /\ Change
    /\ tab' = [tab EXCEPT ![t].hidden = Toggled(t, key)]
    /\ save(tab[t].table, Toggled(t, key))
    /\ author' = [author EXCEPT ![tab[t].table] = t]
    /\ UNCHANGED <<writable, cookie, os, narrow>>

(* The write comes first: when it throws, nothing has changed.  The theme   *)
(* that is shown already is written again, and needs no other effects.      *)
StaysSettled(t, next) == tab[t].settled /\ next = tab[t].theme
setTheme(t, next) ==
    /\ writable
    /\ stored' = [stored EXCEPT !.theme = next]
    /\ tab' = [tab EXCEPT ![t] = [@ EXCEPT !.theme = next, !.settled = StaysSettled(t, next)]]
ThemeToggle(t, next) ==
    /\ t \in Open /\ ~Covered(t)
    /\ Change
    /\ setTheme(t, next)
    /\ author' = [author EXCEPT !["theme"] = t]
    /\ UNCHANGED <<writable, cookie, os, narrow>>

(* The button and Ctrl+B: a narrow window has a drawer instead, which       *)
(* closes in other ways as well.                                            *)
toggleSidebar(t) ==
    IF tab[t].mobile
       THEN /\ tab' = [tab EXCEPT ![t] = [tab[t] EXCEPT !.drawer = ~@, !.section = TRUE]]
            /\ UNCHANGED <<cookie, author>>
       ELSE /\ tab' = [tab EXCEPT ![t].rail = ~@]
            /\ cookie' = IF tab[t].rail THEN "false" ELSE "true"
            /\ author' = [author EXCEPT !["rail"] = t]
ToggleSidebar(t) ==
    /\ t \in Open
    /\ Change
    /\ toggleSidebar(t)
    /\ UNCHANGED <<stored, writable, os, narrow>>

(* A toggle writes the cookie for seven days and nothing renews it, so that *)
(* it may be gone whatever has happened since.                              *)
CookieLapses ==
    /\ cookie # None
    /\ cookie' = None
    /\ UNCHANGED <<stored, writable, os, narrow, tab, author, changes>>

ResizeWindow(t) ==
    /\ t \in Open
    /\ Change
    /\ narrow' = IF t \in narrow THEN narrow \ {t} ELSE narrow \cup {t}
    /\ tab' = IF tab[t].settled
              THEN [tab EXCEPT ![t] = [@ EXCEPT !.mobile = t \notin narrow, !.section = TRUE]]
              ELSE tab
    /\ UNCHANGED <<stored, writable, cookie, os, author>>

ChangeScheme ==
    /\ Change
    /\ os' = Other(os)
    /\ tab' = [t \in Tabs |-> IF t \in Open /\ tab[t].listening
                              THEN [tab[t] EXCEPT !.resolved = os'] ELSE tab[t]]
    /\ UNCHANGED <<stored, writable, cookie, narrow, author>>
-----------------------------------------------------------------------------
Init ==
    /\ stored = [columns |-> [table \in Tables |-> {}], theme |-> None]
    /\ writable \in BOOLEAN
    /\ cookie = None
    /\ os \in Schemes
    /\ narrow \in SUBSET Tabs
    /\ tab = [t \in Tabs |-> Closed]
    /\ author = [p \in Preferences |-> None]
    /\ changes = 0

Next ==
    \/ \E t \in Tabs :
          \/ \E table \in Tables : OpenTab(t, table) \/ FollowLink(t, table)
          \/ Effects(t) \/ FoldSection(t) \/ ToggleSidebar(t) \/ ResizeWindow(t)
          \/ \E key \in Columns : ToggleColumn(t, key)
          \/ \E next \in Themes : ThemeToggle(t, next)
    \/ ChangeScheme \/ CookieLapses

Spec == Init /\ [][Next]_vars
-----------------------------------------------------------------------------
TabTypeOK(r) ==
    r = Closed \/ r \in [open : {TRUE}, table : Tables, hidden : SUBSET Columns, theme : Themes,
                         resolved : Schemes, listening : BOOLEAN, rail : BOOLEAN,
                         mobile : BOOLEAN, drawer : BOOLEAN, section : BOOLEAN,
                         settled : BOOLEAN]

(* The variables have the types the code declares.                          *)
ShellTypeOK ==
    /\ stored \in [columns : [Tables -> SUBSET Columns], theme : Themes \cup {None}]
    /\ writable \in BOOLEAN /\ cookie \in {"true", "false", None} /\ os \in Schemes
    /\ narrow \subseteq Tabs
    /\ \A t \in Tabs : TabTypeOK(tab[t])
    /\ author \in [Preferences -> Tabs \cup {None}]

(* No tab ever shows a table without a column, whatever the tabs hid and    *)
(* stored in turn: the menu that brings a column back is never the only     *)
(* thing left of a table.                                                   *)
AColumnStaysVisible == \A t \in Open : tab[t].hidden # Columns

(* A tab whose effects have run is painted in the scheme its theme asks     *)
(* for, and "system" is what the system has now, also when the system       *)
(* changed between the render and the effects.                              *)
ThemeIsApplied == \A t \in Open : tab[t].settled => tab[t].resolved = resolve(tab[t].theme)

(* A reload shows a tab what it was changed to in it last, unless another   *)
(* tab changed the same preference since: no write is overtaken by another  *)
(* table's, another preference's or an older state of the same tab.  The    *)
(* rail is opened instead once its cookie has lapsed.                       *)
PreferencesSurviveReload ==
    \A t \in Open :
        /\ writable /\ author[tab[t].table] = t => load(tab[t].table) = tab[t].hidden
        /\ author["theme"] = t => readStoredTheme = tab[t].theme
        /\ author["rail"] = t => (storedSidebarOpen <=> cookie = None \/ tab[t].rail)
=============================================================================
