---------------------------- MODULE WebShellProofs ----------------------------
(***************************************************************************)
(* For any number of tabs, tables and columns, however often preferences,  *)
(* widths and colour schemes change.                                       *)
(***************************************************************************)
EXTENDS WebShell, FiniteSetTheorems, TLAPS

TabRecord ==
    [open : {TRUE}, table : Tables, hidden : SUBSET Columns, theme : Themes,
     resolved : Schemes, listening : BOOLEAN, rail : BOOLEAN,
     mobile : BOOLEAN, drawer : BOOLEAN, section : BOOLEAN, settled : BOOLEAN]

(* What an open tab shows and what is stored. *)
TabSound(t) ==
    tab[t] # Closed =>
        /\ tab[t].hidden # Columns
        /\ tab[t].settled => /\ tab[t].resolved = resolve(tab[t].theme)
                             /\ tab[t].listening <=> tab[t].theme = "system"
        /\ writable /\ author[tab[t].table] = t => stored.columns[tab[t].table] = tab[t].hidden
        /\ author["theme"] = t => readStoredTheme = tab[t].theme
        /\ author["rail"] = t => (storedSidebarOpen <=> cookie = None \/ tab[t].rail)

StoreTypeOK ==
    /\ stored \in [columns : [Tables -> SUBSET Columns], theme : Themes \cup {None}]
    /\ writable \in BOOLEAN /\ cookie \in {"true", "false", None} /\ os \in Schemes
    /\ narrow \subseteq Tabs
    /\ author \in [Preferences -> Tabs \cup {None}]

ShellInv ==
    /\ StoreTypeOK
    /\ tab \in [Tabs -> TabRecord \cup {Closed}]
    /\ \A table \in Tables : stored.columns[table] # Columns
    /\ \A t \in Tabs : TabSound(t)
-----------------------------------------------------------------------------
(* What hiding one more column leaves. *)
LEMMA OneStays ==
    ASSUME NEW hidden \in SUBSET Columns, NEW key \in Columns,
           key \notin hidden => Cardinality(Columns) - Cardinality(hidden) > 1,
           hidden # Columns
    PROVE  (IF key \in hidden THEN hidden \ {key} ELSE hidden \cup {key}) # Columns
<1>1. IsFiniteSet(Columns) /\ IsFiniteSet(hidden)
  BY ShellAssumption, FS_Subset
<1>2. CASE key \notin hidden
  <2>1. Cardinality(hidden \cup {key}) = Cardinality(hidden) + 1
    BY <1>1, <1>2, FS_AddElement
  <2>2. Cardinality(hidden) \in Nat /\ Cardinality(Columns) \in Nat
    BY <1>1, FS_CardinalityType
  <2> QED BY <1>2, <2>1, <2>2
<1> QED BY <1>2

(* The open tabs are the ones with a record. *)
LEMMA OpenTabs ==
    ASSUME ShellInv, NEW t \in Tabs
    PROVE  /\ t \in Open <=> tab[t] # Closed
           /\ t \in Open <=> tab[t] \in TabRecord
           /\ Closed \notin TabRecord
<1>1. Closed.open = FALSE
  BY DEF Closed
<1>2. Closed \notin TabRecord
  BY <1>1 DEF TabRecord
<1>3. \A r \in TabRecord : r.open = TRUE
  BY DEF TabRecord
<1> QED BY <1>1, <1>2, <1>3 DEF ShellInv, Open

LEMMA ReadTypes ==
    ASSUME ShellInv
    PROVE  /\ readStoredTheme \in Themes
           /\ \A theme \in Themes : resolve(theme) \in Schemes
           /\ storedSidebarOpen \in BOOLEAN
           /\ \A table \in Tables : load(table) \in SUBSET Columns /\ load(table) # Columns
BY DEF ShellInv, StoreTypeOK, readStoredTheme, resolve, storedSidebarOpen, load, Themes, Schemes

LEMMA SectionType ==
    ASSUME NEW t, NEW mounting \in BOOLEAN, tab[t].section \in BOOLEAN
    PROVE  UnfoldedBy(t, mounting) \in BOOLEAN
BY DEF UnfoldedBy

LEMMA InitInv == Init => ShellInv
<1> SUFFICES ASSUME Init PROVE ShellInv
  OBVIOUS
<1>1. StoreTypeOK
  BY DEF Init, StoreTypeOK
<1>2. tab \in [Tabs -> TabRecord \cup {Closed}] /\ \A t \in Tabs : tab[t] = Closed
  BY DEF Init
<1>3. \A table \in Tables : stored.columns[table] # Columns
  BY ShellAssumption DEF Init
<1> QED BY <1>1, <1>2, <1>3 DEF ShellInv, TabSound

(* A step of one tab: what it stores it stores under its own name.          *)
LEMMA OneTab ==
    ASSUME ShellInv, NEW t \in Tabs, NEW r \in TabRecord,
           tab' = [tab EXCEPT ![t] = r],
           os' = os, writable' = writable, StoreTypeOK',
           \A table \in Tables :
              \/ author'[table] = author[table] /\ stored'.columns[table] = stored.columns[table]
              \/ author'[table] = t /\ stored'.columns[table] # Columns,
           \/ author'["theme"] = t
           \/ author'["theme"] = author["theme"] /\ stored'.theme = stored.theme,
           \/ author'["rail"] = t
           \/ author'["rail"] = author["rail"] /\ cookie' = cookie,
           TabSound(t)'
    PROVE  ShellInv'
<1>1. /\ tab' \in [Tabs -> TabRecord \cup {Closed}]
      /\ \A u \in Tabs \ {t} : tab'[u] = tab[u]
  BY DEF ShellInv
<1>2. \A table \in Tables : stored'.columns[table] # Columns
  BY DEF ShellInv
<1>3. ASSUME NEW u \in Tabs, u # t PROVE TabSound(u)'
  <2>1. TabSound(u) /\ tab'[u] = tab[u]
    BY <1>1, <1>3 DEF ShellInv
  <2>2. ASSUME tab[u] # Closed
        PROVE  tab[u].table \in Tables
    BY <2>2 DEF ShellInv, TabRecord
  <2>3. resolve(tab[u].theme)' = resolve(tab[u].theme)
    BY <2>1 DEF resolve
  <2>4. /\ stored'.theme = stored.theme => readStoredTheme' = readStoredTheme
        /\ cookie' = cookie => storedSidebarOpen' = storedSidebarOpen
    BY DEF readStoredTheme, storedSidebarOpen
  <2> QED BY <1>3, <2>1, <2>2, <2>3, <2>4 DEF TabSound
<1> QED BY <1>1, <1>2, <1>3 DEF ShellInv

(* ... and nothing stored. *)
LEMMA OneTabOnly ==
    ASSUME ShellInv, NEW t \in Tabs, NEW r \in TabRecord,
           tab' = [tab EXCEPT ![t] = r],
           UNCHANGED <<stored, writable, cookie, os, author>>, narrow' \subseteq Tabs,
           TabSound(t)'
    PROVE  ShellInv'
<1>1. StoreTypeOK'
  BY DEF ShellInv, StoreTypeOK
<1> QED BY <1>1, OneTab
-----------------------------------------------------------------------------
(* A tab that is opened. *)
LEMMA OpenTabStep ==
    ASSUME ShellInv, NEW t \in Tabs, NEW table \in Tables, OpenTab(t, table)
    PROVE  ShellInv'
<1>1. Mounted(table) \in TabRecord
  BY ReadTypes DEF Mounted, TabRecord
<1>2. /\ tab' = [tab EXCEPT ![t] = Mounted(table)]
      /\ UNCHANGED <<stored, writable, cookie, os, author, narrow>>
  BY DEF OpenTab
<1>3. tab'[t] = Mounted(table)
  BY <1>2 DEF ShellInv
<1>4. TabSound(t)'
  <2>1. /\ tab'[t].table = table /\ tab'[t].hidden = load(table) /\ ~tab'[t].settled
        /\ tab'[t].theme = readStoredTheme /\ tab'[t].rail = storedSidebarOpen
    BY <1>3 DEF Mounted
  <2>2. readStoredTheme' = readStoredTheme /\ storedSidebarOpen' = storedSidebarOpen
    BY <1>2 DEF readStoredTheme, storedSidebarOpen
  <2>3. storedSidebarOpen' <=> cookie' = None \/ tab'[t].rail
    BY <1>2, <2>1, <2>2 DEF storedSidebarOpen, None
  <2> QED BY <1>2, <2>1, <2>2, <2>3, ReadTypes DEF TabSound, load
<1> QED BY <1>1, <1>2, <1>4, OneTabOnly DEF ShellInv, StoreTypeOK

(* The effects after a render. *)
LEMMA EffectsStep ==
    ASSUME ShellInv, NEW t \in Tabs, Effects(t)
    PROVE  ShellInv'
<1> DEFINE r == [tab[t] EXCEPT !.resolved = resolve(tab[t].theme),
                               !.listening = tab[t].theme = "system",
                               !.mobile = t \in narrow,
                               !.section = UnfoldedBy(t, widthIsNews(t)),
                               !.settled = TRUE]
<1>1. tab[t] \in TabRecord /\ tab[t] # Closed /\ TabSound(t)
  BY OpenTabs DEF Effects, ShellInv
<1>2. tab' = [tab EXCEPT ![t] = r] /\ UNCHANGED <<stored, writable, cookie, os, author, narrow>>
  BY DEF Effects
<1>3. r \in TabRecord
  <2>1. resolve(tab[t].theme) \in Schemes
    BY <1>1, ReadTypes DEF TabRecord
  <2> DEFINE listening == tab[t].theme = "system"
             mobile == t \in narrow
  <2>2. UnfoldedBy(t, widthIsNews(t)) \in BOOLEAN
    BY <1>1, SectionType DEF TabRecord, widthIsNews
  <2>3. listening \in BOOLEAN /\ mobile \in BOOLEAN
    OBVIOUS
  <2> HIDE DEF listening, mobile
  <2>4. [tab[t] EXCEPT !.resolved = resolve(tab[t].theme), !.listening = listening,
                       !.mobile = mobile, !.section = UnfoldedBy(t, widthIsNews(t)),
                       !.settled = TRUE] \in TabRecord
    BY <1>1, <2>1, <2>2, <2>3 DEF TabRecord
  <2> QED BY <2>4 DEF listening, mobile
<1>4. /\ r.table = tab[t].table /\ r.hidden = tab[t].hidden /\ r.theme = tab[t].theme
      /\ r.rail = tab[t].rail /\ r.resolved = resolve(tab[t].theme)
      /\ r.listening <=> r.theme = "system"
  BY <1>1 DEF TabRecord
<1>5. tab'[t] = r
  BY <1>2 DEF ShellInv
<1> HIDE DEF r
<1>6. TabSound(t)'
  BY <1>1, <1>2, <1>4, <1>5 DEF TabSound, resolve, readStoredTheme, storedSidebarOpen
<1> QED BY <1>2, <1>3, <1>6, OneTabOnly DEF ShellInv, StoreTypeOK

(* A step that changes the layout of a tab only. *)
LEMMA LayoutStep ==
    ASSUME ShellInv, NEW t \in Tabs, NEW r \in TabRecord, tab[t] # Closed,
           r.table = tab[t].table, r.hidden = tab[t].hidden, r.theme = tab[t].theme,
           r.resolved = tab[t].resolved, r.listening = tab[t].listening,
           r.settled = tab[t].settled, r.rail = tab[t].rail,
           tab' = [tab EXCEPT ![t] = r],
           UNCHANGED <<stored, writable, cookie, os, author>>, narrow' \subseteq Tabs
    PROVE  ShellInv'
<1>1. tab'[t] = r /\ TabSound(t)
  BY DEF ShellInv
<1>2. TabSound(t)'
  BY <1>1 DEF TabSound, resolve, readStoredTheme, storedSidebarOpen
<1> QED BY <1>2, OneTabOnly

LEMMA FollowLinkStep ==
    ASSUME ShellInv, NEW t \in Tabs, NEW table \in Tables, FollowLink(t, table)
    PROVE  ShellInv'
<1> DEFINE r == [tab[t] EXCEPT !.table = table, !.hidden = load(table), !.drawer = FALSE,
                               !.section = UnfoldedBy(t, tab[t].mobile)]
<1>1. tab[t] \in TabRecord /\ tab[t] # Closed /\ TabSound(t)
  BY OpenTabs DEF FollowLink, ShellInv
<1>2. tab' = [tab EXCEPT ![t] = r] /\ UNCHANGED <<stored, writable, cookie, os, author, narrow>>
  BY DEF FollowLink
<1>3. load(table) \in SUBSET Columns /\ load(table) # Columns
  BY ReadTypes
<1>4. r \in TabRecord
  <2>1. UnfoldedBy(t, tab[t].mobile) \in BOOLEAN
    BY <1>1, SectionType DEF TabRecord
  <2> QED BY <1>1, <1>3, <2>1 DEF TabRecord
<1>5. /\ r.table = table /\ r.hidden = load(table) /\ r.theme = tab[t].theme
      /\ r.rail = tab[t].rail /\ r.resolved = tab[t].resolved
      /\ r.listening = tab[t].listening /\ r.settled = tab[t].settled
  BY <1>1 DEF TabRecord
<1>6. tab'[t] = r
  BY <1>2 DEF ShellInv
<1> HIDE DEF r
<1>7. TabSound(t)'
  BY <1>1, <1>2, <1>3, <1>5, <1>6 DEF TabSound, resolve, readStoredTheme, storedSidebarOpen, load
<1> QED BY <1>2, <1>4, <1>7, OneTabOnly DEF ShellInv, StoreTypeOK

LEMMA FoldSectionStep ==
    ASSUME ShellInv, NEW t \in Tabs, FoldSection(t)
    PROVE  ShellInv'
<1> DEFINE r == [tab[t] EXCEPT !.section = ~@]
<1>1. tab[t] \in TabRecord /\ tab[t] # Closed
  BY OpenTabs DEF FoldSection
<1>2. r \in TabRecord
  BY <1>1 DEF TabRecord
<1>3. /\ r.table = tab[t].table /\ r.hidden = tab[t].hidden /\ r.theme = tab[t].theme
      /\ r.resolved = tab[t].resolved /\ r.listening = tab[t].listening
      /\ r.settled = tab[t].settled /\ r.rail = tab[t].rail
  BY <1>1 DEF TabRecord
<1>4. /\ tab' = [tab EXCEPT ![t] = r]
      /\ UNCHANGED <<stored, writable, cookie, os, author>> /\ narrow' \subseteq Tabs
  BY DEF FoldSection, ShellInv, StoreTypeOK
<1> HIDE DEF r
<1> QED BY <1>1, <1>2, <1>3, <1>4, LayoutStep

LEMMA ResizeWindowStep ==
    ASSUME ShellInv, NEW t \in Tabs, ResizeWindow(t)
    PROVE  ShellInv'
<1> DEFINE r == IF tab[t].settled
                THEN [tab[t] EXCEPT !.mobile = t \notin narrow, !.section = TRUE] ELSE tab[t]
<1>1. tab[t] \in TabRecord /\ tab[t] # Closed
  BY OpenTabs DEF ResizeWindow
<1>2. r \in TabRecord
  BY <1>1 DEF TabRecord
<1>3. /\ r.table = tab[t].table /\ r.hidden = tab[t].hidden /\ r.theme = tab[t].theme
      /\ r.resolved = tab[t].resolved /\ r.listening = tab[t].listening
      /\ r.settled = tab[t].settled /\ r.rail = tab[t].rail
  BY <1>1 DEF TabRecord
<1>4. /\ tab' = [tab EXCEPT ![t] = r]
      /\ UNCHANGED <<stored, writable, cookie, os, author>> /\ narrow' \subseteq Tabs
  BY DEF ResizeWindow, ShellInv, StoreTypeOK
<1> HIDE DEF r
<1> QED BY <1>1, <1>2, <1>3, <1>4, LayoutStep
-----------------------------------------------------------------------------
LEMMA ToggleColumnStep ==
    ASSUME ShellInv, NEW t \in Tabs, NEW key \in Columns, ToggleColumn(t, key)
    PROVE  ShellInv'
<1> DEFINE hidden == Toggled(t, key)
           r == [tab[t] EXCEPT !.hidden = hidden]
           shown == tab[t].table
<1>1. tab[t] \in TabRecord /\ tab[t] # Closed /\ TabSound(t)
  BY OpenTabs DEF ToggleColumn, ShellInv
<1>2. /\ tab' = [tab EXCEPT ![t] = r] /\ save(shown, hidden)
      /\ author' = [author EXCEPT ![shown] = t]
      /\ UNCHANGED <<writable, cookie, os, narrow>>
  BY DEF ToggleColumn
<1>3. shown \in Tables /\ shown \in Preferences /\ shown \notin {"theme", "rail"}
  BY <1>1, PreferenceAssumption DEF TabRecord, Preferences
<1>4. hidden \in SUBSET Columns /\ hidden # Columns
  <2>1. tab[t].hidden \in SUBSET Columns /\ tab[t].hidden # Columns
    BY <1>1 DEF TabRecord, TabSound
  <2>2. key \notin tab[t].hidden => Cardinality(Columns) - Cardinality(tab[t].hidden) > 1
    BY DEF ToggleColumn, visibleCount
  <2>3. (IF key \in tab[t].hidden THEN tab[t].hidden \ {key} ELSE tab[t].hidden \cup {key}) # Columns
    BY <2>1, <2>2, OneStays
  <2> QED BY <2>1, <2>3 DEF Toggled
<1> HIDE DEF hidden
<1>5. r \in TabRecord
  BY <1>1, <1>4 DEF TabRecord
<1>6. /\ r.table = shown /\ r.hidden = hidden /\ r.theme = tab[t].theme
      /\ r.rail = tab[t].rail /\ r.resolved = tab[t].resolved
      /\ r.listening = tab[t].listening /\ r.settled = tab[t].settled
  BY <1>1 DEF TabRecord
<1>7. tab'[t] = r
  BY <1>2 DEF ShellInv
<1>8. /\ StoreTypeOK'
      /\ stored'.theme = stored.theme
      /\ \A table \in Tables \ {shown} : stored'.columns[table] = stored.columns[table]
      /\ stored'.columns[shown] \in {stored.columns[shown], hidden}
      /\ writable => stored'.columns[shown] = hidden
  <2>1. StoreTypeOK
    BY DEF ShellInv
  <2>2. CASE writable
    BY <1>2, <1>3, <1>4, <2>1, <2>2 DEF save, StoreTypeOK
  <2>3. CASE ~writable
    BY <1>2, <1>3, <2>1, <2>3 DEF save, StoreTypeOK
  <2> QED BY <2>2, <2>3
<1>9. /\ author'[shown] = t
      /\ \A p \in Preferences \ {shown} : author'[p] = author[p]
  BY <1>2, <1>3 DEF ShellInv, StoreTypeOK
<1>10. "theme" \in Preferences /\ "rail" \in Preferences /\ Tables \subseteq Preferences
  BY DEF Preferences
<1> HIDE DEF r, shown
<1>11. TabSound(t)'
  <2>1. readStoredTheme' = readStoredTheme /\ storedSidebarOpen' = storedSidebarOpen
    BY <1>2, <1>8 DEF readStoredTheme, storedSidebarOpen
  <2>2. resolve(tab[t].theme)' = resolve(r.theme)
    BY <1>2, <1>7 DEF resolve
  <2>3. r.settled => /\ r.resolved = resolve(r.theme)
                     /\ r.listening <=> r.theme = "system"
    BY <1>1, <1>6 DEF TabSound
  <2>4. /\ author'["theme"] = author["theme"] /\ author'["rail"] = author["rail"]
    BY <1>3, <1>9, <1>10
  <2>5. /\ author'["theme"] = t => readStoredTheme' = r.theme
        /\ author'["rail"] = t => (storedSidebarOpen' <=> cookie' = None \/ r.rail)
    BY <1>1, <1>2, <1>6, <2>1, <2>4 DEF TabSound
  <2>6. writable' => stored'.columns[r.table] = r.hidden
    BY <1>2, <1>6, <1>8
  <2> QED BY <1>4, <1>6, <1>7, <2>2, <2>3, <2>5, <2>6 DEF TabSound
<1>12. \A table \in Tables :
          \/ author'[table] = author[table] /\ stored'.columns[table] = stored.columns[table]
          \/ author'[table] = t /\ stored'.columns[table] # Columns
  BY <1>3, <1>4, <1>8, <1>9, <1>10 DEF ShellInv
<1>13. /\ author'["theme"] = author["theme"] /\ stored'.theme = stored.theme
       /\ author'["rail"] = author["rail"] /\ cookie' = cookie
  BY <1>2, <1>3, <1>8, <1>9, <1>10
<1> QED BY <1>2, <1>5, <1>8, <1>11, <1>12, <1>13, OneTab

LEMMA ThemeToggleStep ==
    ASSUME ShellInv, NEW t \in Tabs, NEW next \in Themes, ThemeToggle(t, next)
    PROVE  ShellInv'
<1> DEFINE r == [tab[t] EXCEPT !.theme = next, !.settled = StaysSettled(t, next)]
<1>1. tab[t] \in TabRecord /\ tab[t] # Closed /\ TabSound(t)
  BY OpenTabs DEF ThemeToggle, ShellInv
<1>2. /\ tab' = [tab EXCEPT ![t] = r] /\ stored' = [stored EXCEPT !.theme = next]
      /\ author' = [author EXCEPT !["theme"] = t]
      /\ UNCHANGED <<writable, cookie, os, narrow>>
  BY DEF ThemeToggle, setTheme
<1>3. r \in TabRecord
  <2>1. StaysSettled(t, next) \in BOOLEAN
    BY DEF StaysSettled
  <2> QED BY <1>1, <2>1 DEF TabRecord
<1>4. /\ r.table = tab[t].table /\ r.hidden = tab[t].hidden /\ r.theme = next
      /\ r.rail = tab[t].rail /\ r.table \in Tables
      /\ r.resolved = tab[t].resolved /\ r.listening = tab[t].listening
      /\ r.settled => tab[t].settled /\ next = tab[t].theme
  <2>1. r.settled = StaysSettled(t, next)
    BY <1>1 DEF TabRecord
  <2> QED BY <1>1, <2>1 DEF TabRecord, StaysSettled
<1>5. tab'[t] = r
  BY <1>2 DEF ShellInv
<1>6. /\ StoreTypeOK' /\ stored'.columns = stored.columns /\ stored'.theme = next
  BY <1>2 DEF ShellInv, StoreTypeOK, Preferences
<1>7. /\ author'["theme"] = t /\ author'["rail"] = author["rail"]
      /\ \A table \in Tables : author'[table] = author[table]
  BY <1>2, PreferenceAssumption DEF ShellInv, StoreTypeOK, Preferences
<1> HIDE DEF r
<1>8. TabSound(t)'
  <2>1. readStoredTheme' = next /\ storedSidebarOpen' = storedSidebarOpen
    BY <1>2, <1>6 DEF readStoredTheme, storedSidebarOpen
  <2>2. resolve(tab[t].theme)' = resolve(r.theme)
    BY <1>2, <1>5 DEF resolve
  <2> QED BY <1>1, <1>2, <1>4, <1>5, <1>6, <1>7, <2>1, <2>2 DEF TabSound
<1> QED BY <1>2, <1>3, <1>6, <1>7, <1>8, OneTab

LEMMA ToggleSidebarStep ==
    ASSUME ShellInv, NEW t \in Tabs, ToggleSidebar(t)
    PROVE  ShellInv'
<1>1. tab[t] \in TabRecord /\ tab[t] # Closed /\ TabSound(t)
  BY OpenTabs DEF ToggleSidebar, ShellInv
<1>2. UNCHANGED <<stored, writable, os, narrow>>
  BY DEF ToggleSidebar
<1>3. CASE tab[t].mobile
  <2> DEFINE r == [tab[t] EXCEPT !.drawer = ~@, !.section = TRUE]
  <2>1. r \in TabRecord
    BY <1>1 DEF TabRecord
  <2>2. /\ r.table = tab[t].table /\ r.hidden = tab[t].hidden /\ r.theme = tab[t].theme
        /\ r.resolved = tab[t].resolved /\ r.listening = tab[t].listening
        /\ r.settled = tab[t].settled /\ r.rail = tab[t].rail
    BY <1>1 DEF TabRecord
  <2>3. tab' = [tab EXCEPT ![t] = r] /\ UNCHANGED <<cookie, author>>
    BY <1>3 DEF ToggleSidebar, toggleSidebar
  <2>4. narrow' \subseteq Tabs
    BY <1>2 DEF ShellInv, StoreTypeOK
  <2> HIDE DEF r
  <2> QED BY <1>1, <1>2, <2>1, <2>2, <2>3, <2>4, LayoutStep
<1>4. CASE ~tab[t].mobile
  <2> DEFINE r == [tab[t] EXCEPT !.rail = ~@]
  <2>1. r \in TabRecord
    BY <1>1 DEF TabRecord
  <2>2. /\ r.table = tab[t].table /\ r.hidden = tab[t].hidden /\ r.theme = tab[t].theme
        /\ r.resolved = tab[t].resolved /\ r.listening = tab[t].listening
        /\ r.settled = tab[t].settled /\ r.rail = ~tab[t].rail /\ r.table \in Tables
    BY <1>1 DEF TabRecord
  <2>3. /\ tab' = [tab EXCEPT ![t] = r]
        /\ cookie' = IF tab[t].rail THEN "false" ELSE "true"
        /\ author' = [author EXCEPT !["rail"] = t]
    BY <1>4 DEF ToggleSidebar, toggleSidebar
  <2>4. tab'[t] = r
    BY <2>3 DEF ShellInv
  <2>5. StoreTypeOK'
    BY <1>2, <2>3 DEF ShellInv, StoreTypeOK, Preferences
  <2>6. /\ author'["rail"] = t /\ author'["theme"] = author["theme"]
        /\ \A table \in Tables : author'[table] = author[table]
    BY <2>3, PreferenceAssumption DEF ShellInv, StoreTypeOK, Preferences
  <2>7. storedSidebarOpen' <=> cookie' = None \/ r.rail
    <3>1. tab[t].rail \in BOOLEAN
      BY <1>1 DEF TabRecord
    <3>2. CASE tab[t].rail
      BY <2>2, <2>3, <3>2 DEF storedSidebarOpen, None
    <3>3. CASE ~tab[t].rail
      BY <2>2, <2>3, <3>3 DEF storedSidebarOpen, None
    <3> QED BY <3>1, <3>2, <3>3
  <2> HIDE DEF r
  <2>8. TabSound(t)'
    <3>1. readStoredTheme' = readStoredTheme /\ resolve(tab[t].theme)' = resolve(r.theme)
      BY <1>2, <2>4 DEF readStoredTheme, resolve
    <3> QED BY <1>1, <1>2, <2>2, <2>4, <2>6, <2>7, <3>1 DEF TabSound
  <2> QED BY <1>2, <2>1, <2>3, <2>5, <2>6, <2>8, OneTab
<1> QED BY <1>3, <1>4

LEMMA CookieLapsesStep ==
    ASSUME ShellInv, CookieLapses
    PROVE  ShellInv'
<1>1. cookie' = None /\ UNCHANGED <<stored, writable, os, narrow, tab, author>>
  BY DEF CookieLapses
<1>2. storedSidebarOpen' /\ readStoredTheme' = readStoredTheme
  BY <1>1 DEF storedSidebarOpen, readStoredTheme, None
<1>3. \A t \in Tabs : TabSound(t)'
  BY <1>1, <1>2 DEF ShellInv, TabSound, resolve
<1> QED BY <1>1, <1>3 DEF ShellInv, StoreTypeOK
-----------------------------------------------------------------------------
(* The system changes its colours under every tab at once. *)
LEMMA ChangeSchemeStep ==
    ASSUME ShellInv, ChangeScheme
    PROVE  ShellInv'
<1>1. os' = Other(os) /\ os' \in Schemes /\ UNCHANGED <<stored, writable, cookie, narrow, author>>
  BY DEF ChangeScheme, ShellInv, StoreTypeOK, Schemes, Other
<1>2. StoreTypeOK'
  BY <1>1 DEF ShellInv, StoreTypeOK
<1>3. ASSUME NEW t \in Tabs
      PROVE  \/ tab'[t] = tab[t] /\ (tab[t] # Closed => ~tab[t].listening)
             \/ /\ tab[t] \in TabRecord /\ tab[t].listening
                /\ tab'[t] = [tab[t] EXCEPT !.resolved = os']
  BY OpenTabs DEF ChangeScheme
<1>4. tab' \in [Tabs -> TabRecord \cup {Closed}]
  <2>1. DOMAIN tab' = Tabs /\ tab' = [t \in Tabs |-> tab'[t]]
    BY DEF ChangeScheme
  <2>2. \A r \in TabRecord : [r EXCEPT !.resolved = os'] \in TabRecord
    BY <1>1 DEF TabRecord
  <2> QED BY <1>3, <2>1, <2>2 DEF ShellInv
<1>5. ASSUME NEW t \in Tabs PROVE TabSound(t)'
  <2>1. TabSound(t) /\ readStoredTheme' = readStoredTheme
        /\ storedSidebarOpen' = storedSidebarOpen
    BY <1>1 DEF ShellInv, readStoredTheme, storedSidebarOpen
  <2>2. CASE tab'[t] = tab[t] /\ (tab[t] # Closed => ~tab[t].listening)
    BY <1>1, <2>1, <2>2 DEF TabSound, resolve
  <2>3. CASE /\ tab[t] \in TabRecord /\ tab[t].listening
             /\ tab'[t] = [tab[t] EXCEPT !.resolved = os']
    <3>1. tab[t] # Closed
      BY <2>3, OpenTabs
    <3>2. /\ tab'[t].resolved = os' /\ tab'[t].table = tab[t].table
          /\ tab'[t].hidden = tab[t].hidden /\ tab'[t].theme = tab[t].theme
          /\ tab'[t].rail = tab[t].rail /\ tab'[t].listening
      BY <2>3 DEF TabRecord
    <3>3. tab[t].settled => resolve(tab[t].theme)' = os'
      <4>1. tab[t].settled => tab[t].theme = "system"
        BY <2>1, <2>3, <3>1 DEF TabSound
      <4> QED BY <3>2, <4>1 DEF resolve
    <3>4. tab'[t].settled = tab[t].settled /\ tab'[t].listening = tab[t].listening
      BY <2>3 DEF TabRecord
    <3>5. tab'[t].settled => /\ tab'[t].resolved = resolve(tab[t].theme)'
                             /\ tab'[t].listening <=> tab'[t].theme = "system"
      BY <2>1, <2>3, <3>1, <3>2, <3>3, <3>4 DEF TabSound
    <3> QED BY <1>1, <2>1, <3>1, <3>2, <3>5 DEF TabSound
  <2> QED BY <1>3, <2>2, <2>3
<1> QED BY <1>1, <1>2, <1>4, <1>5 DEF ShellInv
-----------------------------------------------------------------------------
LEMMA NextKeepsInv == ShellInv /\ [Next]_vars => ShellInv'
<1> SUFFICES ASSUME ShellInv, [Next]_vars PROVE ShellInv'
  OBVIOUS
<1>1. CASE UNCHANGED vars
  BY <1>1 DEF vars, ShellInv, StoreTypeOK, TabSound, resolve, readStoredTheme, storedSidebarOpen
<1>2. CASE Next
  BY <1>2, OpenTabStep, FollowLinkStep, EffectsStep, FoldSectionStep, ToggleSidebarStep,
     ResizeWindowStep, ToggleColumnStep, ThemeToggleStep, ChangeSchemeStep, CookieLapsesStep DEF Next
<1> QED BY <1>1, <1>2

THEOREM ShellInvariant == Spec => []ShellInv
BY InitInv, NextKeepsInv, PTL DEF Spec

(* The types, for any tabs, tables and columns.                             *)
THEOREM ShellType == Spec => []ShellTypeOK
<1>1. ShellInv => ShellTypeOK
  BY DEF ShellInv, StoreTypeOK, ShellTypeOK, TabTypeOK, TabRecord
<1> QED BY <1>1, ShellInvariant, PTL

(* ColumnVisibility.tsx: the last visible column cannot be hidden, and what *)
(* other tabs stored meanwhile never makes it so.                           *)
THEOREM TablesKeepAColumn == Spec => []AColumnStaysVisible
<1>1. ShellInv => AColumnStaysVisible
  BY OpenTabs DEF ShellInv, TabSound, AColumnStaysVisible, Open
<1> QED BY <1>1, ShellInvariant, PTL

(* ThemeProvider.tsx: no change of the system's scheme is missed, on        *)
(* whichever side of an effect it falls.                                    *)
THEOREM ThemeFollows == Spec => []ThemeIsApplied
<1>1. ShellInv => ThemeIsApplied
  BY OpenTabs DEF ShellInv, TabSound, ThemeIsApplied, Open
<1> QED BY <1>1, ShellInvariant, PTL

(* A reload restores what the tab itself changed last, the rail as long as  *)
(* its cookie has not lapsed.                                               *)
THEOREM ReloadsRestore == Spec => []PreferencesSurviveReload
<1>1. ShellInv => PreferencesSurviveReload
  BY OpenTabs DEF ShellInv, TabSound, PreferencesSurviveReload, Open, load
<1> QED BY <1>1, ShellInvariant, PTL
=============================================================================
