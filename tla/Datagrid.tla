------------------------------ MODULE Datagrid ------------------------------
(***************************************************************************)
(* The data grid of Fuel UX with its search field, filter, page size and   *)
(* pager (fuelux.js), and the data source of the page (app.data.js), which *)
(* answers from a timer: the options it reads are the grid's own, as they  *)
(* are when the timer runs.                                                *)
(***************************************************************************)
EXTENDS Integers, FiniteSetsExt

CONSTANTS
    Counts,     \* how many rows a search and a filter leave
    PageSizes,  \* the sizes to select from
    MaxPending, \* bound on the answers that are pending
    MaxPage     \* bound on how far the buttons of the pager go, in both directions

(* "" finds everything, and "all" filters nothing. *)
Searches == {"", "some"}
Filters == {"all", "lt5m"}

ASSUME DatagridAssumption ==
    /\ Counts \in [Searches -> [Filters -> Nat]]
    /\ PageSizes # {} /\ PageSizes \subseteq Nat \ {0}
    /\ MaxPending \in Nat \ {0} /\ MaxPage \in Nat \ {0}

(* Whether rows are sorted (by a column, one is as good as another). *)
Sorts == {"no", "asc", "desc"}

VARIABLE
    grid    \* pageIndex, pageSize, search, filter and sort (the options), pending
            \* (answers), shown (what the last answer said), loading (the
            \* placeholder is shown instead), text, activeSearch and remove (the
            \* field, its icon), hasty (history: since the query was changed the
            \* pager was used while loading, or asked for a page below the first)

(* data: what the data source says of the options. *)
Data(g) ==
    LET count == Counts[g.search][g.filter]
        first == g.pageIndex * g.pageSize
    IN  [count |-> count, page |-> g.pageIndex + 1, start |-> first + 1,
         end |-> Min({first + g.pageSize, count}),
         pages |-> (count + g.pageSize - 1) \div g.pageSize,
         rows |-> <<g.search, g.filter, g.sort>>]

GridTypeOK ==
    /\ DOMAIN grid = {"pageIndex", "pageSize", "search", "filter", "sort", "pending", "shown",
                      "loading", "text", "activeSearch", "remove", "hasty"}
    /\ grid.pageIndex \in Int /\ grid.pageSize \in PageSizes
    /\ {grid.search, grid.text, grid.activeSearch} \subseteq Searches
    /\ grid.filter \in Filters /\ grid.sort \in Sorts
    /\ grid.pending \in 0 .. MaxPending
    /\ {grid.loading, grid.remove, grid.hasty} \subseteq BOOLEAN

RenderData(g) == [g EXCEPT !.loading = TRUE, !.pending = @ + 1]

(* Mutant of Ask: the grid stays on its page. *)
AskHere(g) == RenderData([g EXCEPT !.hasty = FALSE])

(* What every change of the query ends with. *)
Ask(g) == RenderData([g EXCEPT !.pageIndex = 0, !.hasty = FALSE])

(* The constructor renders; nothing of the footer is visible yet. *)
GridInit ==
    grid = [pageIndex |-> 0, pageSize |-> Min(PageSizes), search |-> "", filter |-> "all",
            sort |-> "no", pending |-> 1, loading |-> TRUE, text |-> "", activeSearch |-> "",
            remove |-> FALSE, hasty |-> FALSE,
            shown |-> [count |-> 0, page |-> 0, start |-> 0, end |-> 0, pages |-> 0,
                       rows |-> <<>>]]

MayAsk == grid.pending < MaxPending

(* The footer, with the page size and the pager, is hidden without rows. *)
FooterVisible == grid.shown.count > 0

(* headerClicked, on a column that is sortable. *)
GridSort ==
    /\ MayAsk
    /\ grid' = Ask([grid EXCEPT !.sort = IF @ = "asc" THEN "desc" ELSE "asc"])

(* A select has changed: Select's itemclicked, with the value of the item. *)
GridFilter(filter) ==
    /\ MayAsk
    /\ grid' = Ask([grid EXCEPT !.filter = filter])

GridPageSize(size) ==
    /\ MayAsk /\ FooterVisible
    /\ grid' = Ask([grid EXCEPT !.pageSize = size])

(* The pager: a page is typed or chosen, bounded above by the label. *)
GridPageChanged(page) ==
    /\ MayAsk /\ FooterVisible
    /\ grid' = RenderData([grid EXCEPT !.pageIndex = Min({page, grid.shown.pages}) - 1,
                                       !.hasty = grid.loading \/ page < 1])

(* The buttons are disabled by what the last answer said. *)
GridPrevious ==
    /\ MayAsk /\ FooterVisible
    /\ grid.shown.page # 1 /\ grid.pageIndex > -MaxPage
    /\ grid' = RenderData([grid EXCEPT !.pageIndex = @ - 1, !.hasty = @ \/ grid.loading])

GridNext ==
    /\ MayAsk /\ FooterVisible
    /\ grid.shown.page # grid.shown.pages /\ grid.pageIndex < MaxPage
    /\ grid' = RenderData([grid EXCEPT !.pageIndex = @ + 1, !.hasty = @ \/ grid.loading])

(* A key of the search field other than Enter. *)
GridType(text) ==
    grid' = [grid EXCEPT !.text = text,
                         !.remove = text # "" /\ text = grid.activeSearch]

Searched(g) == Ask([g EXCEPT !.search = g.text, !.activeSearch = g.text, !.remove = TRUE])

Cleared(g) ==
    Ask([g EXCEPT !.search = "", !.activeSearch = "", !.text = "", !.remove = FALSE])

(* action: Enter, or the button of the field. *)
GridSearch ==
    /\ MayAsk
    /\ IF grid.activeSearch # "" /\ grid.text \in {"", grid.activeSearch}
       THEN grid' = Cleared(grid)
       ELSE grid.text # "" /\ grid' = Searched(grid)

(* The timer: the file is read and the rows rendered, or that failed. *)
GridAnswer ==
    /\ grid.pending > 0
    /\ grid' = [grid EXCEPT !.pending = @ - 1, !.loading = FALSE, !.shown = Data(grid)]

GridFails ==
    /\ grid.pending > 0
    /\ grid' = [grid EXCEPT !.pending = @ - 1]

GridStep ==
    \/ GridSort \/ (\E filter \in Filters : GridFilter(filter))
    \/ (\E size \in PageSizes : GridPageSize(size))
    \/ (\E page \in 0 .. MaxPage : GridPageChanged(page))
    \/ GridPrevious \/ GridNext
    \/ (\E text \in Searches : GridType(text))
    \/ GridSearch \/ GridAnswer \/ GridFails

GridSpec == GridInit /\ [][GridStep]_grid

-----------------------------------------------------------------------------
(***************************************************************************)
(* However many answers are pending, late or lost: rows that are shown,    *)
(* with their labels, are those of the options in force.                   *)
(***************************************************************************)
GridShowsOptions == ~grid.loading => grid.shown = Data(grid)

(***************************************************************************)
(* The page shown exists (a query without rows has an empty first page),   *)
(* if the pager is used only on an answer: pressed while loading it goes   *)
(* beyond the last page, as the buttons are disabled by the answer, until  *)
(* a page is chosen on an answer or the query is changed.                  *)
(***************************************************************************)
GridPageExists ==
    (~grid.loading /\ ~grid.hasty) =>
        \/ grid.shown.page \in 1 .. grid.shown.pages
        \/ grid.shown.page = 1 /\ grid.shown.count = 0

(***************************************************************************)
(* Field and grid agree on what is searched for, and the icon offers to    *)
(* remove exactly a search that is in force and still in the field.        *)
(***************************************************************************)
GridSearchAgrees ==
    /\ grid.search = grid.activeSearch
    /\ grid.remove = (grid.text # "" /\ grid.text = grid.activeSearch)

(***************************************************************************)
(* The grid: rows, page and search are those of the options in force.      *)
(***************************************************************************)
GridSafe == GridShowsOptions /\ GridPageExists /\ GridSearchAgrees

=============================================================================
