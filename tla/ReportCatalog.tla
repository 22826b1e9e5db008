---------------------------- MODULE ReportCatalog ----------------------------
(***************************************************************************)
(* Finding a report: the address of the hub holds what is looked for, the  *)
(* folder tree and the list are queries over it, and the list is read a    *)
(* page at a time while reports are published and removed.                 *)
(***************************************************************************)
EXTENDS SequencesExt, Sorting

CONSTANTS
  Folders, Parent,    \* the folders, and [Folders -> Folders \cup {None}]
  Reports, Place,     \* reports, and the folder of each
  Matching,           \* the reports a search finds
  PublishedAt,        \* [Reports -> Nat]: the date; no two have the same, or their ids decide
  Newer,              \* a report that is published later
  Rank,               \* [Reports -> Nat]: popularity
  PageSize,           \* CATALOG_PAGE_SIZE
  None

VARIABLES
  published,  \* the reports the user may see
  hub,        \* the address: mode, q, root, folder, sort
  tree,       \* whether the folder tree for the search is loaded
  rows,       \* the pages of the list, and the key they were read for
  moved       \* the reports have changed since the first of these pages

catalogVars == <<published, hub, tree, rows, moved>>

-----------------------------------------------------------------------------
(* The folder tree.                                                        *)

Above[f \in Folders] == {f} \cup (IF Parent[f] = None THEN {} ELSE Above[Parent[f]])
Below == [f \in Folders |-> {g \in Folders : f \in Above[g]}]

\* containsFolder.
Holds(f, g) == g \in Below[f]
Found(q)    == {r \in published : q => r \in Matching}

\* Only folders on the way to a report the user may see, and the search finds.
Tree(q)        == UNION {Above[Place[r]] : r \in Found(q)}
Children(f, q) == {g \in Tree(q) : Parent[g] = f}

\* folderOwnerRoot: the root above the selected folder.
Owner(u) ==
  IF tree /\ u.folder \in Tree(u.q) THEN CHOOSE f \in Above[u.folder] : Parent[f] = None ELSE None

\* Mutant: the root of the address comes first.
RequestedRoot(u) == IF u.root # None THEN u.root ELSE Owner(u)

RootOf(u) == IF Owner(u) # None THEN Owner(u) ELSE u.root

\* visibleFolderLevels: the folders whose children are offered.
Levels(u) ==
  LET root == RootOf(u) IN
  IF ~tree \/ root \notin Tree(u.q) \/ Children(root, u.q) = {} THEN {}
  ELSE {root} \cup {f \in Below[root] \ {root} :
                      u.folder # None /\ Holds(f, u.folder) /\ Children(f, u.q) # {}}

-----------------------------------------------------------------------------
(* The list.                                                               *)

Listing(u) == u.mode \in {"home", "catalog"}
Key(u) == [q |-> u.q, root |-> RootOf(u), folder |-> u.folder, sort |-> u.sort]
NoRows == [key |-> None, pages |-> <<>>]

Before(sort, x, y) ==
  \/ sort = "popular" /\ Rank[x] > Rank[y]
  \/ (sort = "popular" => Rank[x] = Rank[y]) /\ PublishedAt[x] > PublishedAt[y]

\* What the server lists for a key, the latest first unless by popularity.
Listed(k) == {r \in published : /\ k.q => r \in Matching
                                /\ k.root # None => Place[r] \in Below[k.root]
                                /\ k.folder # None => Place[r] \in Below[k.folder]}
Catalog(k) == InOrder(Listed(k), {e \in Listed(k) \X Listed(k) : Before(k.sort, e[1], e[2])})

Page(k, offset) ==
  LET list == Catalog(k) IN
  [offset |-> offset, total |-> Len(list),
   items |-> SubSeq(list, offset + 1, IF offset + PageSize < Len(list) THEN offset + PageSize ELSE Len(list))]

ItemsOf(pages) == FlattenSeq([i \in DOMAIN pages |-> pages[i].items])
NextOffset(pages) == Last(pages).offset + Len(Last(pages).items)

HasNext(pages) == pages # <<>> /\ NextOffset(pages) < Last(pages).total

Current == hub.mode # "other" /\ rows.key = Key(hub)

CatalogTypeOK ==
  /\ published \subseteq Reports
  /\ hub \in [mode : {"home", "catalog", "other"}, q : BOOLEAN, root : Folders \cup {None},
              folder : Folders \cup {None}, sort : {"latest", "popular"}]
  /\ tree \in BOOLEAN /\ moved \in BOOLEAN

CatalogInit ==
  /\ published = Reports \ {Newer}
  /\ hub = [mode |-> "home", q |-> FALSE, root |-> None, folder |-> None, sort |-> "latest"]
  /\ tree = FALSE
  /\ rows = NoRows
  /\ moved = FALSE

-----------------------------------------------------------------------------
(* Actions.                                                                *)

TreeArrives ==
  /\ Listing(hub) /\ ~tree /\ tree' = TRUE
  /\ UNCHANGED <<published, hub, rows, moved>>

\* The effect on an address whose root is not the one of its folder.
NormaliseRoot ==
  /\ Listing(hub) /\ Owner(hub) \notin {None, hub.root}
  /\ hub' = [hub EXCEPT !.root = Owner(hub)]
  /\ UNCHANGED <<published, tree, rows, moved>>

FetchFirst ==
  /\ Listing(hub) /\ rows.key # Key(hub)
  /\ rows' = [key |-> Key(hub), pages |-> <<Page(Key(hub), 0)>>]
  /\ moved' = FALSE
  /\ UNCHANGED <<published, hub, tree>>

FetchNext ==
  /\ Listing(hub) /\ Current /\ HasNext(rows.pages)
  /\ rows' = [rows EXCEPT !.pages = Append(@, Page(rows.key, NextOffset(@)))]
  /\ UNCHANGED <<published, hub, tree, moved>>

\* A fetch of all loaded pages, because the list may be stale: in turn, and no
\* further than there is more.
Loaded(k, n) ==
  LET filled == {0} \cup {i \in 1..(n - 1) : i * PageSize < Len(Catalog(k))} IN
  [i \in 1..Cardinality(filled) |-> Page(k, (i - 1) * PageSize)]

FetchAgain ==
  /\ Listing(hub) /\ Current /\ moved
  /\ rows' = [rows EXCEPT !.pages = Loaded(rows.key, Len(@))]
  /\ moved' = FALSE
  /\ UNCHANGED <<published, hub, tree>>

\* A new address: a tree for another search has to be loaded.  (A list that is
\* still in the cache of the browser counts as read again.)
Go(u) ==
  /\ u # hub /\ hub' = u
  /\ tree' = (tree /\ u.q = hub.q)
  /\ UNCHANGED <<published, rows, moved>>

\* Controls of the list keep the page: home stays home.
SelectRoot(f) ==
  /\ Listing(hub) /\ (f = None \/ (tree /\ f \in Tree(hub.q) /\ Parent[f] = None))
  /\ Go([hub EXCEPT !.root = f, !.folder = None])

SelectFolder(f) ==
  /\ Listing(hub) /\ \E g \in Levels(hub) : f \in Children(g, hub.q)
  /\ Go([hub EXCEPT !.folder = f])

SelectSort(s) == Listing(hub) /\ Go([hub EXCEPT !.sort = s])

Search(q) == hub.mode = "home" /\ Go([hub EXCEPT !.q = q])

\* The sidebar, a link of one's own, and the back button.
Sidebar(mode, f) ==
  /\ f # None => mode = "catalog" /\ Parent[f] = None
  /\ Go([mode |-> mode, q |-> FALSE, root |-> f, folder |-> None, sort |-> "latest"])

Link(u) == Go(u)

\* A report of the list is opened: the hub is left.
Open ==
  /\ Listing(hub) /\ Current /\ ItemsOf(rows.pages) # <<>>
  /\ Go([hub EXCEPT !.mode = "other"])

\* Somebody publishes a report, or the user loses one.
Publish(r) ==
  /\ r \notin published
  /\ published' = published \cup {r}
  /\ moved' = TRUE
  /\ UNCHANGED <<hub, tree, rows>>

Withdraw(r) ==
  /\ r \in published
  /\ published' = published \ {r}
  /\ moved' = TRUE
  /\ UNCHANGED <<hub, tree, rows>>

CatalogNext ==
  \/ TreeArrives \/ NormaliseRoot \/ FetchFirst \/ FetchNext \/ FetchAgain \/ Open
  \/ \E f \in Folders \cup {None} : SelectRoot(f) \/ SelectFolder(f)
  \/ \E s \in {"latest", "popular"} : SelectSort(s)
  \/ \E q \in BOOLEAN : Search(q)
  \/ \E mode \in {"home", "catalog", "other"}, f \in Folders \cup {None} : Sidebar(mode, f)
  \/ \E root, f \in Folders : Link([hub EXCEPT !.mode = "catalog", !.root = root, !.folder = f])
  \/ Publish(Newer) \/ Withdraw(Newer)

CatalogSpec == CatalogInit /\ [][CatalogNext]_catalogVars

-----------------------------------------------------------------------------
(* Properties.                                                             *)

\* The list on the screen is a beginning of what the server lists for the
\* address, without a gap or a report twice, and "more" is offered exactly when
\* there is more, unless the reports have changed since it was begun; and a
\* selected folder of the tree is always among the folders offered, also when
\* the address names another root.
RowsAreCatalog ==
  /\ Listing(hub) /\ Current /\ ~moved =>
       LET items == ItemsOf(rows.pages) IN
       /\ IsPrefix(items, Catalog(rows.key))
       /\ HasNext(rows.pages) <=> Len(items) < Len(Catalog(rows.key))
       /\ Len(rows.pages) > 1 => Last(rows.pages).items # <<>>
  /\ Listing(hub) /\ tree /\ hub.folder \in Tree(hub.q) =>
       \/ Parent[hub.folder] = None
       \/ \E f \in Levels(hub) : hub.folder \in Children(f, hub.q)
=============================================================================
